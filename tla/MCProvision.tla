---------------------------- MODULE MCProvision ----------------------------
(***************************************************************************)
(* Instances of Provision for TLC.                                         *)
(***************************************************************************)
EXTENDS Provision

\* A host with pinned releases, no override directory and nothing on PATH.
Bare == [buildkitPinned |-> TRUE, rootlesskitPinned |-> TRUE,
         overrideSet |-> FALSE, override |-> {}, path |-> {}]

\* One host per way the look-ups before the lock can go.
MixedHosts ==
  {Bare,
   [Bare EXCEPT !.path = {"buildkitd"}],
   [Bare EXCEPT !.path = {"buildkitd", "buildkit-runc", "rootlesskit"}],
   [Bare EXCEPT !.overrideSet = TRUE, !.override = {"buildkitd"}],
   [Bare EXCEPT !.rootlesskitPinned = FALSE],
   [Bare EXCEPT !.buildkitPinned = FALSE]}
============================================================================
