----------------------------- MODULE MCDiscovery -----------------------------
(***************************************************************************)
(* Instances of Discovery for TLC.                                         *)
(***************************************************************************)
EXTENDS Discovery

MCEndpoints == {"remote", "sock", "desktop", "buildkitd"}
MCUserSockets == <<"desktop">>
MCLocalSockets == <<"buildkitd">>

\* Nothing set.
Plain == [address |-> "none", buildkitHost |-> "none", dockerHost |-> "none",
          dockerContext |-> "none", currentContext |-> "none",
          work |-> [host |-> "none", tls |-> FALSE],
          autodiscover |-> TRUE, embedded |-> "auto"]

Context(h, t) == [Plain EXCEPT !.currentContext = "work", !.work = [host |-> h, tls |-> t]]

\* Each source of an endpoint, alone and beside others it rules out.
AllSetups ==
  {Plain,
   [Plain EXCEPT !.address = "remote"],
   [Plain EXCEPT !.address = "remote", !.buildkitHost = "buildkitd"],
   [Plain EXCEPT !.buildkitHost = "remote", !.embedded = "force"],
   [Plain EXCEPT !.embedded = "force"],
   [Plain EXCEPT !.embedded = "never"],
   [Plain EXCEPT !.autodiscover = FALSE],
   [Plain EXCEPT !.autodiscover = FALSE, !.embedded = "never"],
   [Plain EXCEPT !.dockerHost = "remote"],
   [Context("remote", FALSE) EXCEPT !.dockerContext = "work"],
   [Context("remote", FALSE) EXCEPT !.dockerContext = "default"],
   [Plain EXCEPT !.dockerContext = "work"],
   Context("remote", FALSE), Context("desktop", FALSE), Context("none", FALSE),
   Context("remote", TRUE), Context("desktop", TRUE)}
=============================================================================
