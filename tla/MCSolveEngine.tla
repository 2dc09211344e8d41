--------------------------- MODULE MCSolveEngine ----------------------------
(***************************************************************************)
(* Instances of SolveEngine for TLC.                                       *)
(***************************************************************************)
EXTENDS SolveEngine

Spelled(n, scheme) == [name |-> n, scheme |-> scheme, slash |-> scheme # ""]

HubURL == Spelled("index.docker.io/v1", "https://")
HubHost == Spelled("docker.io", "")
Ghcr == Spelled("ghcr.io", "")

MCSpellings == {HubURL, HubHost, Ghcr}
MCHelped == {HubURL, Ghcr}

\* One credential for the hub's URL alone and one for the other registry.
MCStores == {[s \in MCSpellings |-> IF s = HubHost THEN "anonymous" ELSE "x"]}

\* Docker's configuration alone; two blocks for one registry; a block beside
\* docker's configuration; nothing at all.
MCConfigs ==
  {[blocks |-> {}, docker |-> TRUE],
   [blocks |-> {[address |-> HubURL, secret |-> "y"]}, docker |-> TRUE],
   [blocks |-> {[address |-> HubURL, secret |-> "x"],
                [address |-> HubHost, secret |-> "y"]}, docker |-> TRUE],
   [blocks |-> {}, docker |-> FALSE]}
=============================================================================
