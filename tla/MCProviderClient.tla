-------------------------- MODULE MCProviderClient --------------------------
(***************************************************************************)
(* Instances of ProviderClient for TLC.                                    *)
(***************************************************************************)
EXTENDS ProviderClient

CONSTANTS c1, c2, c3, d1, d2

\* Three operations of one configuration.
OneData == [c \in {c1, c2, c3} |-> d1]

\* Two operations of one configuration beside one of another.
TwoData == [c \in {c1, c2, c3} |-> IF c = c3 THEN d2 ELSE d1]
=============================================================================
