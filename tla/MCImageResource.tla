--------------------------- MODULE MCImageResource ---------------------------
(***************************************************************************)
(* Instances of ImageResource for TLC.                                     *)
(***************************************************************************)
EXTENDS ImageResource

Block(t, p, i) == [tag |-> t, push |-> p, insecure |-> i]
Config(bs, a, g) == [blocks |-> bs, args |-> a, triggers |-> g]

\* Two pushed tags; disagreeing flags; one tag, insecure, with other triggers;
\* a block that does not push.
AllConfigs ==
  {Config({Block("t1", TRUE, FALSE), Block("t2", TRUE, FALSE)}, "a", "x"),
   Config({Block("t1", TRUE, FALSE), Block("t2", TRUE, TRUE)}, "a", "x"),
   Config({Block("t1", TRUE, TRUE)}, "a", "y"),
   Config({Block("t2", FALSE, FALSE)}, "a", "x")}

NoPushConfig == {Config({Block("t1", FALSE, FALSE)}, "a", "x")}
TwoArgs == {Config({Block("t1", TRUE, FALSE)}, "a", "x"),
            Config({Block("t1", TRUE, FALSE)}, "b", "x")}
=============================================================================
