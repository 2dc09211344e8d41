---------------------------- MODULE MCImageQuery ----------------------------
(***************************************************************************)
(* Instances of ImageQuery for TLC.                                        *)
(***************************************************************************)
EXTENDS ImageQuery

Amd == "linux/amd64"
Arm == "linux/arm64"

\* Two images, the later one labelled, and a still later index of two.
MCDetails ==
  [d \in {"old", "new", "multi"} |->
     CASE d = "old" -> [kind |-> "image", platforms |-> {Amd},
                        labels |-> [k \in {"tier"} |-> ""], made |-> 1]
       [] d = "new" -> [kind |-> "image", platforms |-> {Arm},
                        labels |-> [k \in {"tier"} |-> "v"], made |-> 2]
       [] d = "multi" -> [kind |-> "index", platforms |-> {Amd, Arm},
                          labels |-> [k \in {"tier"} |-> ""], made |-> 3]]

None == [k \in {} |-> ""]
Labelled(v) == [k \in {"tier"} |-> v]
Ask(ts, ls, ps, recent) ==
  [op |-> "images", tags |-> ts, valid |-> TRUE, labels |-> ls, platforms |-> ps,
   recent |-> recent]

\* All tags; some of them; by label, present or empty; by platforms; a pattern
\* that is none; one reference.
MCQueries ==
  {Ask({1, 2, 3}, None, {}, FALSE), Ask({1, 2, 3}, None, {}, TRUE),
   Ask({2, 3}, Labelled("v"), {}, FALSE), Ask({1, 2, 3}, Labelled(""), {}, TRUE),
   Ask({1, 2, 3}, None, {Amd, Arm}, FALSE), Ask({1, 2, 3}, None, {Arm}, TRUE),
   [Ask({1, 2, 3}, None, {}, FALSE) EXCEPT !.valid = FALSE],
   [Ask({2}, None, {}, FALSE) EXCEPT !.op = "image"]}
=============================================================================
