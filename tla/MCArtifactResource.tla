------------------------- MODULE MCArtifactResource -------------------------
(***************************************************************************)
(* Instances of ArtifactResource for TLC.  The bytes are chosen so that    *)
(* the tree of two files v1, the tree with the first file alone, holding   *)
(* v2, and the edited file all hash to the same.                           *)
(***************************************************************************)
EXTENDS ArtifactResource, TLC

MCName == <<<<1>>, <<2>>>>
MCText == ("torn" :> <<7>>) @@ ("edited" :> <<1, 3, 2, 3>>)
          @@ ("v1" :> <<3>>) @@ ("v2" :> <<3, 2, 3>>)

\* A file that is no archive holds one content; an archive starts with 9.
code == [none |-> 0, torn |-> 1, edited |-> 2, v1 |-> 3, v2 |-> 4]
MCPacked == [x \in [Files -> Contents] |->
               IF x[1] = x[2] /\ x[1] # "none" THEN MCText[x[1]] ELSE <<9, code[x[1]], code[x[2]]>>]

Tree(a, b) == [kind |-> "dir", files |-> <<a, b>>]
File(a) == [kind |-> "file", files |-> <<a, a>>]

\* A tree, the same with one file fewer, a file, and a missing path.
AllSources == {Tree("v1", "v1"), Tree("v2", "none"), File("v2"), Absent}

Cfg(d, t, g, a) == [dst |-> d, type |-> t, triggers |-> g, args |-> a]

AllConfigs == {Cfg("p", "zip", "x", "a"), Cfg("p", "zip", "x", "b"),
               Cfg("q", "directory", "x", "a"), Cfg("q", "directory", "x", "b"),
               Cfg("p", "directory", "y", "a")}
=============================================================================
