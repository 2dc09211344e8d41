--------------------------- MODULE MCContextHash ---------------------------
(***************************************************************************)
(* A context with the names .dockerignore, a, a/b, ab and b. The bytes are *)
(* chosen so that a content and the name after it can be read as a longer  *)
(* name; with the content binary the file ab reads like the empty files ab *)
(* and b. One ignore file is empty, one ignores the directory a, one       *)
(* ignores all but b and takes a/b back, and one is no list of patterns.   *)
(***************************************************************************)
EXTENDS ContextHash, TLC

MCPaths == 1 .. 5
MCParent == <<0, 0, 2, 0, 0>>
MCName == <<<<1>>, <<2>>, <<2, 3, 4>>, <<2, 4>>, <<4>>>>

empty == <<>>
ignoresA == <<2>>
ignoresMost == <<2, 4>>
wrong == <<4>>
binary == <<NUL, 4, NUL, 6, NUL>>
MCContents == {empty, ignoresA, ignoresMost, wrong, binary}

l(kind, back, hits) == [kind |-> kind, back |-> back, hits |-> hits]
MCLines == (empty :> <<>>) @@ (binary :> <<>>)
           @@ (ignoresA :> <<l("comment", FALSE, {}), l("pattern", FALSE, {2})>>)
           @@ (ignoresMost :> <<l("pattern", FALSE, {2, 4, 5}), l("pattern", TRUE, {3, 5})>>)
           @@ (wrong :> <<l("bad", FALSE, {})>>)

node(kind, mode, content) == [kind |-> kind, mode |-> mode, content |-> content]
none == Nothing
dir == node("dir", 7, empty)
file(c) == node("leaf", 6, c)

MCEdits ==
  << {none, file(empty), file(ignoresA), file(wrong), file(Dangling), dir},
     {dir, node("locked", 7, empty), file(empty), none},
     {file(empty), file(Unreadable)},
     {none, file(empty), file(binary), node("leaf", 7, empty), file(Dangling)},
     {none, file(empty), file(ignoresA)} >>

MCTrees == {<<f, dir, file(empty), g, file(empty)>> :
              f \in {none, file(empty), file(ignoresA), file(ignoresMost)},
              g \in {file(empty), none, file(Dangling)}}

MCSetups == {[root |-> "dir", dockerignore |-> Absent],
             [root |-> "dir", dockerignore |-> ignoresA],
             [root |-> "dir", dockerignore |-> ignoresMost],
             [root |-> "dir", dockerignore |-> Missing],
             [root |-> "locked", dockerignore |-> Absent],
             [root |-> "link", dockerignore |-> Absent],
             [root |-> "none", dockerignore |-> Absent]}
=============================================================================
