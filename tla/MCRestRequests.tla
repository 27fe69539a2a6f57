--------------------------- MODULE MCRestRequests ---------------------------
(* A small instance of RestRequests: account "a" with a tag and, where the .cfg's Ref
   has them, a Loop, a task of the list "home" and an item; "b" with a tag and an item
   that "a" may name. *)
EXTENDS RestRequests, TLC

CONSTANTS r1, r2

MCOwner  == [x \in Tag \cup Ref |-> IF x \in {"tag b", "item b"} THEN "b" ELSE "a"]
MCKind   == [x \in Ref |-> CASE x = "loop" -> "loop" [] x = "task" -> "task" [] OTHER -> "item"]
MCListOf == [x \in {"task"} \cap Ref |-> "home"]
MCPrincipal == {"user", "email", "calendar", "automation"} \X {"a"}
MCAsks == {<<<<"user", "a">>, x>> : x \in {"ready", "connection", "append"} \cup TagRoute}
            \cup {<<<<"email", "a">>, x>> : x \in {"dispatch", "lists"}}
            \cup {<<<<"calendar", "a">>, x>> : x \in {"append", "loops"}}
            \cup {<<<<"automation", "a">>, x>> : x \in {"items", "create"}}
Symmetry == Permutations(Request)
=============================================================================
