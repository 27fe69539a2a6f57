---------------------------- MODULE MCLoopStore -----------------------------
(* Small instances of LoopStore. *)
EXTENDS LoopStore, TLC

CONSTANTS a, b, l1, l2, l3, s1, s2, e1, e2, o1, o2, c1, c2, c3

ClientSymmetry == Permutations(Client)

Text(x, y) == [f \in {"title", "outcome"} |-> IF f = "title" THEN x ELSE y]
OpenRow(account, seed, refs) ==
  [account |-> account, seed |-> seed, text |-> Text("x", "x"),
   status |-> "open", refs |-> refs, version |-> 1]
Other(k) == [key |-> k, label |-> "other"]

PatchText(f, v, fenced) ==
  [kind |-> "patch", account |-> a, loop |-> l1, text |-> f :> v,
   refs |-> Keep, fenced |-> fenced]
PatchRefs(refs, fenced) ==
  [kind |-> "patch", account |-> a, loop |-> l1, text |-> <<>>,
   refs |-> refs, fenced |-> fenced]
SaveTitle(v, status) ==
  [kind |-> "save", account |-> a, loop |-> l1, text |-> "title" :> v,
   refs |-> Keep, status |-> status]
Close(confirmed) ==
  [kind |-> "close", account |-> a, loop |-> l1, confirmed |-> confirmed]
AppendEvent(account, l, op, e, fenced) ==
  [kind |-> "append", account |-> account, loop |-> l, op |-> op, event |-> e,
   fenced |-> fenced]
Comment(account, l) == [kind |-> "comment", account |-> account, loop |-> l]
Create(refs) ==
  [kind |-> "create", account |-> a, text |-> Text("x", "x"), refs |-> refs]
Seed(account, key, refs) ==
  [kind |-> "seed", account |-> account, key |-> key, text |-> Text("y", "y"),
   refs |-> refs]

\* One open Loop, without references.
OneLoop == {[l \in LoopId |-> IF l = l1 THEN OpenRow(a, NoSeed, <<>>) ELSE NoLoop]}

\* Interactive edits of one Loop, a legacy save among them.
EditCalls ==
  {PatchText("title", "y", FALSE), PatchText("outcome", "y", FALSE),
   PatchRefs(<<Other(e1)>>, TRUE), PatchRefs(<<>>, FALSE),
   SaveTitle("y", "open"), SaveTitle("x", "open"),
   Close(TRUE), Close(FALSE), Comment(a, l1)}

\* Two open Loops without references.
TwoLoops == {[l \in LoopId |-> OpenRow(a, NoSeed, <<>>)]}

\* Calendar appends, among them uses of one operation for another event and another Loop,
\* and the human edits they race with.
CalendarCalls ==
  {AppendEvent(a, l1, o1, e1, TRUE), AppendEvent(a, l1, o1, e1, FALSE),
   AppendEvent(a, l1, o1, e2, FALSE), AppendEvent(a, l1, o2, e2, FALSE),
   AppendEvent(a, l2, o1, e1, FALSE), AppendEvent(b, l1, o1, e1, FALSE),
   PatchRefs(<<>>, TRUE), PatchText("title", "y", FALSE), Close(TRUE)}

\* Seed runs of two accounts against a seeded and an empty database.
SeedTables ==
  {[l \in LoopId |-> NoLoop],
   [l \in LoopId |-> IF l = l1 THEN OpenRow(a, s1, <<Other(e2)>>) ELSE NoLoop]}
SeedCalls ==
  {Seed(a, s1, <<Other(e1)>>), Seed(a, s1, <<Other(e1), CalendarRef(e2)>>),
   Seed(b, s1, <<>>), Create(<<Other(e1)>>), Create(<<Other(e1), Other(e1)>>),
   PatchRefs(<<Other(o1)>>, TRUE), Close(TRUE), Comment(b, l1)}

\* A mix in which every kind of lock is waited for.
QueueCalls ==
  {Seed(a, s1, <<Other(e1)>>), AppendEvent(a, l1, o1, e1, FALSE), Comment(a, l1),
   Close(TRUE)}
=============================================================================
