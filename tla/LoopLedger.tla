----------------------------- MODULE LoopLedger -----------------------------
(***************************************************************************)
(* What the Loop store promises (docs/calendar-loop-concurrency.md), as if *)
(* nothing ran concurrently: a call takes effect in one step on the Loop   *)
(* as it stands at that step, once, or it has no effect.  A fenced call    *)
(* takes effect only on the very Loop its caller has read, an append only  *)
(* with its receipt, and nothing but a replay happens to a closed Loop.    *)
(* A caller may also learn nothing: Return covers refusals, replays,       *)
(* crashes and lost connections.                                           *)
(***************************************************************************)
EXTENDS LoopData

CONSTANTS Client,      \* concurrent callers (HTTP requests, seed runs)
          Calls,       \* the calls they make
          NoCall, NoSnapshot

VARIABLES loops, comments, receipts, \* the database
          seen,                      \* the last snapshot each caller has read
          call                       \* the call each caller waits for

vars == <<loops, comments, receipts, seen, call>>

-----------------------------------------------------------------------------
\* A row after a change to its visible content: the version counts changes.
Revised(row, text, status, refs) ==
  IF <<text, status, refs>> = <<row.text, row.status, row.refs>>
  THEN row
  ELSE [row EXCEPT !.text = text, !.status = status, !.refs = refs,
                   !.version = @ + 1]

\* The call's caller has read exactly what the Loop now holds.
Fresh(c) == Fenced(call[c]) => seen[c].row = loops[call[c].loop]

Overlay(old, new) == [f \in Field |-> IF f \in DOMAIN new THEN new[f] ELSE old[f]]
Replaced(old, new) == IF new = Keep THEN old ELSE new

\* r changes the open row into next.
Change(r, row, next) ==
  \/ /\ r.kind = "patch"
     /\ next = Revised(row, Overlay(row.text, r.text), "open", Replaced(row.refs, r.refs))
  \/ /\ r.kind = "save"
     /\ next = Revised(row, Overlay(row.text, r.text), r.status, Replaced(row.refs, r.refs))
  \/ /\ r.kind = "close"
     /\ next = Revised(row, row.text, "closed", row.refs)
  \/ /\ r.kind = "append"
     /\ next = IF r.event \in Keys(row.refs)
               THEN row
               ELSE Revised(row, row.text, "open", Append(row.refs, CalendarRef(r.event)))
  \/ /\ r.kind = "comment"
     /\ next = [row EXCEPT !.version = @ + 1]
  \/ /\ r.kind = "seed"
     /\ \E order \in InOrder(Additions(row.refs, r.refs)) :
          next = Revised(row, row.text, "open",
                         row.refs \o [n \in DOMAIN order |-> r.refs[order[n]]])

-----------------------------------------------------------------------------
Init == /\ loops \in [LoopId -> LoopRow \cup {NoLoop}]
        /\ comments = [l \in LoopId |-> <<>>]
        /\ receipts = [k \in Account \X Operation |-> NoReceipt]
        /\ seen = [c \in Client |-> NoSnapshot]
        /\ call = [c \in Client |-> NoCall]

Read(c) == /\ call[c] = NoCall
           /\ \E l \in LoopId :
                /\ loops[l] # NoLoop
                /\ seen' = [seen EXCEPT ![c] = [loop |-> l, row |-> loops[l]]]
           /\ UNCHANGED <<loops, comments, receipts, call>>

Invoke(c) == /\ call[c] = NoCall
             /\ \E r \in Calls : call' = [call EXCEPT ![c] = r]
             /\ UNCHANGED <<loops, comments, receipts, seen>>

Return(c) == /\ call[c] # NoCall
             /\ call' = [call EXCEPT ![c] = NoCall]
             /\ UNCHANGED <<loops, comments, receipts, seen>>

\* A new Loop; of a seeded identity there is only one.
Insert(c) ==
  LET r == call[c] IN
  /\ call[c] # NoCall /\ Inserts(r)
  /\ r.kind = "seed" =>
       \A l \in LoopId : loops[l] # NoLoop =>
         <<loops[l].account, loops[l].seed>> # <<r.account, r.key>>
  /\ \E l \in LoopId : loops[l] = NoLoop /\ loops' = [loops EXCEPT ![l] = NewRow(r)]
  /\ call' = [call EXCEPT ![c] = NoCall]
  /\ UNCHANGED <<comments, receipts, seen>>

\* A change of an open Loop of the caller's account, with the comment or the
\* receipt that belongs to it.
Effect(c) ==
  LET r == call[c] IN
  /\ call[c] # NoCall /\ r.kind # "create"
  /\ \E l \in LoopId :
       /\ IF r.kind = "seed" THEN loops[l] # NoLoop /\ loops[l].seed = r.key ELSE l = r.loop
       /\ loops[l] # NoLoop /\ loops[l].account = r.account /\ loops[l].status = "open"
       /\ Fresh(c)
       /\ Change(r, loops[l], loops'[l])
       /\ loops' = [loops EXCEPT ![l] = loops'[l]]
       /\ WellFormedRefs(loops'[l].refs)
       /\ comments' = IF r.kind = "comment"
                      THEN [comments EXCEPT ![l] = Append(@, c)] ELSE comments
       /\ IF r.kind = "append"
          THEN /\ receipts[<<r.account, r.op>>] = NoReceipt
               /\ receipts' = [receipts EXCEPT ![<<r.account, r.op>>] =
                                 [loop |-> l, event |-> r.event,
                                  version |-> loops'[l].version]]
          ELSE receipts' = receipts
  /\ call' = [call EXCEPT ![c] = NoCall]
  /\ UNCHANGED seen

Next == \E c \in Client : Read(c) \/ Invoke(c) \/ Return(c) \/ Insert(c) \/ Effect(c)

Spec == Init /\ [][Next]_vars
=============================================================================
