-------------------------- MODULE LoopLedgerProofs --------------------------
(***************************************************************************)
(* Proofs, for every value of the constants, of what LoopStore promises    *)
(* across several calls: references, seeds, receipts, acknowledgements,    *)
(* and that it implements LoopLedger.                                      *)
(***************************************************************************)
EXTENDS LoopStoreProofs

\* Where an append has its advisory lock, and every caller its Loop.
Ordered == {"lock"} \cup Locked
Slot(c) == <<req[c].account, req[c].op>>
IsAppend(c) == req[c].kind = "append"
IsSeed(c) == req[c].kind = "seed"

\* The transaction writes nothing that is not there.
NoEffect(c, row, receipt, note) ==
  /\ row = prior[c] /\ receipt = NoReceipt /\ ~note
  /\ ~Inserts(req[c]) \/ IsSeed(c)
  /\ req[c].kind # "comment"
  /\ IsAppend(c) => found[c] # NoReceipt
  /\ req[c].kind = "close" => prior[c].status = "closed"

\* The transaction writes what the ledger's Effect does to the row that was read.
OneEffect(c, row, receipt, note) ==
  /\ prior[c].status = "open"
  /\ Fenced(req[c]) => seen[c].row = prior[c]
  /\ Ledger!Change(req[c], prior[c], row)
  /\ WellFormedRefs(row.refs)
  /\ note = (req[c].kind = "comment")
  /\ receipt = IF IsAppend(c)
               THEN [loop |-> target[c], event |-> req[c].event, version |-> row.version]
               ELSE NoReceipt
  /\ IsAppend(c) => found[c] = NoReceipt

-----------------------------------------------------------------------------
(* The inductive invariant, beside Inv *)

\* References are well formed wherever they can be written from.
RefsOK ==
  /\ StoredRefsWellFormed
  /\ \A c \in Client : seen[c] # NoSnapshot => WellFormedRefs(seen[c].row.refs)

\* A call was acceptable, and works on the Loop it names and has read.
CallOK ==
  \A c \in Client : pc[c] # "idle" =>
    /\ Acceptable(req[c])
    /\ ~Inserts(req[c]) => target[c] = req[c].loop
    /\ Fenced(req[c]) => seen[c].loop = req[c].loop

\* Who inserts an identity is alone with it; who found it has the Loop of that identity.
SeedOK ==
  /\ OneLoopPerSeed
  /\ \A c \in Client : pc[c] \in Ordered /\ IsSeed(c) =>
       /\ loops[target[c]] # NoLoop
       /\ loops[target[c]].account = req[c].account
       /\ loops[target[c]].seed = req[c].key
  /\ \A c \in Client : pc[c] = "inserted" => staged[c].row = NewRow(req[c]) /\ ~staged[c].note
  /\ \A c \in Client : pc[c] = "inserted" /\ IsSeed(c) =>
       \A l \in LoopId : loops[l] # NoLoop =>
         <<loops[l].account, loops[l].seed>> # <<req[c].account, req[c].key>>
  /\ \A c, d \in Client :
       /\ pc[c] = "inserted" /\ IsSeed(c) /\ pc[d] = "inserted" /\ IsSeed(d)
       /\ req[c].account = req[d].account /\ req[c].key = req[d].key
       => c = d

\* An operation is one append's at a time, who knows its receipt as it is.
OpOK ==
  /\ \A c, d \in Client :
       /\ pc[c] \in Ordered /\ IsAppend(c) /\ pc[d] \in Ordered /\ IsAppend(d)
       /\ Slot(c) = Slot(d)
       => c = d
  /\ \A c \in Client : pc[c] \in Ordered /\ IsAppend(c) =>
       /\ found[c] = receipts[Slot(c)]
       /\ found[c] # NoReceipt => found[c].loop = req[c].loop /\ found[c].event = req[c].event

\* Complete writes are one effect of the ledger, or none.
EffectOK ==
  \A c \in Client : pc[c] = "commit" =>
    \/ NoEffect(c, staged[c].row, staged[c].receipt, staged[c].note)
    \/ OneEffect(c, staged[c].row, staged[c].receipt, staged[c].note)

\* Only real calls are acknowledged, and what they were told is so.
AnswerOK ==
  /\ \A c \in Client : reply[c] \in {"done", "replayed"} =>
       /\ req[c] \in Call
       /\ req[c].kind = "close" => loops[req[c].loop] # NoLoop
  /\ AcknowledgedIsDurable

OpInv == RefsOK /\ CallOK /\ SeedOK /\ OpOK /\ EffectOK /\ ReceiptsSound /\ AnswerOK
-----------------------------------------------------------------------------
(* The row functions, as the ledger states them *)

\* The ledger and the store read the data in the same way.
LEMMA SameData ==
  /\ \A refs : Ledger!Keys(refs) = Keys(refs)
  /\ \A e : Ledger!CalendarRef(e) = CalendarRef(e)
  /\ \A have, want : Ledger!Additions(have, want) = Additions(have, want)
  /\ \A P : Ledger!InOrder(P) = InOrder(P)
  /\ \A refs : Ledger!WellFormedRefs(refs) = WellFormedRefs(refs)
  /\ \A r : Ledger!Fenced(r) = Fenced(r)
  /\ \A r : Ledger!Inserts(r) = Inserts(r)
  /\ \A r : Ledger!NewRow(r) = NewRow(r)
  /\ Ledger!LoopRow = LoopRow
<1>1. \A refs : Ledger!Keys(refs) = Keys(refs)
  BY DEF Ledger!Keys, Keys
<1>2. \A e : Ledger!CalendarRef(e) = CalendarRef(e)
  BY DEF Ledger!CalendarRef, CalendarRef
<1>3. \A have, want : Ledger!Additions(have, want) = Additions(have, want)
  BY <1>1 DEF Ledger!Additions, Additions
<1>4. \A P : Ledger!InOrder(P) = InOrder(P)
  <2>1. \A P : Ledger!Cardinality(P) = Cardinality(P)
    BY Zenon DEF Ledger!Cardinality, Cardinality
  <2> QED
    BY <2>1 DEF Ledger!InOrder, InOrder
<1>5. \A refs : Ledger!WellFormedRefs(refs) = WellFormedRefs(refs)
  BY DEF Ledger!WellFormedRefs, WellFormedRefs
<1>6. \A r : Ledger!Fenced(r) = Fenced(r)
  BY DEF Ledger!Fenced, Fenced
<1>7. \A r : Ledger!Inserts(r) = Inserts(r)
  BY DEF Ledger!Inserts, Inserts
<1>8. \A r : Ledger!NewRow(r) = NewRow(r)
  BY DEF Ledger!NewRow, NewRow
<1>9. Ledger!LoopRow = LoopRow
  BY DEF Ledger!LoopRow, LoopRow, Ledger!Ref, Ref
<1> QED
  BY <1>1, <1>2, <1>3, <1>4, <1>5, <1>6, <1>7, <1>8, <1>9

\* persist() revises the row as the ledger does.
LEMMA PersistRevises ==
  ASSUME NEW row, NEW next
  PROVE  Persist(row, next) = Ledger!Revised(row, next.text, next.status, next.refs)
BY DEF Persist, EqualVisible, Ledger!Revised

\* Revising a row to well-formed references leaves it well formed.
LEMMA PersistWellFormed ==
  ASSUME NEW row \in LoopRow, NEW next \in LoopRow, WellFormedRefs(next.refs)
  PROVE  WellFormedRefs(Persist(row, next).refs)
<1>1. CASE EqualVisible(row, next)
  BY <1>1 DEF Persist, EqualVisible
<1>2. CASE ~EqualVisible(row, next)
  <2>1. Persist(row, next).refs = next.refs
    BY <1>2 DEF Persist, LoopRow
  <2> QED
    BY <2>1
<1> QED
  BY <1>1, <1>2

\* What an edit supplies over the row.
LEMMA EditedFields ==
  ASSUME NEW row \in LoopRow, NEW r \in PatchCall \cup SaveCall
  PROVE  /\ Edited(row, r).text = Ledger!Overlay(row.text, r.text)
         /\ Edited(row, r).refs = Ledger!Replaced(row.refs, r.refs)
         /\ Edited(row, r).status = row.status
BY DEF Edited, Ledger!Overlay, Ledger!Replaced, LoopRow

\* Linking an event that is not there yet, with room for it, keeps references well formed.
LEMMA LinkedWellFormed ==
  ASSUME NEW row \in LoopRow, NEW e \in Event, WellFormedRefs(row.refs),
         e \notin Keys(row.refs), Len(row.refs) < MaxRefs
  PROVE  WellFormedRefs(Linked(row, e).refs)
<1> DEFINE refs == row.refs
           more == Append(refs, CalendarRef(e))
<1>1. refs \in Seq(Ref) /\ Len(refs) \in Nat /\ DOMAIN refs = 1..Len(refs)
  BY LenProperties DEF LoopRow
<1>2. CalendarRef(e) \in Ref /\ CalendarRef(e).key = e
  BY DataAssumption DEF DataAssumption, CalendarRef, Ref
<1>3. /\ Len(more) = Len(refs) + 1 /\ DOMAIN more = 1..(Len(refs) + 1)
      /\ \A i \in 1..Len(refs) : more[i] = refs[i]
      /\ more[Len(refs) + 1] = CalendarRef(e)
  BY <1>1, <1>2, AppendProperties
<1>4. \A i \in 1..Len(refs) : refs[i].key # e
  BY <1>1 DEF Keys
<1>5. Len(more) <= MaxRefs
  BY <1>1, <1>3, DataAssumption DEF DataAssumption
<1>6. ASSUME NEW i \in DOMAIN more, NEW j \in DOMAIN more, more[i].key = more[j].key
      PROVE  i = j
  <2>1. CASE i \in 1..Len(refs) /\ j \in 1..Len(refs)
    BY <1>1, <1>3, <1>6, <2>1 DEF WellFormedRefs
  <2>2. CASE i = Len(refs) + 1 \/ j = Len(refs) + 1
    BY <1>1, <1>2, <1>3, <1>4, <1>6, <2>2
  <2> QED
    BY <1>1, <1>3, <2>1, <2>2
<1>7. Linked(row, e).refs = more
  BY DEF Linked, LoopRow
<1> HIDE DEF more
<1> QED
  BY <1>5, <1>6, <1>7 DEF WellFormedRefs

\* A seed has finitely many additions.
LEMMA AdditionsFinite ==
  ASSUME NEW have, NEW want \in Seq(Ref)
  PROVE  Cardinality(Additions(have, want)) \in Nat
<1>1. DOMAIN want = 1..Len(want) /\ Len(want) \in Nat
  BY LenProperties
<1>2. IsFiniteSet(1..Len(want))
  BY <1>1, FS_Interval
<1>3. IsFiniteSet(Additions(have, want))
  BY <1>1, <1>2, FS_Subset DEF Additions
<1> QED
  BY <1>3, FS_CardinalityType

\* The additions of a seed are well formed with what is there, if there is room for all.
LEMMA ExtendedWellFormed ==
  ASSUME NEW row \in LoopRow, NEW want \in Seq(Ref),
         NEW order \in InOrder(Additions(row.refs, want)),
         WellFormedRefs(row.refs), WellFormedRefs(want),
         Len(row.refs) + Cardinality(Additions(row.refs, want)) <= MaxRefs
  PROVE  WellFormedRefs(Extended(row, want, order).refs)
<1> DEFINE refs == row.refs
           new == Additions(refs, want)
           n == Cardinality(new)
           k == Len(refs)
           more == [i \in DOMAIN order |-> want[order[i]]]
           all == refs \o more
<1>1. DOMAIN want = 1..Len(want) /\ Len(want) \in Nat
  BY LenProperties
<1>3. n \in Nat
  BY AdditionsFinite
<1>4. /\ order \in [1..n -> new]
      /\ \A i, j \in 1..n : i < j => order[i] < order[j]
  BY DEF InOrder
<1>5. \A i \in 1..n : order[i] \in 1..Len(want) /\ want[order[i]] \in Ref
                      /\ want[order[i]].key \notin Keys(refs)
  BY <1>1, <1>4, ElementOfSeq DEF Additions
<1>6. more = [i \in 1..n |-> want[order[i]]]
  BY <1>4
<1>7. more \in Seq(Ref) /\ Len(more) = n /\ DOMAIN more = 1..n
  <2>1. more \in Seq(Ref)
    BY <1>3, <1>5, <1>6, IsASeq
  <2> QED
    BY <1>3, <1>6, <2>1, LenProperties
<1>8. refs \in Seq(Ref) /\ k \in Nat /\ DOMAIN refs = 1..k
  BY LenProperties DEF LoopRow
<1>9. /\ all \in Seq(Ref) /\ Len(all) = k + n
      /\ \A i \in 1..(k + n) : all[i] = IF i <= k THEN refs[i] ELSE more[i - k]
  BY <1>7, <1>8, ConcatProperties
<1>10. DOMAIN all = 1..(k + n)
  BY <1>9, LenProperties
<1>11. ASSUME NEW i \in 1..n, NEW j \in 1..n, more[i].key = more[j].key PROVE i = j
  <2>1. order[i] = order[j]
    BY <1>1, <1>5, <1>6, <1>11 DEF WellFormedRefs
  <2>2. order[i] \in Int
    BY <1>5
  <2>3. i < j => order[i] < order[j]
    BY <1>4
  <2>4. j < i => order[j] < order[i]
    BY <1>4
  <2> QED
    BY <1>3, <2>1, <2>2, <2>3, <2>4
<1>12. ASSUME NEW i \in 1..k, NEW j \in 1..n PROVE refs[i].key # more[j].key
  BY <1>5, <1>6, <1>8, <1>12 DEF Keys
<1>13. ASSUME NEW i \in 1..k, NEW j \in 1..k, refs[i].key = refs[j].key PROVE i = j
  BY <1>8, <1>13 DEF WellFormedRefs
<1>14. Extended(row, want, order).refs = all
  BY DEF Extended, LoopRow
<1>15. k + n <= MaxRefs
  OBVIOUS
<1> HIDE DEF refs, new, n, k, more, all
<1>16. ASSUME NEW i \in 1..(k + n), NEW j \in 1..(k + n), all[i].key = all[j].key
       PROVE  i = j
  <2>1. CASE i <= k /\ j <= k
    <3>1. i \in 1..k /\ j \in 1..k /\ all[i] = refs[i] /\ all[j] = refs[j]
      BY <1>3, <1>8, <1>9, <2>1
    <3> QED
      BY <1>13, <1>16, <3>1
  <2>2. CASE i > k /\ j > k
    <3>1. /\ i - k \in 1..n /\ j - k \in 1..n
          /\ all[i] = more[i - k] /\ all[j] = more[j - k]
      BY <1>3, <1>8, <1>9, <2>2
    <3>2. i - k = j - k
      BY <1>11, <1>16, <3>1
    <3> QED
      BY <1>3, <1>8, <3>2
  <2>3. CASE i <= k /\ j > k
    <3>1. i \in 1..k /\ j - k \in 1..n /\ all[i] = refs[i] /\ all[j] = more[j - k]
      BY <1>3, <1>8, <1>9, <2>3
    <3> QED
      BY <1>12, <1>16, <3>1
  <2>4. CASE i > k /\ j <= k
    <3>1. j \in 1..k /\ i - k \in 1..n /\ all[j] = refs[j] /\ all[i] = more[i - k]
      BY <1>3, <1>8, <1>9, <2>4
    <3> QED
      BY <1>12, <1>16, <3>1
  <2> QED
    BY <1>3, <1>8, <2>1, <2>2, <2>3, <2>4
<1> QED
  BY <1>9, <1>10, <1>14, <1>15, <1>16 DEF WellFormedRefs
-----------------------------------------------------------------------------
(* What each transaction stages *)

\* Under the row lock a call is typed, acceptable, and its fence compares what it saw.
LEMMA AtWorkToo ==
  ASSUME Inv, OpInv, NEW c \in Client, pc[c] = "work"
  PROVE  /\ req[c] \in Call /\ Acceptable(req[c])
         /\ prior[c] \in LoopRow /\ WellFormedRefs(prior[c].refs)
         /\ prior[c] = loops[target[c]]
         /\ Fenced(req[c]) => seen[c] \in Snapshot
         /\ Current(c) /\ Fenced(req[c]) => seen[c].row = prior[c]
<1>1. /\ req[c] \in Call /\ prior[c] \in LoopRow /\ target[c] \in LoopId
      /\ Fenced(req[c]) => seen[c] \in Snapshot
  BY AtWork
<1>2. prior[c] = loops[target[c]] /\ loops[target[c]] # NoLoop
  BY DEF Inv, LockOK, Locked
<1>3. Acceptable(req[c])
  BY DEF OpInv, CallOK
<1>4. WellFormedRefs(prior[c].refs)
  BY <1>1, <1>2 DEF OpInv, RefsOK, StoredRefsWellFormed
<1>5. ASSUME Current(c), Fenced(req[c]) PROVE seen[c].row = prior[c]
  <2>1. ~Inserts(req[c])
    BY <1>5 DEF Fenced, Inserts
  <2>2. seen[c].loop = target[c]
    BY <1>5, <2>1 DEF OpInv, CallOK
  <2>3. seen[c] # NoSnapshot
    BY <1>5 DEF Inv, ControlOK
  <2>4. seen[c].row.version = prior[c].version
    BY <1>5 DEF Current, Version
  <2> QED
    BY <1>2, <2>2, <2>3, <2>4 DEF Inv, FreshnessFence
<1> QED
  BY <1>1, <1>2, <1>3, <1>4, <1>5

\* patch stages one effect.
LEMMA PatchEffect ==
  ASSUME Inv, OpInv, NEW c \in Client, Working(c, "patch"), IsOpen(c), Current(c)
  PROVE  OneEffect(c, Persist(prior[c], Edited(prior[c], req[c])), NoReceipt, FALSE)
<1> DEFINE r == req[c]
           next == Edited(prior[c], r)
<1>1. /\ r \in Call /\ r.kind = "patch" /\ Acceptable(r)
      /\ prior[c] \in LoopRow /\ WellFormedRefs(prior[c].refs)
      /\ Fenced(r) => seen[c].row = prior[c]
  BY AtWorkToo DEF Working
<1>2. r \in PatchCall
  BY <1>1, CallKinds
<1>3. next \in LoopRow
  BY <1>1, <1>2, EditedType
<1>4. /\ next.text = Ledger!Overlay(prior[c].text, r.text)
      /\ next.refs = Ledger!Replaced(prior[c].refs, r.refs)
      /\ next.status = "open"
  BY <1>1, <1>2, EditedFields DEF IsOpen
<1>5. WellFormedRefs(next.refs)
  BY <1>1, <1>4 DEF Ledger!Replaced, Acceptable, Inserts
<1>6. Ledger!Change(r, prior[c], Persist(prior[c], next))
  BY <1>1, <1>4, PersistRevises DEF Ledger!Change
<1>7. WellFormedRefs(Persist(prior[c], next).refs)
  BY <1>1, <1>3, <1>5, PersistWellFormed
<1> QED
  BY <1>1, <1>6, <1>7 DEF OneEffect, IsAppend, IsOpen

\* save stages one effect on an open Loop, and nothing on a closed one.
LEMMA SaveEffect ==
  ASSUME Inv, OpInv, NEW c \in Client, Working(c, "save"), Current(c),
         IsOpen(c) \/ EqualVisible(prior[c], SavedRow(c))
  PROVE  \/ OneEffect(c, Persist(prior[c], SavedRow(c)), NoReceipt, FALSE)
         \/ NoEffect(c, Persist(prior[c], SavedRow(c)), NoReceipt, FALSE)
<1> DEFINE r == req[c]
           next == SavedRow(c)
<1>1. /\ r \in Call /\ r.kind = "save" /\ Acceptable(r)
      /\ prior[c] \in LoopRow /\ WellFormedRefs(prior[c].refs)
      /\ seen[c].row = prior[c]
  BY AtWorkToo DEF Working, Fenced
<1>2. r \in SaveCall
  BY <1>1, CallKinds
<1>3. Edited(prior[c], r) \in LoopRow
  BY <1>1, <1>2, EditedType
<1>4. /\ Edited(prior[c], r).text = Ledger!Overlay(prior[c].text, r.text)
      /\ Edited(prior[c], r).refs = Ledger!Replaced(prior[c].refs, r.refs)
  BY <1>1, <1>2, EditedFields
<1>5. /\ next \in LoopRow /\ next.status = r.status
      /\ next.text = Ledger!Overlay(prior[c].text, r.text)
      /\ next.refs = Ledger!Replaced(prior[c].refs, r.refs)
  <2>1. next = [Edited(prior[c], r) EXCEPT !.status = r.status]
    BY <1>1 DEF SavedRow
  <2> QED
    BY <1>2, <1>3, <1>4, <2>1 DEF LoopRow, SaveCall
<1> HIDE DEF next
<1>6. WellFormedRefs(next.refs)
  BY <1>1, <1>2, <1>5 DEF Ledger!Replaced, SaveCall
<1>7. Ledger!Change(r, prior[c], Persist(prior[c], next))
  BY <1>1, <1>5, PersistRevises DEF Ledger!Change
<1>8. WellFormedRefs(Persist(prior[c], next).refs)
  BY <1>1, <1>5, <1>6, PersistWellFormed
<1>9. CASE IsOpen(c)
  BY <1>1, <1>7, <1>8, <1>9 DEF OneEffect, IsAppend, IsOpen, next
<1>10. CASE EqualVisible(prior[c], next)
  <2>1. Persist(prior[c], next) = prior[c]
    BY <1>10 DEF Persist
  <2> QED
    BY <1>1, <2>1 DEF NoEffect, IsAppend, Inserts, next
<1> QED
  BY <1>9, <1>10 DEF next

\* closeLoop stages one effect on an open Loop, and nothing on a closed one.
LEMMA CloseEffect ==
  ASSUME Inv, OpInv, NEW c \in Client, Working(c, "close")
  PROVE  \/ OneEffect(c, Persist(prior[c], Closed(prior[c])), NoReceipt, FALSE)
         \/ NoEffect(c, Persist(prior[c], Closed(prior[c])), NoReceipt, FALSE)
<1> DEFINE r == req[c]
           next == Closed(prior[c])
<1>1. /\ r \in Call /\ r.kind = "close" /\ ~Fenced(r)
      /\ prior[c] \in LoopRow /\ WellFormedRefs(prior[c].refs)
  BY AtWorkToo DEF Working, Fenced
<1>2. /\ next \in LoopRow /\ next.status = "closed"
      /\ next.text = prior[c].text /\ next.refs = prior[c].refs
  BY <1>1 DEF Closed, LoopRow
<1>3. prior[c].status \in {"open", "closed"}
  BY <1>1 DEF LoopRow
<1> HIDE DEF next
<1>4. CASE prior[c].status = "open"
  <2>1. Ledger!Change(r, prior[c], Persist(prior[c], next))
    BY <1>1, <1>2, PersistRevises DEF Ledger!Change
  <2>2. WellFormedRefs(Persist(prior[c], next).refs)
    BY <1>1, <1>2, PersistWellFormed
  <2> QED
    BY <1>1, <1>4, <2>1, <2>2 DEF OneEffect, IsAppend, next
<1>5. CASE prior[c].status = "closed"
  <2>1. Persist(prior[c], next) = prior[c]
    BY <1>2, <1>5 DEF Persist, EqualVisible
  <2> QED
    BY <1>1, <1>5, <2>1 DEF NoEffect, IsAppend, Inserts, next
<1> QED
  BY <1>3, <1>4, <1>5

\* A first append stages one effect, with its receipt.
LEMMA AppendEffect ==
  ASSUME Inv, OpInv, NEW c \in Client, Working(c, "append"), IsOpen(c), Current(c),
         found[c] = NoReceipt,
         req[c].event \in Keys(prior[c].refs) \/ ~(Len(prior[c].refs) >= MaxRefs),
         NEW row, row = IF req[c].event \in Keys(prior[c].refs)
                        THEN prior[c] ELSE Persist(prior[c], Linked(prior[c], req[c].event))
  PROVE  OneEffect(c, row,
           [loop |-> target[c], event |-> req[c].event, version |-> row.version], FALSE)
<1> DEFINE r == req[c]
           next == Linked(prior[c], r.event)
<1>1. /\ r \in Call /\ r.kind = "append"
      /\ prior[c] \in LoopRow /\ WellFormedRefs(prior[c].refs)
      /\ Fenced(r) => seen[c].row = prior[c]
  BY AtWorkToo DEF Working
<1>2. r \in AppendCall /\ r.event \in Event
  BY <1>1, CallKinds DEF AppendCall
<1>3. CASE r.event \in Keys(prior[c].refs)
  BY <1>1, <1>3, SameData DEF OneEffect, IsAppend, IsOpen, Ledger!Change
<1>4. CASE r.event \notin Keys(prior[c].refs)
  <2>1. Len(prior[c].refs) < MaxRefs
    BY <1>1, <1>4, LenProperties, DataAssumption DEF LoopRow, DataAssumption
  <2>2. next \in LoopRow /\ WellFormedRefs(next.refs)
    BY <1>1, <1>2, <1>4, <2>1, LinkedType, LinkedWellFormed
  <2>3. /\ next.text = prior[c].text /\ next.status = "open"
        /\ next.refs = Append(prior[c].refs, CalendarRef(r.event))
    BY <1>1 DEF Linked, LoopRow, IsOpen
  <2>4. Ledger!Change(r, prior[c], row)
    BY <1>1, <1>4, <2>3, PersistRevises, SameData DEF Ledger!Change
  <2>5. WellFormedRefs(row.refs)
    BY <1>1, <1>4, <2>2, PersistWellFormed
  <2> QED
    BY <1>1, <2>4, <2>5 DEF OneEffect, IsAppend, IsOpen
<1> QED
  BY <1>3, <1>4

\* A repeated seed stages its additions, all or none.
LEMMA SeedEffect ==
  ASSUME Inv, OpInv, NEW c \in Client, Working(c, "seed"), IsOpen(c),
         ~(Len(prior[c].refs) + Cardinality(Additions(prior[c].refs, req[c].refs)) > MaxRefs),
         NEW order \in InOrder(Additions(prior[c].refs, req[c].refs))
  PROVE  OneEffect(c, Persist(prior[c], Extended(prior[c], req[c].refs, order)),
                   NoReceipt, FALSE)
<1> DEFINE r == req[c]
           next == Extended(prior[c], r.refs, order)
           more == [n \in DOMAIN order |-> r.refs[order[n]]]
<1>1. /\ r \in Call /\ r.kind = "seed" /\ ~Fenced(r) /\ Acceptable(r)
      /\ prior[c] \in LoopRow /\ WellFormedRefs(prior[c].refs)
  BY AtWorkToo DEF Working, Fenced
<1>2. r.refs \in Seq(Ref) /\ WellFormedRefs(r.refs)
  BY <1>1, CallKinds DEF SeedCall, Acceptable, Inserts
<1>3. Len(prior[c].refs) + Cardinality(Additions(prior[c].refs, r.refs)) <= MaxRefs
  <2>2. Cardinality(Additions(prior[c].refs, r.refs)) \in Nat
    BY <1>2, AdditionsFinite
  <2>3. Len(prior[c].refs) \in Nat
    BY <1>1, LenProperties DEF LoopRow
  <2> QED
    BY <2>2, <2>3, DataAssumption DEF DataAssumption
<1>4. next \in LoopRow /\ WellFormedRefs(next.refs)
  BY <1>1, <1>2, <1>3, ExtendedType, ExtendedWellFormed
<1>5. /\ next.text = prior[c].text /\ next.status = "open"
      /\ next.refs = prior[c].refs \o more
  BY <1>1 DEF Extended, LoopRow, IsOpen
<1> HIDE DEF next
<1>6. Ledger!Change(r, prior[c], Persist(prior[c], next))
  <2>1. Persist(prior[c], next)
          = Ledger!Revised(prior[c], prior[c].text, "open", prior[c].refs \o more)
    BY <1>5, PersistRevises
  <2> QED
    BY <1>1, <2>1, SameData DEF Ledger!Change
<1>7. WellFormedRefs(Persist(prior[c], next).refs)
  BY <1>1, <1>4, PersistWellFormed
<1> QED
  BY <1>1, <1>6, <1>7 DEF OneEffect, IsAppend, IsOpen, next

\* addComment stages one effect.
LEMMA CommentEffect ==
  ASSUME Inv, OpInv, NEW c \in Client, Working(c, "comment"), IsOpen(c)
  PROVE  OneEffect(c, [prior[c] EXCEPT !.version = @ + 1], NoReceipt, TRUE)
<1>1. /\ req[c].kind = "comment" /\ ~Fenced(req[c])
      /\ prior[c] \in LoopRow /\ WellFormedRefs(prior[c].refs)
  BY AtWorkToo DEF Working, Fenced
<1>2. [prior[c] EXCEPT !.version = @ + 1].refs = prior[c].refs
  BY <1>1 DEF LoopRow
<1> QED
  BY <1>1, <1>2 DEF OneEffect, IsAppend, IsOpen, Ledger!Change

-----------------------------------------------------------------------------
(* Steps shared by several actions *)

\* A call that ends without a commit disturbs nobody.
LEMMA RefuseKeeps ==
  ASSUME Inv, OpInv, NEW c \in Client,
         NEW answer \in Replies \ {"done", "replayed"}, Refuse(c, answer)
  PROVE  OpInv'
<1>1. /\ UNCHANGED <<loops, comments, receipts, req, target, seen>>
      /\ pc' = [pc EXCEPT ![c] = "idle"]
      /\ reply' = [reply EXCEPT ![c] = answer]
      /\ found' = [found EXCEPT ![c] = NoReceipt]
      /\ prior' = [prior EXCEPT ![c] = NoLoop]
      /\ staged' = [staged EXCEPT ![c] = NoStage]
  BY DEF Refuse, Finish, db
<1>2. /\ pc'[c] = "idle" /\ reply'[c] = answer
      /\ \A d \in Client \ {c} : /\ pc'[d] = pc[d] /\ reply'[d] = reply[d]
                                 /\ found'[d] = found[d] /\ prior'[d] = prior[d]
                                 /\ staged'[d] = staged[d]
  BY <1>1 DEF Inv, TypeOK
<1>3. RefsOK'
  BY <1>1 DEF OpInv, RefsOK, StoredRefsWellFormed
<1>4. CallOK'
  BY <1>1, <1>2 DEF OpInv, CallOK
<1>5. SeedOK'
  BY <1>1, <1>2 DEF OpInv, SeedOK, OneLoopPerSeed, IsSeed, Ordered, Locked
<1>6. OpOK'
  BY <1>1, <1>2 DEF OpInv, OpOK, IsAppend, Slot, Ordered, Locked
<1>7. EffectOK'
  BY <1>1, <1>2 DEF OpInv, EffectOK, NoEffect, OneEffect, IsAppend, IsSeed
<1>8. ReceiptsSound'
  BY <1>1 DEF OpInv, ReceiptsSound
<1>9. AnswerOK'
  BY <1>1, <1>2 DEF OpInv, AnswerOK, AcknowledgedIsDurable
<1> QED
  BY <1>3, <1>4, <1>5, <1>6, <1>7, <1>8, <1>9 DEF OpInv

\* A read shows a committed row, with its well-formed references.
LEMMA ReadKeeps ==
  ASSUME Inv, OpInv, NEW c \in Client, NEW l \in LoopId, Read(c, l)
  PROVE  OpInv'
<1>1. /\ pc[c] = "idle" /\ loops[l] # NoLoop
      /\ seen' = [seen EXCEPT ![c] = [loop |-> l, row |-> loops[l]]]
      /\ UNCHANGED <<loops, comments, receipts, pc, req, target, found, prior, staged, reply>>
  BY DEF Read, db
<1>2. /\ seen'[c] = [loop |-> l, row |-> loops[l]]
      /\ \A d \in Client \ {c} : seen'[d] = seen[d]
  BY <1>1 DEF Inv, TypeOK
<1>3. RefsOK'
  BY <1>1, <1>2 DEF OpInv, RefsOK, StoredRefsWellFormed
<1>4. CallOK'
  BY <1>1, <1>2 DEF OpInv, CallOK
<1>5. SeedOK' /\ OpOK' /\ ReceiptsSound' /\ AnswerOK'
  BY <1>1 DEF OpInv, SeedOK, OneLoopPerSeed, IsSeed, OpOK, IsAppend, Slot, ReceiptsSound,
              AnswerOK, AcknowledgedIsDurable
<1>6. EffectOK'
  BY <1>1, <1>2 DEF OpInv, EffectOK, NoEffect, OneEffect, IsAppend, IsSeed
<1> QED
  BY <1>3, <1>4, <1>5, <1>6 DEF OpInv

\* A call begins on the Loop it names, with a snapshot of it if it is fenced.
LEMMA InvokeKeeps ==
  ASSUME Inv, OpInv, NEW c \in Client, NEW r \in Calls, NEW l \in LoopId, Invoke(c, r, l)
  PROVE  OpInv'
<1>1. /\ pc[c] = "idle" /\ Acceptable(r)
      /\ Fenced(r) => seen[c].loop = r.loop
      /\ ~Inserts(r) => l = r.loop
      /\ req' = [req EXCEPT ![c] = r]
      /\ target' = [target EXCEPT ![c] = l]
      /\ reply' = [reply EXCEPT ![c] = "none"]
      /\ pc' = [pc EXCEPT ![c] = Entry(r)]
      /\ UNCHANGED <<loops, comments, receipts, found, prior, staged, seen>>
  BY DEF Invoke, Goto, db
<1>2. r \in Call /\ Entry(r) \in {"insert", "opLock", "precheck", "lock"}
      /\ (Entry(r) = "lock" => r.kind \notin {"seed", "append"})
  BY StoreAssumption, CallKinds, Entries DEF StoreAssumption, Inserts
<1>3. /\ pc'[c] = Entry(r) /\ req'[c] = r /\ target'[c] = l /\ reply'[c] = "none"
      /\ \A d \in Client \ {c} : /\ pc'[d] = pc[d] /\ req'[d] = req[d]
                                 /\ target'[d] = target[d] /\ reply'[d] = reply[d]
  BY <1>1 DEF Inv, TypeOK
<1>4. RefsOK'
  BY <1>1 DEF OpInv, RefsOK, StoredRefsWellFormed
<1>5. CallOK'
  BY <1>1, <1>3 DEF OpInv, CallOK
<1>6. SeedOK'
  BY <1>1, <1>2, <1>3 DEF OpInv, SeedOK, OneLoopPerSeed, IsSeed, Ordered, Locked
<1>7. OpOK'
  BY <1>1, <1>2, <1>3 DEF OpInv, OpOK, IsAppend, Slot, Ordered, Locked
<1>8. EffectOK'
  BY <1>1, <1>2, <1>3 DEF OpInv, EffectOK, NoEffect, OneEffect, IsAppend, IsSeed
<1>9. ReceiptsSound'
  BY <1>1 DEF OpInv, ReceiptsSound
<1>10. AnswerOK'
  BY <1>1, <1>3 DEF OpInv, AnswerOK, AcknowledgedIsDurable
<1> QED
  BY <1>4, <1>5, <1>6, <1>7, <1>8, <1>9, <1>10 DEF OpInv

\* A refused input changes nothing but its caller's answer.
LEMMA RejectKeeps ==
  ASSUME Inv, OpInv, NEW c \in Client, NEW r \in Calls, Reject(c, r)
  PROVE  OpInv'
<1>1. /\ pc[c] = "idle"
      /\ req' = [req EXCEPT ![c] = r]
      /\ reply' = [reply EXCEPT ![c] = "invalid"]
      /\ UNCHANGED <<loops, comments, receipts, pc, target, found, prior, staged, seen>>
  BY DEF Reject, db
<1>2. /\ req'[c] = r /\ reply'[c] = "invalid"
      /\ \A d \in Client \ {c} : req'[d] = req[d] /\ reply'[d] = reply[d]
  BY <1>1 DEF Inv, TypeOK
<1>3. RefsOK'
  BY <1>1 DEF OpInv, RefsOK, StoredRefsWellFormed
<1>4. CallOK'
  BY <1>1, <1>2 DEF OpInv, CallOK
<1>5. SeedOK'
  BY <1>1, <1>2 DEF OpInv, SeedOK, OneLoopPerSeed, IsSeed, Ordered, Locked
<1>6. OpOK'
  BY <1>1, <1>2 DEF OpInv, OpOK, IsAppend, Slot, Ordered, Locked
<1>7. EffectOK'
  BY <1>1, <1>2 DEF OpInv, EffectOK, NoEffect, OneEffect, IsAppend, IsSeed
<1>8. ReceiptsSound'
  BY <1>1 DEF OpInv, ReceiptsSound
<1>9. AnswerOK'
  BY <1>1, <1>2 DEF OpInv, AnswerOK, AcknowledgedIsDurable
<1> QED
  BY <1>3, <1>4, <1>5, <1>6, <1>7, <1>8, <1>9 DEF OpInv

\* A caller moves on within its transaction: queued for the row, or further under locks
\* it has had since then.
LEMMA MoveKeeps ==
  ASSUME Inv, OpInv, NEW c \in Client, NEW label \in Ordered, pc[c] # "idle",
         label # "commit", Goto(c, label),
         UNCHANGED <<loops, comments, receipts, req, staged, seen, reply>>,
         NEW l \in LoopId, target' = [target EXCEPT ![c] = l],
         l # target[c] => Inserts(req[c]),
         IsSeed(c) => /\ loops[l] # NoLoop /\ loops[l].account = req[c].account
                      /\ loops[l].seed = req[c].key,
         NEW receipt, found' = [found EXCEPT ![c] = receipt],
         IsAppend(c) => /\ receipt = receipts[Slot(c)]
                        /\ receipt # NoReceipt => /\ receipt.loop = req[c].loop
                                                  /\ receipt.event = req[c].event
                        /\ \A d \in Client \ {c} :
                             pc[d] \in Ordered /\ IsAppend(d) => Slot(d) # Slot(c),
         NEW row, prior' = [prior EXCEPT ![c] = row]
  PROVE  OpInv'
<1>1. /\ pc'[c] = label /\ target'[c] = l /\ found'[c] = receipt /\ prior'[c] = row
      /\ \A d \in Client \ {c} : /\ pc'[d] = pc[d] /\ target'[d] = target[d]
                                 /\ found'[d] = found[d] /\ prior'[d] = prior[d]
  BY DEF Inv, TypeOK, Goto
<1>2. label \notin {"idle", "inserted", "commit"}
  BY DEF Ordered, Locked
<1>3. RefsOK'
  BY DEF OpInv, RefsOK, StoredRefsWellFormed
<1>4. CallOK'
  BY <1>1 DEF OpInv, CallOK
<1>5. SeedOK'
  BY <1>1, <1>2 DEF OpInv, SeedOK, OneLoopPerSeed, IsSeed
<1>6. OpOK'
  BY <1>1, <1>2 DEF OpInv, OpOK, IsAppend, Slot
<1>7. EffectOK'
  BY <1>1, <1>2 DEF OpInv, EffectOK, NoEffect, OneEffect, IsAppend, IsSeed
<1>8. ReceiptsSound'
  BY DEF OpInv, ReceiptsSound
<1>9. AnswerOK'
  BY <1>1, <1>2 DEF OpInv, AnswerOK, AcknowledgedIsDurable
<1> QED
  BY <1>3, <1>4, <1>5, <1>6, <1>7, <1>8, <1>9 DEF OpInv

\* The writes of a transaction that holds the row lock are complete.
LEMMA StageKeeps ==
  ASSUME Inv, OpInv, NEW c \in Client, pc[c] = "work",
         NEW row, NEW receipt, NEW note,
         NoEffect(c, row, receipt, note) \/ OneEffect(c, row, receipt, note),
         Stage(c, row, receipt, note)
  PROVE  OpInv'
<1>1. /\ pc' = [pc EXCEPT ![c] = "commit"]
      /\ staged' = [staged EXCEPT ![c] = [row |-> row, receipt |-> receipt, note |-> note]]
      /\ UNCHANGED <<loops, comments, receipts, req, target, found, prior, seen, reply>>
  BY DEF Stage, Goto, db
<1>2. /\ pc'[c] = "commit"
      /\ staged'[c].row = row /\ staged'[c].receipt = receipt /\ staged'[c].note = note
      /\ \A d \in Client \ {c} : pc'[d] = pc[d] /\ staged'[d] = staged[d]
  BY <1>1 DEF Inv, TypeOK
<1>3. RefsOK'
  BY <1>1 DEF OpInv, RefsOK, StoredRefsWellFormed
<1>4. CallOK'
  BY <1>1, <1>2 DEF OpInv, CallOK
<1>5. SeedOK'
  BY <1>1, <1>2 DEF OpInv, SeedOK, OneLoopPerSeed, IsSeed, Ordered, Locked
<1>6. OpOK'
  BY <1>1, <1>2 DEF OpInv, OpOK, IsAppend, Slot, Ordered, Locked
<1>7. EffectOK'
  BY <1>1, <1>2 DEF OpInv, EffectOK, NoEffect, OneEffect, IsAppend, IsSeed
<1>8. ReceiptsSound'
  BY <1>1 DEF OpInv, ReceiptsSound
<1>9. AnswerOK'
  BY <1>1, <1>2 DEF OpInv, AnswerOK, AcknowledgedIsDurable
<1> QED
  BY <1>3, <1>4, <1>5, <1>6, <1>7, <1>8, <1>9 DEF OpInv

\* The first row of a Loop is written; a seed that finds no rival is alone.
LEMMA StageNewKeeps ==
  ASSUME Inv, OpInv, NEW c \in Client, pc[c] = "insert",
         IsSeed(c) =>
           /\ \A l \in LoopId : loops[l] # NoLoop =>
                <<loops[l].account, loops[l].seed>> # <<req[c].account, req[c].key>>
           /\ \A d \in Client : ~HoldsSeed(d, req[c].account, req[c].key),
         Stage(c, NewRow(req[c]), NoReceipt, FALSE)
  PROVE  OpInv'
<1> DEFINE new == [row |-> NewRow(req[c]), receipt |-> NoReceipt, note |-> FALSE]
<1>1. /\ pc' = [pc EXCEPT ![c] = "inserted"]
      /\ staged' = [staged EXCEPT ![c] = new]
      /\ UNCHANGED <<loops, comments, receipts, req, target, found, prior, seen, reply>>
  BY DEF Stage, Goto, db
<1>2. /\ pc'[c] = "inserted"
      /\ staged'[c].row = NewRow(req[c]) /\ ~staged'[c].note
      /\ \A d \in Client \ {c} : pc'[d] = pc[d] /\ staged'[d] = staged[d]
  BY <1>1 DEF Inv, TypeOK
<1> HIDE DEF new
<1>3. RefsOK'
  BY <1>1 DEF OpInv, RefsOK, StoredRefsWellFormed
<1>4. CallOK'
  BY <1>1, <1>2 DEF OpInv, CallOK
<1>5. SeedOK'
  <2>1. UNCHANGED OneLoopPerSeed
    BY <1>1 DEF OneLoopPerSeed
  <2> QED
    BY <1>1, <1>2, <2>1 DEF OpInv, SeedOK, IsSeed, Ordered, Locked, HoldsSeed
<1>6. OpOK'
  BY <1>1, <1>2 DEF OpInv, OpOK, IsAppend, Slot, Ordered, Locked
<1>7. EffectOK'
  BY <1>1, <1>2 DEF OpInv, EffectOK, NoEffect, OneEffect, IsAppend, IsSeed
<1>8. ReceiptsSound'
  BY <1>1 DEF OpInv, ReceiptsSound
<1>9. AnswerOK'
  BY <1>1, <1>2 DEF OpInv, AnswerOK, AcknowledgedIsDurable
<1> QED
  BY <1>3, <1>4, <1>5, <1>6, <1>7, <1>8, <1>9 DEF OpInv

-----------------------------------------------------------------------------
(* Commit *)

\* What a commit of complete writes adds to the database, and what it leaves.
LEMMA CommitGrows ==
  ASSUME Inv, OpInv, NEW c \in Client, Commit(c)
  PROVE  /\ \A k \in Account \X Operation : receipts[k] # NoReceipt => receipts'[k] = receipts[k]
         /\ \A l \in LoopId : loops[l] # NoLoop =>
              /\ loops'[l] # NoLoop
              /\ loops'[l].account = loops[l].account /\ loops'[l].seed = loops[l].seed
              /\ loops[l].version <= loops'[l].version
              /\ loops[l].status = "closed" => loops'[l].status = "closed"
         /\ \A l \in LoopId : \A i \in DOMAIN comments[l] :
              i \in DOMAIN comments'[l] /\ comments'[l][i] = comments[l][i]
<1>1. /\ loops \in [LoopId -> LoopRow \cup {NoLoop}]
      /\ comments \in [LoopId -> Seq(Client)]
      /\ receipts \in [Account \X Operation -> Receipt \cup {NoReceipt}]
  BY DEF Inv, TypeOK
<1>2. /\ target[c] \in LoopId /\ staged[c].row \in LoopRow
      /\ loops' = [loops EXCEPT ![target[c]] = staged[c].row]
      /\ loops[target[c]] # NoLoop =>
           /\ Follows(loops[target[c]], staged[c].row, staged[c].note)
           /\ Settled(loops[target[c]], staged[c].row, staged[c].receipt, staged[c].note)
      /\ staged[c].receipt # NoReceipt => pc[c] = "commit" /\ req[c].kind = "append"
  BY CommitRow DEF Commit, AppendCall
<1>3. ASSUME NEW k \in Account \X Operation, receipts[k] # NoReceipt
      PROVE  receipts'[k] = receipts[k]
  <2>1. CASE staged[c].receipt = NoReceipt
    BY <2>1 DEF Commit
  <2>2. CASE staged[c].receipt # NoReceipt
    <3>1. /\ receipts' = [receipts EXCEPT ![Slot(c)] = staged[c].receipt]
          /\ pc[c] = "commit" /\ IsAppend(c)
      BY <1>2, <2>2 DEF Commit, Slot, IsAppend
    <3>2. found[c] = NoReceipt
      BY <2>2, <3>1 DEF OpInv, EffectOK, NoEffect, OneEffect
    <3>3. receipts[Slot(c)] = NoReceipt
      BY <3>1, <3>2 DEF OpInv, OpOK, Ordered, Locked
    <3> QED
      BY <1>1, <1>3, <3>1, <3>3
  <2> QED
    BY <2>1, <2>2
<1>4. ASSUME NEW l \in LoopId, loops[l] # NoLoop
      PROVE  /\ loops'[l] # NoLoop
             /\ loops'[l].account = loops[l].account /\ loops'[l].seed = loops[l].seed
             /\ loops[l].version <= loops'[l].version
             /\ loops[l].status = "closed" => loops'[l].status = "closed"
  <2>1. loops[l].version \in Nat
    BY <1>1, <1>4 DEF LoopRow
  <2>2. CASE l # target[c]
    BY <1>1, <1>2, <1>4, <2>1, <2>2
  <2>3. CASE l = target[c]
    <3>1. /\ loops'[l] = staged[c].row
          /\ Follows(loops[l], staged[c].row, staged[c].note)
          /\ Settled(loops[l], staged[c].row, staged[c].receipt, staged[c].note)
      BY <1>1, <1>2, <1>4, <2>3
    <3>2. staged[c].row # NoLoop
      BY <1>2, DataAssumption DEF DataAssumption
    <3> QED
      BY <2>1, <3>1, <3>2 DEF Follows, Settled
  <2> QED
    BY <2>2, <2>3
<1>5. ASSUME NEW l \in LoopId, NEW i \in DOMAIN comments[l]
      PROVE  i \in DOMAIN comments'[l] /\ comments'[l][i] = comments[l][i]
  <2>1. comments'[l] = comments[l] \/ comments'[l] = Append(comments[l], c)
    BY <1>1, <1>2 DEF Commit
  <2>2. comments[l] \in Seq(Client)
    BY <1>1
  <2> QED
    BY <2>1, <2>2, AppendProperties, LenProperties
<1> QED
  BY <1>3, <1>4, <1>5

\* The row a commit writes holds well-formed references.
LEMMA CommitWellFormed ==
  ASSUME Inv, OpInv, NEW c \in Client, Commit(c)
  PROVE  WellFormedRefs(staged[c].row.refs)
<1>1. CASE pc[c] = "inserted"
  <2>1. staged[c].row = NewRow(req[c]) /\ Acceptable(req[c]) /\ Inserts(req[c])
    BY <1>1 DEF OpInv, SeedOK, CallOK, Inv, ControlOK, Pending
  <2>2. WellFormedRefs(req[c].refs)
    BY <2>1 DEF Acceptable, Inserts
  <2>3. NewRow(req[c]).refs = req[c].refs
    BY DEF NewRow
  <2> QED
    BY <2>1, <2>2, <2>3
<1>2. CASE pc[c] = "commit"
  <2>1. prior[c] = loops[target[c]] /\ loops[target[c]] # NoLoop /\ target[c] \in LoopId
    BY <1>2 DEF Inv, TypeOK, LockOK, Locked
  <2> QED
    BY <1>2, <2>1 DEF OpInv, EffectOK, NoEffect, OneEffect, RefsOK, StoredRefsWellFormed
<1> QED
  BY <1>1, <1>2 DEF Commit

\* An identity a commit brings into the table is new there.
LEMMA CommitSeed ==
  ASSUME Inv, OpInv, NEW c \in Client, Commit(c), NEW l \in LoopId,
         loops'[l] # NoLoop, loops'[l].seed # NoSeed
  PROVE  \/ /\ loops[l] # NoLoop
            /\ loops'[l].account = loops[l].account /\ loops'[l].seed = loops[l].seed
         \/ /\ l = target[c] /\ pc[c] = "inserted" /\ IsSeed(c)
            /\ loops'[l].account = req[c].account /\ loops'[l].seed = req[c].key
<1>1. CASE loops[l] # NoLoop
  BY <1>1, CommitGrows
<1>2. CASE loops[l] = NoLoop
  <2>1. /\ l = target[c] /\ loops'[l] = staged[c].row /\ pc[c] = "inserted"
    BY <1>2, CommitRow, DataAssumption DEF Inv, TypeOK, DataAssumption
  <2>2. staged[c].row = NewRow(req[c]) /\ Inserts(req[c])
    BY <2>1 DEF OpInv, SeedOK, Inv, ControlOK, Pending
  <2> QED
    BY <2>1, <2>2 DEF NewRow, IsSeed
<1> QED
  BY <1>1, <1>2

\* An acknowledged call has done what it was acknowledged for.
LEMMA CommitAcknowledges ==
  ASSUME Inv, OpInv, NEW c \in Client, Commit(c)
  PROVE  LET r == req[c] IN
         CASE r.kind = "append" ->
                /\ receipts'[<<r.account, r.op>>] # NoReceipt
                /\ receipts'[<<r.account, r.op>>].loop = r.loop
                /\ receipts'[<<r.account, r.op>>].event = r.event
           [] r.kind = "close" -> loops'[r.loop].status = "closed"
           [] r.kind = "comment" -> \E i \in DOMAIN comments'[r.loop] : comments'[r.loop][i] = c
           [] r.kind = "seed" -> \E l \in LoopId : /\ loops'[l] # NoLoop
                                                   /\ loops'[l].seed = r.key
                                                   /\ loops'[l].account = r.account
           [] OTHER -> loops'[target[c]] # NoLoop
<1> DEFINE r == req[c]
           s == staged[c]
           t == target[c]
<1>1. /\ pc[c] \in {"inserted", "commit"} /\ r \in Call /\ t \in LoopId
      /\ loops \in [LoopId -> LoopRow \cup {NoLoop}]
      /\ comments \in [LoopId -> Seq(Client)]
      /\ receipts \in [Account \X Operation -> Receipt \cup {NoReceipt}]
  BY DEF Commit, Inv, TypeOK, ControlOK
<1>2. loops'[t] = s.row /\ s.row # NoLoop
  BY <1>1, CommitRow, DataAssumption DEF DataAssumption
<1>3. pc[c] = "inserted" => Inserts(r) /\ s.row = NewRow(r)
  BY DEF OpInv, SeedOK, Inv, ControlOK, Pending
<1>4. pc[c] = "commit" => /\ prior[c] = loops[t] /\ loops[t] \in LoopRow
                          /\ NoEffect(c, s.row, s.receipt, s.note)
                               \/ OneEffect(c, s.row, s.receipt, s.note)
  BY DEF Inv, TypeOK, LockOK, Locked, OpInv, EffectOK
<1>5. ~Inserts(r) => t = r.loop /\ pc[c] = "commit"
  BY <1>1, <1>3 DEF OpInv, CallOK
<1>6. CASE r.kind = "append"
  <2>1. pc[c] = "commit" /\ t = r.loop /\ Slot(c) \in Account \X Operation
    BY <1>1, <1>5, <1>6, CallKinds DEF Inserts, Slot, AppendCall
  <2>2. /\ found[c] = receipts[Slot(c)]
        /\ found[c] # NoReceipt => found[c].loop = r.loop /\ found[c].event = r.event
    BY <1>6, <2>1 DEF OpInv, OpOK, IsAppend, Ordered, Locked
  <2>3. CASE found[c] # NoReceipt
    <3>1. s.receipt = NoReceipt
      BY <1>4, <1>6, <2>1, <2>3 DEF NoEffect, OneEffect, IsAppend
    <3>2. receipts' = receipts
      BY <3>1 DEF Commit
    <3> QED
      BY <1>6, <2>2, <2>3, <3>2 DEF Slot
  <2>4. CASE found[c] = NoReceipt
    <3>1. s.receipt = [loop |-> t, event |-> r.event, version |-> s.row.version]
      BY <1>4, <1>6, <2>1, <2>4 DEF NoEffect, OneEffect, IsAppend
    <3>2. s.receipt # NoReceipt
      <4>1. s.receipt \in Receipt
        BY <1>1, <1>2, <2>1, <3>1, CallKinds, CommitRow, <1>6 DEF Receipt, AppendCall, LoopRow
      <4> QED
        BY <4>1, DataAssumption DEF DataAssumption
    <3>3. receipts'[Slot(c)] = s.receipt
      BY <1>1, <2>1, <3>2 DEF Commit, Slot
    <3>4. s.receipt.loop = r.loop /\ s.receipt.event = r.event
      BY <2>1, <3>1
    <3> HIDE DEF s
    <3> QED
      BY <1>6, <3>2, <3>3, <3>4 DEF Slot
  <2> QED
    BY <2>3, <2>4
<1>7. CASE r.kind = "close"
  <2>1. pc[c] = "commit" /\ t = r.loop
    BY <1>5, <1>7 DEF Inserts
  <2>2. s.row.status = "closed"
    BY <1>4, <1>7, <2>1 DEF NoEffect, OneEffect, Ledger!Change, Ledger!Revised, LoopRow
  <2> QED
    BY <1>2, <1>7, <2>1, <2>2
<1>8. CASE r.kind = "comment"
  <2>1. pc[c] = "commit" /\ t = r.loop
    BY <1>5, <1>8 DEF Inserts
  <2>2. s.note
    BY <1>4, <1>8, <2>1 DEF NoEffect, OneEffect
  <2>3. comments'[t] = Append(comments[t], c)
    BY <1>1, <2>2 DEF Commit
  <2>4. comments[t] \in Seq(Client)
    BY <1>1
  <2>5. Len(comments[t]) + 1 \in DOMAIN comments'[t]
        /\ comments'[t][Len(comments[t]) + 1] = c
    BY <2>3, <2>4, AppendProperties, LenProperties
  <2> QED
    BY <1>8, <2>1, <2>5
<1>9. CASE r.kind = "seed"
  <2>1. loops'[t].seed = r.key /\ loops'[t].account = r.account
    <3>1. CASE pc[c] = "inserted"
      BY <1>2, <1>3, <1>9, <3>1 DEF NewRow
    <3>2. CASE pc[c] = "commit"
      <4>1. loops[t] # NoLoop /\ loops[t].seed = r.key /\ loops[t].account = r.account
        BY <1>9, <3>2 DEF OpInv, SeedOK, IsSeed, Ordered, Locked
      <4> QED
        BY <1>1, <4>1, CommitGrows
    <3> QED
      BY <1>1, <3>1, <3>2
  <2> QED
    BY <1>1, <1>2, <1>9, <2>1
<1>10. CASE r.kind \in {"create", "patch", "save"}
  BY <1>2, <1>10
<1> QED
  BY <1>1, <1>6, <1>7, <1>8, <1>9, <1>10, CallKinds

\* A commit keeps all of it.
LEMMA CommitKeeps ==
  ASSUME Inv, OpInv, NEW c \in Client, Commit(c)
  PROVE  OpInv'
<1> DEFINE t == target[c]
           s == staged[c]
<1>1. PICK answer \in Replies : Finish(c, answer)
  BY DEF Commit, Answer, Replies
<1>2. /\ UNCHANGED <<req, target, seen>>
      /\ pc'[c] = "idle"
      /\ \A d \in Client \ {c} : /\ pc'[d] = pc[d] /\ reply'[d] = reply[d]
                                 /\ found'[d] = found[d] /\ prior'[d] = prior[d]
                                 /\ staged'[d] = staged[d]
  BY <1>1 DEF Finish, Inv, TypeOK
<1>3. /\ t \in LoopId /\ s.row \in LoopRow /\ pc[c] \in {"inserted", "commit"}
      /\ loops' = [loops EXCEPT ![t] = s.row]
      /\ s.row.account = req[c].account
      /\ loops \in [LoopId -> LoopRow \cup {NoLoop}]
      /\ receipts \in [Account \X Operation -> Receipt \cup {NoReceipt}]
      /\ req[c] \in Call
  BY CommitRow DEF Inv, TypeOK, ControlOK, Commit
<1>4. s.row # NoLoop
  BY <1>3, DataAssumption DEF DataAssumption
<1>5. RefsOK'
  BY <1>2, <1>3, CommitWellFormed DEF OpInv, RefsOK, StoredRefsWellFormed
<1>6. CallOK'
  BY <1>2 DEF OpInv, CallOK
<1>7. SeedOK'
  <2>1. OneLoopPerSeed'
    <3> SUFFICES ASSUME NEW l \in LoopId, NEW k \in LoopId,
                        loops'[l] # NoLoop, loops'[k] # NoLoop, loops'[l].seed # NoSeed,
                        loops'[l].seed = loops'[k].seed,
                        loops'[l].account = loops'[k].account
                 PROVE  l = k
      BY DEF OneLoopPerSeed
    <3> QED
      BY CommitSeed DEF OpInv, SeedOK, OneLoopPerSeed
  <2>2. ASSUME NEW d \in Client, IsSeed(d), pc'[d] \in Ordered
        PROVE  /\ loops'[target[d]] # NoLoop
               /\ loops'[target[d]].account = req[d].account
               /\ loops'[target[d]].seed = req[d].key
    <3>1. d # c /\ pc[d] \in Ordered /\ target[d] \in LoopId
      BY <1>2, <2>2 DEF Ordered, Locked, Inv, TypeOK
    <3> QED
      BY <2>2, <3>1, CommitGrows DEF OpInv, SeedOK
  <2>3. ASSUME NEW d \in Client, IsSeed(d), pc'[d] = "inserted", NEW l \in LoopId,
               loops'[l] # NoLoop
        PROVE  <<loops'[l].account, loops'[l].seed>> # <<req[d].account, req[d].key>>
    <3>1. d # c /\ pc[d] = "inserted"
      BY <1>2, <2>3
    <3>2. req[d].key # NoSeed
      BY <2>3, <3>1, CallKinds, DataAssumption
         DEF Inv, ControlOK, IsSeed, SeedCall, DataAssumption
    <3> QED
      BY <2>3, <3>1, <3>2, CommitSeed DEF OpInv, SeedOK
  <2>4. ASSUME NEW d \in Client, pc'[d] = "inserted"
        PROVE  staged'[d].row = NewRow(req[d]) /\ ~staged'[d].note
    BY <1>2, <2>4 DEF OpInv, SeedOK
  <2>5. ASSUME NEW d \in Client, NEW e \in Client,
               IsSeed(d), pc'[d] = "inserted", IsSeed(e), pc'[e] = "inserted",
               req[d].account = req[e].account, req[d].key = req[e].key
        PROVE  d = e
    BY <1>2, <2>5 DEF OpInv, SeedOK
  <2> QED
    BY <1>2, <2>1, <2>2, <2>3, <2>4, <2>5 DEF SeedOK, IsSeed
<1>8. OpOK'
  <2>1. ASSUME NEW d \in Client, IsAppend(d), pc'[d] \in Ordered
        PROVE  /\ d # c /\ pc[d] \in Ordered /\ found'[d] = receipts'[Slot(d)]
               /\ found'[d] # NoReceipt =>
                    found'[d].loop = req[d].loop /\ found'[d].event = req[d].event
    <3>1. d # c /\ pc[d] \in Ordered /\ found'[d] = found[d]
      BY <1>2, <2>1 DEF Ordered, Locked
    <3>2. Slot(d) \in Account \X Operation
      BY <2>1, <3>1, CallKinds DEF Inv, ControlOK, Ordered, Locked, IsAppend, Slot, AppendCall
    <3>3. receipts'[Slot(d)] = receipts[Slot(d)]
      <4>1. CASE staged[c].receipt = NoReceipt
        BY <4>1 DEF Commit
      <4>2. CASE staged[c].receipt # NoReceipt
        <5>1. IsAppend(c) /\ pc[c] \in Ordered
          BY <4>2, CommitRow DEF IsAppend, AppendCall, Ordered, Locked
        <5>2. Slot(c) # Slot(d)
          BY <2>1, <3>1, <5>1 DEF OpInv, OpOK
        <5> QED
          BY <1>3, <3>2, <4>2, <5>2 DEF Commit, Slot
      <4> QED
        BY <4>1, <4>2
    <3> QED
      BY <2>1, <3>1, <3>3 DEF OpInv, OpOK
  <2> QED
    BY <1>2, <2>1 DEF OpInv, OpOK, IsAppend, Slot
<1>9. EffectOK'
  BY <1>2 DEF OpInv, EffectOK, NoEffect, OneEffect, IsAppend, IsSeed
<1>10. ReceiptsSound'
  <2> SUFFICES ASSUME NEW a \in Account, NEW o \in Operation, receipts'[<<a, o>>] # NoReceipt
               PROVE  LET receipt == receipts'[<<a, o>>] IN
                      /\ loops'[receipt.loop] # NoLoop
                      /\ loops'[receipt.loop].account = a
                      /\ receipt.version <= loops'[receipt.loop].version
    BY DEF ReceiptsSound
  <2>1. CASE receipts'[<<a, o>>] = receipts[<<a, o>>]
    <3> DEFINE receipt == receipts[<<a, o>>]
    <3>1. /\ receipt \in Receipt /\ loops[receipt.loop] # NoLoop
          /\ loops[receipt.loop].account = a
          /\ receipt.version <= loops[receipt.loop].version
      BY <1>3, <2>1 DEF OpInv, ReceiptsSound
    <3>2. receipt.loop \in LoopId /\ receipt.version \in Nat
      BY <3>1 DEF Receipt
    <3>3. /\ loops'[receipt.loop] # NoLoop
          /\ loops'[receipt.loop].account = a
          /\ loops[receipt.loop].version <= loops'[receipt.loop].version
      BY <3>1, <3>2, CommitGrows
    <3>4. loops[receipt.loop].version \in Nat /\ loops'[receipt.loop].version \in Nat
      BY <1>3, <3>1, <3>2, <3>3 DEF LoopRow
    <3> QED
      BY <2>1, <3>1, <3>2, <3>3, <3>4
  <2>2. CASE receipts'[<<a, o>>] # receipts[<<a, o>>]
    <3>1. /\ s.receipt # NoReceipt /\ Slot(c) = <<a, o>> /\ receipts'[<<a, o>>] = s.receipt
      BY <1>3, <2>2 DEF Commit, Slot
    <3>2. /\ IsAppend(c) /\ pc[c] = "commit"
      BY <1>3, <3>1, CommitRow DEF IsAppend, AppendCall
    <3>3. s.receipt = [loop |-> t, event |-> req[c].event, version |-> s.row.version]
      BY <3>1, <3>2 DEF OpInv, EffectOK, NoEffect, OneEffect
    <3>4. s.row.version \in Nat /\ req[c].account = a
      BY <1>3, <3>1 DEF LoopRow, Slot
    <3> QED
      BY <1>3, <1>4, <3>1, <3>3, <3>4
  <2> QED
    BY <2>1, <2>2
<1>11. AnswerOK'
  <2>1. ASSUME NEW d \in Client, reply'[d] \in {"done", "replayed"}
        PROVE  /\ req[d] \in Call
               /\ req[d].kind = "close" => loops'[req[d].loop] # NoLoop
    <3>1. req[d] \in Call
      BY <1>2, <1>3, <2>1 DEF OpInv, AnswerOK
    <3>2. CASE req[d].kind = "close"
      <4>1. req[d].loop \in LoopId
        BY <3>1, <3>2, CallKinds DEF CloseCall
      <4>2. CASE d = c
        <5>1. t = req[c].loop
          BY <1>3, <3>2, <4>2 DEF OpInv, CallOK, Inserts
        <5> QED
          BY <1>3, <1>4, <4>1, <4>2, <5>1
      <4>3. CASE d # c
        <5>1. loops[req[d].loop] # NoLoop
          BY <1>2, <2>1, <3>2, <4>3 DEF OpInv, AnswerOK
        <5> QED
          BY <3>1, <4>1, <5>1, CommitGrows
      <4> QED
        BY <4>2, <4>3
    <3> QED
      BY <3>1, <3>2
  <2>2. ASSUME NEW d \in Client, pc'[d] = "idle", reply'[d] \in {"done", "replayed"}, d # c
        PROVE  LET r == req[d] IN
               CASE r.kind = "append" ->
                      /\ receipts'[<<r.account, r.op>>] # NoReceipt
                      /\ receipts'[<<r.account, r.op>>].loop = r.loop
                      /\ receipts'[<<r.account, r.op>>].event = r.event
                 [] r.kind = "close" -> loops'[r.loop].status = "closed"
                 [] r.kind = "comment" -> \E i \in DOMAIN comments'[r.loop] :
                                            comments'[r.loop][i] = d
                 [] r.kind = "seed" -> \E l \in LoopId : /\ loops'[l] # NoLoop
                                                         /\ loops'[l].seed = r.key
                                                         /\ loops'[l].account = r.account
                 [] OTHER -> loops'[target[d]] # NoLoop
    <3>1. pc[d] = "idle" /\ reply[d] \in {"done", "replayed"} /\ req[d] \in Call
      BY <1>2, <2>2 DEF OpInv, AnswerOK
    <3>2. CASE req[d].kind = "append"
      <4>1. req[d].account \in Account /\ req[d].op \in Operation
        BY <3>1, <3>2, CallKinds DEF AppendCall
      <4> QED
        BY <3>1, <3>2, <4>1, CommitGrows DEF OpInv, AnswerOK, AcknowledgedIsDurable
    <3>3. CASE req[d].kind = "close"
      <4>1. /\ req[d].loop \in LoopId /\ loops[req[d].loop] # NoLoop
            /\ loops[req[d].loop].status = "closed"
        BY <3>1, <3>3, CallKinds DEF CloseCall, OpInv, AnswerOK, AcknowledgedIsDurable
      <4> QED
        BY <3>3, <4>1, CommitGrows
    <3>4. CASE req[d].kind = "comment"
      <4>1. req[d].loop \in LoopId
        BY <3>1, <3>4, CallKinds DEF CommentCall
      <4>2. PICK i \in DOMAIN comments[req[d].loop] : comments[req[d].loop][i] = d
        BY <3>1, <3>4 DEF OpInv, AnswerOK, AcknowledgedIsDurable
      <4>3. i \in DOMAIN comments'[req[d].loop] /\ comments'[req[d].loop][i] = d
        BY <4>1, <4>2, CommitGrows
      <4> QED
        BY <3>4, <4>3
    <3>5. CASE req[d].kind = "seed"
      <4>1. PICK l \in LoopId : /\ loops[l] # NoLoop
                                /\ loops[l].seed = req[d].key
                                /\ loops[l].account = req[d].account
        BY <3>1, <3>5 DEF OpInv, AnswerOK, AcknowledgedIsDurable
      <4>2. /\ loops'[l] # NoLoop /\ loops'[l].seed = req[d].key
            /\ loops'[l].account = req[d].account
        BY <4>1, CommitGrows
      <4> QED
        BY <3>5, <4>2
    <3>6. CASE req[d].kind \in {"create", "patch", "save"}
      <4>1. target[d] \in LoopId /\ loops[target[d]] # NoLoop
        BY <3>1, <3>6 DEF Inv, TypeOK, OpInv, AnswerOK, AcknowledgedIsDurable
      <4> QED
        BY <3>6, <4>1, CommitGrows
    <3> QED
      BY <3>1, <3>2, <3>3, <3>4, <3>5, <3>6, CallKinds
  <2> QED
    BY <1>2, <2>1, <2>2, CommitAcknowledges DEF AnswerOK, AcknowledgedIsDurable
<1> QED
  BY <1>5, <1>6, <1>7, <1>8, <1>9, <1>10, <1>11 DEF OpInv

-----------------------------------------------------------------------------
(* Every step keeps the invariant *)

\* The invariant holds when the service starts.
LEMMA InitOp == Init => OpInv
<1> SUFFICES ASSUME Init PROVE OpInv
  OBVIOUS
<1>1. RefsOK /\ OneLoopPerSeed
  BY StoreAssumption DEF Init, StoreAssumption, RefsOK, StoredRefsWellFormed, OneLoopPerSeed
<1>2. ReceiptsSound
  BY DEF Init, ReceiptsSound
<1> QED
  BY <1>1, <1>2 DEF Init, OpInv, CallOK, SeedOK, OpOK, EffectOK, AnswerOK,
     AcknowledgedIsDurable, Ordered, Locked

\* Waiting for the row, with or without a look at the Loop or the receipt before it.
LEMMA QueueKeeps ==
  ASSUME Inv, OpInv, NEW c \in Client, Precheck(c) \/ TakeOpLock(c)
  PROVE  OpInv'
<1>1. CASE \E answer \in Replies \ {"done", "replayed"} : Refuse(c, answer)
  BY <1>1, RefuseKeeps
<1>2. CASE Precheck(c) /\ ~\E answer \in Replies \ {"done", "replayed"} : Refuse(c, answer)
  <2>1. /\ pc[c] = "precheck" /\ req[c].kind = "comment" /\ Goto(c, "lock")
        /\ UNCHANGED <<db, req, target, found, prior, staged, seen, reply, calls>>
    BY <1>2 DEF Precheck, Replies, Inv, ControlOK
  <2>2. /\ target[c] \in LoopId /\ target' = [target EXCEPT ![c] = target[c]]
        /\ found' = [found EXCEPT ![c] = found[c]] /\ prior' = [prior EXCEPT ![c] = prior[c]]
    BY <2>1 DEF Inv, TypeOK
  <2> QED
    BY <2>1, <2>2, MoveKeeps DEF db, IsSeed, IsAppend, Ordered
<1>3. CASE TakeOpLock(c) /\ ~\E answer \in Replies \ {"done", "replayed"} : Refuse(c, answer)
  <2> DEFINE receipt == receipts[<<req[c].account, req[c].op>>]
  <2>1. /\ pc[c] = "opLock" /\ IsAppend(c) /\ Goto(c, "lock")
        /\ \A d \in Client \ {c} : ~HoldsOp(d, req[c].account, req[c].op)
        /\ receipt # NoReceipt => receipt.loop = req[c].loop /\ receipt.event = req[c].event
        /\ found' = [found EXCEPT ![c] = receipt]
        /\ UNCHANGED <<db, req, target, prior, staged, seen, reply, calls>>
    BY <1>3 DEF TakeOpLock, Replies, Inv, ControlOK, IsAppend
  <2>2. /\ target[c] \in LoopId /\ target' = [target EXCEPT ![c] = target[c]]
        /\ prior' = [prior EXCEPT ![c] = prior[c]]
    BY <2>1 DEF Inv, TypeOK
  <2>3. \A d \in Client \ {c} : pc[d] \in Ordered /\ IsAppend(d) => Slot(d) # Slot(c)
    BY <2>1 DEF HoldsOp, Ordered, Locked, IsAppend, Slot
  <2>4. receipt = receipts[Slot(c)]
    BY DEF Slot
  <2> HIDE DEF receipt
  <2> QED
    BY <2>1, <2>2, <2>3, <2>4, MoveKeeps DEF db, IsSeed, IsAppend, Ordered
<1> QED
  BY <1>1, <1>2, <1>3

\* A seeded insert waits for its rivals, and turns to the Loop one of them has left.
LEMMA InsertKeeps ==
  ASSUME Inv, OpInv, NEW c \in Client, InsertNew(c) \/ InsertSeeded(c)
  PROVE  OpInv'
<1>1. CASE InsertNew(c)
  BY <1>1, StageNewKeeps DEF InsertNew, IsSeed
<1>2. CASE InsertSeeded(c)
  <2> DEFINE r == req[c]
             Rivals == {l \in LoopId : /\ loops[l] # NoLoop
                                       /\ loops[l].account = r.account /\ loops[l].seed = r.key}
  <2>1. pc[c] = "insert" /\ IsSeed(c) /\ \A d \in Client : ~HoldsSeed(d, r.account, r.key)
    BY <1>2 DEF InsertSeeded, IsSeed
  <2>2. CASE Rivals = {} /\ Stage(c, NewRow(r), NoReceipt, FALSE)
    <3>1. \A l \in LoopId : loops[l] # NoLoop =>
            <<loops[l].account, loops[l].seed>> # <<r.account, r.key>>
      BY <2>2
    <3> QED
      BY <2>1, <2>2, <3>1, StageNewKeeps
  <2>3. ASSUME NEW l \in Rivals, target' = [target EXCEPT ![c] = l], Goto(c, "lock"),
               UNCHANGED <<db, req, found, prior, staged, seen, reply, calls>>
        PROVE  OpInv'
    <3>1. /\ found' = [found EXCEPT ![c] = found[c]]
          /\ prior' = [prior EXCEPT ![c] = prior[c]]
      BY <2>3 DEF Inv, TypeOK
    <3>2. /\ l \in LoopId /\ loops[l] # NoLoop
          /\ loops[l].account = req[c].account /\ loops[l].seed = req[c].key
      BY <2>3
    <3> QED
      BY <2>1, <2>3, <3>1, <3>2, MoveKeeps DEF db, IsSeed, IsAppend, Ordered, Inserts
  <2> QED
    BY <1>2, <2>2, <2>3 DEF InsertSeeded
<1> QED
  BY <1>1, <1>2

\* Locking and reading the row changes nothing that was agreed on before.
LEMMA LockKeeps ==
  ASSUME Inv, OpInv, NEW c \in Client, LockRow(c) \/ ReadRow(c)
  PROVE  OpInv'
<1>1. CASE Refuse(c, "notFound")
  BY <1>1, RefuseKeeps DEF Replies
<1>2. CASE ~Refuse(c, "notFound")
  <2>1. PICK label \in {"read", "work"} :
          /\ Goto(c, label) /\ pc[c] \in Ordered
          /\ UNCHANGED <<db, req, target, found, staged, seen, reply, calls>>
    BY <1>2 DEF LockRow, ReadRow, Ordered, Locked
  <2>2. PICK row : prior' = [prior EXCEPT ![c] = row]
    <3>1. CASE LockRow(c)
      <4>1. prior' = [prior EXCEPT ![c] = prior[c]]
        BY <1>2, <3>1 DEF LockRow, Inv, TypeOK
      <4> QED
        BY <4>1
    <3>2. CASE ReadRow(c)
      BY <3>2 DEF ReadRow
    <3> QED
      BY <3>1, <3>2
  <2>3. /\ target[c] \in LoopId /\ target' = [target EXCEPT ![c] = target[c]]
        /\ found' = [found EXCEPT ![c] = found[c]]
    BY <2>1 DEF Inv, TypeOK
  <2>4. IsSeed(c) => /\ loops[target[c]] # NoLoop
                     /\ loops[target[c]].account = req[c].account
                     /\ loops[target[c]].seed = req[c].key
    BY <2>1 DEF OpInv, SeedOK
  <2>5. IsAppend(c) =>
          /\ found[c] = receipts[Slot(c)]
          /\ found[c] # NoReceipt => found[c].loop = req[c].loop /\ found[c].event = req[c].event
          /\ \A d \in Client \ {c} : pc[d] \in Ordered /\ IsAppend(d) => Slot(d) # Slot(c)
    BY <2>1 DEF OpInv, OpOK
  <2>6. /\ label \in Ordered /\ label # "commit" /\ pc[c] # "idle"
        /\ UNCHANGED <<loops, comments, receipts, req, staged, seen, reply>>
    BY <2>1 DEF Ordered, Locked, db
  <2> QED
    BY <2>1, <2>2, <2>3, <2>4, <2>5, <2>6, MoveKeeps
<1> QED
  BY <1>1, <1>2

\* The body of each transaction stages one effect or none.
LEMMA WorkKeeps ==
  ASSUME Inv, OpInv, NEW c \in Client,
         \/ Patch(c) \/ Save(c) \/ CloseLoop(c) \/ AppendReference(c)
         \/ ExtendSeeded(c) \/ AddComment(c)
  PROVE  OpInv'
<1>1. CASE \E answer \in Replies \ {"done", "replayed"} : Refuse(c, answer)
  BY <1>1, RefuseKeeps
<1> DEFINE Refused == \E answer \in Replies \ {"done", "replayed"} : Refuse(c, answer)
<1>2. Refuse(c, "conflict") \/ Refuse(c, "closed") \/ Refuse(c, "invalid") => Refused
  BY DEF Replies
<1> HIDE DEF Refused
<1>3. CASE Patch(c) /\ ~Refused
  BY <1>2, <1>3, PatchEffect, StageKeeps DEF Patch, Working
<1>4. CASE Save(c) /\ ~Refused
  BY <1>2, <1>4, SaveEffect, StageKeeps DEF Save, Working
<1>5. CASE CloseLoop(c)
  BY <1>5, CloseEffect, StageKeeps DEF CloseLoop, Working
<1>6. CASE AppendReference(c) /\ ~Refused
  <2>1. pc[c] = "work" /\ IsAppend(c) /\ Working(c, "append")
    BY <1>6 DEF AppendReference, Working, IsAppend
  <2>2. CASE found[c] # NoReceipt /\ Stage(c, prior[c], NoReceipt, FALSE)
    <3>1. NoEffect(c, prior[c], NoReceipt, FALSE)
      BY <2>1, <2>2 DEF NoEffect, IsAppend, Inserts
    <3> QED
      BY <2>1, <2>2, <3>1, StageKeeps
  <2>3. CASE ~(found[c] # NoReceipt /\ Stage(c, prior[c], NoReceipt, FALSE))
    <3> DEFINE present == req[c].event \in Keys(prior[c].refs)
               row == IF present THEN prior[c]
                      ELSE Persist(prior[c], Linked(prior[c], req[c].event))
               receipt == [loop |-> target[c], event |-> req[c].event, version |-> row.version]
    <3>1. /\ found[c] = NoReceipt /\ Current(c) /\ IsOpen(c)
          /\ present \/ ~(Len(prior[c].refs) >= MaxRefs)
          /\ Stage(c, row, receipt, FALSE)
      BY <1>2, <1>6, <2>3 DEF AppendReference
    <3>2. OneEffect(c, row, receipt, FALSE)
      BY <2>1, <3>1, AppendEffect
    <3> HIDE DEF row, receipt
    <3> QED
      BY <2>1, <3>1, <3>2, StageKeeps
  <2> QED
    BY <2>2, <2>3
<1>7. CASE ExtendSeeded(c) /\ ~Refused
  <2>1. pc[c] = "work" /\ IsSeed(c) /\ Working(c, "seed")
    BY <1>7 DEF ExtendSeeded, Working, IsSeed
  <2>2. CASE Stage(c, prior[c], NoReceipt, FALSE)
    <3>1. NoEffect(c, prior[c], NoReceipt, FALSE)
      BY <2>1 DEF NoEffect, IsAppend, IsSeed
    <3> QED
      BY <2>1, <2>2, <3>1, StageKeeps
  <2>3. ASSUME IsOpen(c),
               ~(Len(prior[c].refs) + Cardinality(Additions(prior[c].refs, req[c].refs)) > MaxRefs),
               NEW order \in InOrder(Additions(prior[c].refs, req[c].refs)),
               Stage(c, Persist(prior[c], Extended(prior[c], req[c].refs, order)), NoReceipt, FALSE)
        PROVE  OpInv'
    <3>1. OneEffect(c, Persist(prior[c], Extended(prior[c], req[c].refs, order)),
                    NoReceipt, FALSE)
      BY <2>1, <2>3, SeedEffect
    <3> QED
      BY <2>1, <2>3, <3>1, StageKeeps
  <2> QED
    BY <1>2, <1>7, <2>2, <2>3 DEF ExtendSeeded
<1>8. CASE AddComment(c) /\ ~Refused
  BY <1>2, <1>8, CommentEffect, StageKeeps DEF AddComment, Working
<1> QED
  BY <1>1, <1>3, <1>4, <1>5, <1>6, <1>7, <1>8 DEF Refused

\* The invariant depends on the variables only.
LEMMA StutterKeeps ==
  ASSUME OpInv, UNCHANGED vars
  PROVE  OpInv'
BY DEF vars, db, OpInv, RefsOK, StoredRefsWellFormed, CallOK, SeedOK, OneLoopPerSeed, OpOK,
   EffectOK, NoEffect, OneEffect, ReceiptsSound, AnswerOK, AcknowledgedIsDurable,
   IsSeed, IsAppend, Slot

\* Every step of every caller keeps the invariant.
LEMMA NextOp == Inv /\ OpInv /\ [Next]_vars => OpInv'
<1> SUFFICES ASSUME Inv, OpInv, [Next]_vars PROVE OpInv'
  OBVIOUS
<1>1. ASSUME NEW c \in Client, Advance(c) PROVE OpInv'
  BY <1>1, QueueKeeps, InsertKeeps, LockKeeps, WorkKeeps, CommitKeeps DEF Advance
<1>2. ASSUME NEW c \in Client, Crash(c) PROVE OpInv'
  BY <1>2, RefuseKeeps DEF Crash, Replies
<1>3. CASE UNCHANGED vars
  BY <1>3, StutterKeeps
<1> QED
  BY <1>1, <1>2, <1>3, ReadKeeps, InvokeKeeps, RejectKeeps DEF Next, Stopped

-----------------------------------------------------------------------------
(* Every step is a step of the ledger, or none *)

\* The call each caller waits for: the refinement mapping.
Waiting == [c \in Client |-> IF pc[c] = "idle" THEN NoCall ELSE req[c]]

\* A step is a commit, an end without one, a read, the start of a call, or it leaves
\* the database and who waits for what alone.
LEMMA StepShapes ==
  ASSUME Inv, [Next]_vars
  PROVE  \/ \E c \in Client : Commit(c)
         \/ \E c \in Client, answer \in Replies : pc[c] # "idle" /\ Refuse(c, answer)
         \/ \E c \in Client, l \in LoopId : Read(c, l)
         \/ \E c \in Client, r \in Calls, l \in LoopId : Invoke(c, r, l)
         \/ UNCHANGED <<loops, comments, receipts, seen, Waiting>>
<1> DEFINE Quiet == UNCHANGED <<loops, comments, receipts, seen, Waiting>>
           Refused(c) == \E answer \in Replies : pc[c] # "idle" /\ Refuse(c, answer)
<1>1. ASSUME NEW c \in Client, pc[c] # "idle", NEW label, label # "idle",
             pc' = [pc EXCEPT ![c] = label], UNCHANGED <<loops, comments, receipts, req, seen>>
      PROVE  Quiet
  <2>1. \A d \in Client : (pc'[d] = "idle") = (pc[d] = "idle")
    BY <1>1 DEF Inv, TypeOK
  <2> QED
    BY <1>1, <2>1 DEF Waiting
<1>2. ASSUME NEW c \in Client, Precheck(c) PROVE Refused(c) \/ Quiet
  <2>1. CASE Refuse(c, "notFound") \/ Refuse(c, "closed")
    BY <1>2, <2>1 DEF Precheck, Replies
  <2>2. CASE Goto(c, "lock") /\ UNCHANGED <<db, req, seen>>
    BY <1>1, <1>2, <2>2 DEF Precheck, Goto, db
  <2> QED
    BY <1>2, <2>1, <2>2 DEF Precheck
<1>3. ASSUME NEW c \in Client, InsertNew(c) \/ InsertSeeded(c) PROVE Quiet
  <2>1. pc[c] = "insert"
    BY <1>3 DEF InsertNew, InsertSeeded
  <2>2. PICK label \in {"inserted", "lock"} :
          Goto(c, label) /\ UNCHANGED <<loops, comments, receipts, req, seen>>
    BY <1>3, <2>1 DEF InsertNew, InsertSeeded, Stage, db
  <2> QED
    BY <1>1, <2>1, <2>2 DEF Goto
<1>4. ASSUME NEW c \in Client, TakeOpLock(c) PROVE Refused(c) \/ Quiet
  <2>1. CASE Refuse(c, "conflict")
    BY <1>4, <2>1 DEF TakeOpLock, Replies
  <2>2. CASE Goto(c, "lock") /\ UNCHANGED <<db, req, seen>>
    BY <1>1, <1>4, <2>2 DEF TakeOpLock, Goto, db
  <2> QED
    BY <1>4, <2>1, <2>2 DEF TakeOpLock
<1>5. ASSUME NEW c \in Client, LockRow(c) PROVE Refused(c) \/ Quiet
  <2>1. CASE Refuse(c, "notFound")
    BY <1>5, <2>1 DEF LockRow, Replies
  <2>2. CASE Goto(c, "read") /\ UNCHANGED <<db, req, seen>>
    BY <1>1, <1>5, <2>2 DEF LockRow, Goto, db
  <2> QED
    BY <1>5, <2>1, <2>2 DEF LockRow
<1>6. ASSUME NEW c \in Client, ReadRow(c) PROVE Quiet
  BY <1>1, <1>6 DEF ReadRow, Goto, db
<1>7. ASSUME NEW c \in Client,
             \/ Patch(c) \/ Save(c) \/ CloseLoop(c) \/ AppendReference(c)
             \/ ExtendSeeded(c) \/ AddComment(c)
      PROVE  Refused(c) \/ Quiet
  <2>1. pc[c] = "work"
    BY <1>7 DEF Patch, Save, CloseLoop, AppendReference, ExtendSeeded, AddComment, Working
  <2>2. \/ \E answer \in {"closed", "conflict", "invalid"} : Refuse(c, answer)
        \/ Goto(c, "commit") /\ UNCHANGED <<db, req, seen>>
    BY <1>7, <2>1 DEF Patch, Save, CloseLoop, AppendReference, ExtendSeeded, AddComment, Stage
  <2>3. CASE \E answer \in {"closed", "conflict", "invalid"} : Refuse(c, answer)
    BY <2>1, <2>3 DEF Replies
  <2>4. CASE Goto(c, "commit") /\ UNCHANGED <<db, req, seen>>
    BY <1>1, <2>1, <2>4 DEF Goto, db
  <2> QED
    BY <2>2, <2>3, <2>4
<1>8. ASSUME NEW c \in Client, NEW r \in Calls, Reject(c, r) PROVE Quiet
  <2>1. \A d \in Client : pc[d] # "idle" => req'[d] = req[d]
    BY <1>8 DEF Reject, Inv, TypeOK
  <2> QED
    BY <1>8, <2>1 DEF Reject, db, Waiting
<1>9. ASSUME NEW c \in Client, Crash(c) PROVE Refused(c)
  BY <1>9 DEF Crash, Replies
<1>10. CASE UNCHANGED vars
  BY <1>10 DEF vars, db, Waiting
<1> HIDE DEF Quiet, Refused
<1>11. ASSUME NEW c \in Client, Advance(c), ~Commit(c) PROVE Refused(c) \/ Quiet
  BY <1>2, <1>3, <1>4, <1>5, <1>6, <1>7, <1>11 DEF Advance
<1> QED
  BY <1>8, <1>9, <1>10, <1>11 DEF Next, Stopped, Quiet, Refused

\* The end of a call ends the wait for it.
LEMMA FinishWaiting ==
  ASSUME Inv, NEW c \in Client, NEW answer, pc[c] # "idle", Finish(c, answer)
  PROVE  /\ Waiting[c] = req[c] /\ Waiting[c] # NoCall
         /\ Waiting' = [Waiting EXCEPT ![c] = NoCall]
<1>1. req[c] \in Call /\ NoCall \notin Call
  BY StoreAssumption DEF StoreAssumption, Inv, ControlOK
<1>2. UNCHANGED req /\ pc' = [pc EXCEPT ![c] = "idle"] /\ pc \in [Client -> {"idle",
        "precheck", "insert", "inserted", "opLock", "lock", "read", "work", "commit"}]
  BY DEF Finish, Inv, TypeOK
<1> QED
  BY <1>1, <1>2 DEF Waiting

\* The service starts as the ledger does.
LEMMA LedgerInit == Init => Ledger!Init
<1> SUFFICES ASSUME Init PROVE Ledger!Init
  OBVIOUS
<1>1. loops \in [LoopId -> LoopRow \cup {NoLoop}]
  BY StoreAssumption DEF Init, StoreAssumption
<1> QED
  BY <1>1, SameData DEF Init, Ledger!Init

\* A commit is an insert, an effect, or nothing that anyone could tell from a return.
LEMMA LedgerCommit ==
  ASSUME Inv, OpInv, NEW c \in Client, Commit(c)
  PROVE  Ledger!Insert(c) \/ Ledger!Effect(c) \/ Ledger!Return(c)
<1> DEFINE r == req[c]
           s == staged[c]
           t == target[c]
<1>1. PICK answer \in Replies : Finish(c, answer)
  BY DEF Commit, Answer, Replies
<1>2. /\ t \in LoopId /\ s.row \in LoopRow
      /\ loops \in [LoopId -> LoopRow \cup {NoLoop}]
      /\ loops' = [loops EXCEPT ![t] = s.row]
      /\ receipts \in [Account \X Operation -> Receipt \cup {NoReceipt}]
      /\ comments \in [LoopId -> Seq(Client)]
      /\ pc[c] \in {"inserted", "commit"} /\ r \in Call
  BY CommitRow DEF Inv, TypeOK, ControlOK, Commit
<1>3. /\ Waiting[c] = r /\ r # NoCall
      /\ Waiting' = [Waiting EXCEPT ![c] = NoCall]
      /\ UNCHANGED seen
  BY <1>1, <1>2, FinishWaiting DEF Finish
<1>4. CASE pc[c] = "inserted"
  <2>1. /\ loops[t] = NoLoop /\ s.receipt = NoReceipt
        /\ s.row = NewRow(r) /\ ~s.note /\ Inserts(r)
    BY <1>4, CommitRow DEF OpInv, SeedOK, Inv, ControlOK, InsertOK, Pending
  <2>2. comments' = comments /\ receipts' = receipts
    BY <2>1 DEF Commit
  <2>3. r.kind = "seed" =>
          \A l \in LoopId : loops[l] # NoLoop =>
            <<loops[l].account, loops[l].seed>> # <<r.account, r.key>>
    BY <1>4 DEF OpInv, SeedOK, IsSeed
  <2> QED
    BY <1>2, <1>3, <2>1, <2>2, <2>3, SameData DEF Ledger!Insert, Waiting
<1>5. CASE pc[c] = "commit"
  <2>1. prior[c] = loops[t] /\ loops[t] # NoLoop /\ loops[t].account = r.account
    BY <1>5 DEF Inv, LockOK, Locked
  <2>2. CASE NoEffect(c, s.row, s.receipt, s.note)
    <3>1. UNCHANGED <<loops, comments, receipts>>
      BY <1>2, <2>1, <2>2 DEF NoEffect, Commit
    <3> QED
      BY <1>3, <3>1 DEF Ledger!Return, Waiting
  <2>3. CASE OneEffect(c, s.row, s.receipt, s.note)
    <3>1. r.kind # "create" /\ loops'[t] = s.row
      BY <1>2, <1>5 DEF Inv, ControlOK, Locked
    <3>2. IF r.kind = "seed" THEN loops[t] # NoLoop /\ loops[t].seed = r.key ELSE t = r.loop
      BY <1>5, <3>1 DEF OpInv, SeedOK, CallOK, IsSeed, Ordered, Locked, Inserts
    <3>3. Fenced(r) => seen[c].row = loops[r.loop]
      BY <1>5, <2>1, <2>3, <3>1, <3>2 DEF OneEffect, Fenced
    <3>4. /\ loops[t].status = "open" /\ Ledger!Change(r, loops[t], loops'[t])
          /\ WellFormedRefs(loops'[t].refs)
      BY <2>1, <2>3, <3>1 DEF OneEffect
    <3>5. comments' = IF r.kind = "comment"
                      THEN [comments EXCEPT ![t] = Append(comments[t], c)] ELSE comments
      BY <2>3 DEF OneEffect, Commit
    <3>6. IF r.kind = "append"
          THEN /\ receipts[<<r.account, r.op>>] = NoReceipt
               /\ receipts' = [receipts EXCEPT ![<<r.account, r.op>>] =
                                 [loop |-> t, event |-> r.event, version |-> loops'[t].version]]
          ELSE receipts' = receipts
      <4>1. CASE r.kind = "append"
        <5>1. /\ s.receipt = [loop |-> t, event |-> r.event, version |-> s.row.version]
              /\ found[c] = NoReceipt
          BY <2>3, <4>1 DEF OneEffect, IsAppend
        <5>2. receipts[<<r.account, r.op>>] = NoReceipt
          BY <1>5, <4>1, <5>1 DEF OpInv, OpOK, IsAppend, Slot, Ordered, Locked
        <5>3. s.receipt # NoReceipt
          <6>1. s.receipt \in Receipt
            BY <1>2, <4>1, <5>1, CallKinds DEF Receipt, AppendCall, LoopRow
          <6> QED
            BY <6>1, DataAssumption DEF DataAssumption
        <5>4. receipts' = [receipts EXCEPT ![<<r.account, r.op>>] = s.receipt]
          BY <5>3 DEF Commit
        <5> QED
          BY <3>1, <4>1, <5>1, <5>2, <5>4
      <4>2. CASE r.kind # "append"
        BY <2>3, <4>2 DEF OneEffect, IsAppend, Commit
      <4> QED
        BY <4>1, <4>2
    <3>7. loops' = [loops EXCEPT ![t] = loops'[t]]
      BY <1>2, <3>1
    <3> HIDE DEF r, t
    <3>8. Ledger!Fresh(c)
      BY <1>3, <3>3, SameData DEF Ledger!Fresh, Waiting
    <3> QED
      BY <1>2, <1>3, <2>1, <3>1, <3>2, <3>4, <3>5, <3>6, <3>7, <3>8, SameData
         DEF Ledger!Effect, Waiting
  <2> QED
    BY <1>5, <2>2, <2>3 DEF OpInv, EffectOK
<1> QED
  BY <1>2, <1>4, <1>5

\* Every step of the store is a step of the ledger, or leaves it as it is.
LEMMA LedgerStep == Inv /\ OpInv /\ [Next]_vars => [Ledger!Next]_(Ledger!vars)
<1> SUFFICES ASSUME Inv, OpInv, [Next]_vars PROVE Ledger!Next \/ UNCHANGED Ledger!vars
  OBVIOUS
<1>1. ASSUME NEW c \in Client, Commit(c) PROVE Ledger!Next
  BY <1>1, LedgerCommit DEF Ledger!Next
<1>2. ASSUME NEW c \in Client, NEW answer \in Replies, pc[c] # "idle", Refuse(c, answer)
      PROVE  Ledger!Next
  <2>1. Ledger!Return(c)
    BY <1>2, FinishWaiting DEF Refuse, Finish, db, Ledger!Return, Waiting
  <2> QED
    BY <2>1 DEF Ledger!Next
<1>3. ASSUME NEW c \in Client, NEW l \in LoopId, Read(c, l) PROVE Ledger!Next
  <2>1. Ledger!Read(c)
    BY <1>3 DEF Read, db, Ledger!Read
  <2> QED
    BY <2>1 DEF Ledger!Next
<1>4. ASSUME NEW c \in Client, NEW r \in Calls, NEW l \in LoopId, Invoke(c, r, l)
      PROVE  Ledger!Next
  <2>1. /\ pc[c] = "idle" /\ pc' = [pc EXCEPT ![c] = Entry(r)] /\ Entry(r) # "idle"
        /\ req' = [req EXCEPT ![c] = r] /\ UNCHANGED <<loops, comments, receipts, seen>>
    BY <1>4 DEF Invoke, Goto, db, Entry
  <2>2. Waiting' = [Waiting EXCEPT ![c] = r]
    BY <2>1 DEF Waiting, Inv, TypeOK
  <2>3. Ledger!Invoke(c)
    BY <2>1, <2>2 DEF Ledger!Invoke, Waiting
  <2> QED
    BY <2>3 DEF Ledger!Next
<1>5. CASE UNCHANGED <<loops, comments, receipts, seen, Waiting>>
  BY <1>5 DEF Ledger!vars, Waiting
<1> QED
  BY <1>1, <1>2, <1>3, <1>4, <1>5, StepShapes

-----------------------------------------------------------------------------
(* The theorems *)

\* The invariant the others follow from: seeds and operations are used by one caller at
\* a time, and complete writes are one effect of the ledger or none.
THEOREM OpInvHolds == Spec => []OpInv
<1>1. Init => Inv /\ OpInv
  BY InitInv, InitOp
<1>2. (Inv /\ OpInv) /\ [Next]_vars => (Inv /\ OpInv)'
  BY NextInv, NextOp
<1> QED
  BY <1>1, <1>2, PTL DEF Spec

\* Stored references stay within the limit, each one once.
THEOREM RefsStayWellFormed == Spec => []StoredRefsWellFormed
<1>1. OpInv => StoredRefsWellFormed
  BY DEF OpInv, RefsOK
<1> QED
  BY <1>1, OpInvHolds, PTL

\* There is one Loop for a seed identity, however many runs create it at once.
THEOREM OneForEachSeed == Spec => []OneLoopPerSeed
<1>1. OpInv => OneLoopPerSeed
  BY DEF OpInv, SeedOK
<1> QED
  BY <1>1, OpInvHolds, PTL

\* A receipt belongs to a Loop of its account, and names a version it has had.
THEOREM ReceiptsHold == Spec => []ReceiptsSound
<1>1. OpInv => ReceiptsSound
  BY DEF OpInv
<1> QED
  BY <1>1, OpInvHolds, PTL

\* A receipt about to be committed finds its key free.
THEOREM KeysAreFree == Spec => []ReceiptKeyFree
<1>1. Inv /\ OpInv => ReceiptKeyFree
  <2> SUFFICES ASSUME Inv, OpInv, NEW c \in Client,
                      pc[c] = "commit", staged[c].receipt # NoReceipt
               PROVE  receipts[Slot(c)] = NoReceipt
    BY DEF ReceiptKeyFree, Slot
  <2>1. IsAppend(c)
    BY DEF Inv, StageOK, IsAppend
  <2>2. found[c] = NoReceipt
    BY <2>1 DEF OpInv, EffectOK, NoEffect, OneEffect
  <2> QED
    BY <2>1, <2>2 DEF OpInv, OpOK, Ordered, Locked
<1> QED
  BY <1>1, InvHolds, OpInvHolds, PTL

\* What was acknowledged lasts, whatever the others do.
THEOREM AcknowledgedLasts == Spec => []AcknowledgedIsDurable
<1>1. OpInv => AcknowledgedIsDurable
  BY DEF OpInv, AnswerOK
<1> QED
  BY <1>1, OpInvHolds, PTL

\* An append operation has one effect, in the step that creates its receipt.
THEOREM AppendsOnce == Spec => OneEffectPerOperation
<1> DEFINE Once ==
      /\ \A k \in DOMAIN receipts : receipts[k] # NoReceipt => receipts'[k] = receipts[k]
      /\ \A c \in Client :
          LET k == <<req[c].account, req[c].op>> IN
          /\ pc[c] = "commit" /\ pc'[c] = "idle" /\ req[c].kind = "append"
          /\ loops' # loops
          => /\ receipts[k] = NoReceipt
             /\ receipts'[k] = [loop |-> req[c].loop, event |-> req[c].event,
                                version |-> loops'[req[c].loop].version]
<1>1. Inv /\ OpInv /\ [Next]_vars => Once
  <2> SUFFICES ASSUME Inv, OpInv, [Next]_vars PROVE Once
    OBVIOUS
  <2>1. receipts \in [Account \X Operation -> Receipt \cup {NoReceipt}]
    BY DEF Inv, TypeOK
  <2>2. \A k \in DOMAIN receipts : receipts[k] # NoReceipt => receipts'[k] = receipts[k]
    BY <2>1, OnlyCommits, CommitGrows DEF db
  <2>3. ASSUME NEW c \in Client, pc[c] = "commit", pc'[c] = "idle", IsAppend(c),
               loops' # loops
        PROVE  /\ receipts[Slot(c)] = NoReceipt
               /\ receipts'[Slot(c)] = [loop |-> req[c].loop, event |-> req[c].event,
                                        version |-> loops'[req[c].loop].version]
    <3> DEFINE s == staged[c]
               t == target[c]
    <3>1. PICK d \in Client : Commit(d)
      BY <2>3, OnlyCommits DEF db
    <3>2. d = c
      BY <2>3, <3>1 DEF Commit, Finish, Inv, TypeOK
    <3>3. /\ t \in LoopId /\ s.row \in LoopRow /\ loops' = [loops EXCEPT ![t] = s.row]
          /\ loops \in [LoopId -> LoopRow \cup {NoLoop}] /\ req[c] \in Call
      BY <2>3, <3>1, <3>2, CommitRow DEF Inv, TypeOK, ControlOK
    <3>4. prior[c] = loops[t] /\ t = req[c].loop
      BY <2>3 DEF Inv, LockOK, OpInv, CallOK, Inserts, IsAppend
    <3>5. OneEffect(c, s.row, s.receipt, s.note)
      <4>1. ~NoEffect(c, s.row, s.receipt, s.note)
        BY <2>3, <3>3, <3>4 DEF NoEffect
      <4> QED
        BY <2>3, <4>1 DEF OpInv, EffectOK
    <3>6. /\ found[c] = NoReceipt
          /\ s.receipt = [loop |-> t, event |-> req[c].event, version |-> s.row.version]
      BY <2>3, <3>5 DEF OneEffect
    <3>7. receipts[Slot(c)] = NoReceipt /\ Slot(c) \in Account \X Operation
      <4>1. receipts[Slot(c)] = NoReceipt
        BY <2>3, <3>6 DEF OpInv, OpOK, Ordered, Locked
      <4> QED
        BY <2>3, <3>3, <4>1, CallKinds DEF Slot, AppendCall, IsAppend
    <3>8. s.receipt # NoReceipt
      <4>1. s.receipt \in Receipt
        BY <2>3, <3>3, <3>6, CallKinds DEF Receipt, AppendCall, LoopRow, IsAppend
      <4> QED
        BY <4>1, DataAssumption DEF DataAssumption
    <3>9. receipts'[Slot(c)] = s.receipt
      BY <2>1, <3>1, <3>2, <3>7, <3>8 DEF Commit, Slot
    <3>10. loops'[t] = s.row
      BY <3>3
    <3> QED
      BY <3>4, <3>6, <3>7, <3>9, <3>10
  <2> QED
    BY <2>2, <2>3 DEF IsAppend, Slot
<1> QED
  BY <1>1, InvHolds, OpInvHolds, PTL DEF Spec, OneEffectPerOperation

\* The locked transactions implement the ledger.
THEOREM StoreImplementsLedger == Spec => RefinesLedger
BY LedgerInit, LedgerStep, InvHolds, OpInvHolds, PTL DEF Spec, RefinesLedger, Ledger!Spec
=============================================================================
