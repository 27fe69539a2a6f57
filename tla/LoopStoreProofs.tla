-------------------------- MODULE LoopStoreProofs ---------------------------
(***************************************************************************)
(* Proofs about LoopStore, for every value of its constants.               *)
(***************************************************************************)
EXTENDS LoopStore, SequenceTheorems, FiniteSetTheorems, TLAPS

Replies == {"none", "invalid", "notFound", "closed", "conflict", "done", "replayed", "lost"}
Locked  == {"read", "work", "commit"}
Pending == {"insert", "inserted"}

\* What the row written over "row" may be: the same, or one version later with other
\* content; with a comment, one version later with the same content.
Follows(row, next, note) ==
  /\ next.account = row.account /\ next.seed = row.seed
  /\ \/ ~note /\ next = row
     \/ ~note /\ next.version = row.version + 1 /\ ~EqualVisible(row, next)
     \/ note /\ next.version = row.version + 1 /\ EqualVisible(row, next)

\* What may be written about a Loop that is closed: nothing new.
Settled(row, next, receipt, note) ==
  row.status = "closed" => next = row /\ receipt = NoReceipt /\ ~note

-----------------------------------------------------------------------------
(* The inductive invariant *)

\* A call is at a step its kind can reach, with the snapshot its fence needs.
ControlOK ==
  \A c \in Client :
    /\ pc[c] # "idle" => req[c] \in Call
    /\ pc[c] \in Pending => Inserts(req[c])
    /\ pc[c] = "precheck" => req[c].kind = "comment"
    /\ pc[c] = "opLock" => req[c].kind = "append"
    /\ pc[c] \in {"lock"} \cup Locked => req[c].kind # "create"
    /\ pc[c] # "idle" /\ Fenced(req[c]) => seen[c] # NoSnapshot

\* A locked Loop is the caller's, and held by one caller only, who has read it as it is.
LockOK ==
  /\ \A c \in Client :
       /\ pc[c] \in Locked => /\ loops[target[c]] # NoLoop
                             /\ loops[target[c]].account = req[c].account
       /\ pc[c] \in {"work", "commit"} => prior[c] = loops[target[c]]
  /\ \A c, d \in Client :
       pc[c] \in Locked /\ pc[d] \in Locked /\ target[c] = target[d] => c = d

\* The identifier of a Loop being inserted is nobody else's.
InsertOK ==
  /\ \A c \in Client : pc[c] \in Pending => loops[target[c]] = NoLoop
  /\ \A c, d \in Client :
       pc[c] \in Pending /\ pc[d] \in Pending /\ target[c] = target[d] => c = d

\* Complete writes are a first row, or follow the row that was read.
StageOK ==
  \A c \in Client :
    /\ pc[c] \in {"inserted", "commit"} => staged[c] \in Staged
    /\ pc[c] = "inserted" => /\ staged[c].receipt = NoReceipt
                             /\ staged[c].row.account = req[c].account
    /\ pc[c] = "commit" =>
         /\ Follows(prior[c], staged[c].row, staged[c].note)
         /\ Settled(prior[c], staged[c].row, staged[c].receipt, staged[c].note)
         /\ staged[c].receipt # NoReceipt => /\ req[c].kind = "append"
                                            /\ staged[c].receipt.loop = target[c]

Inv == TypeOK /\ ControlOK /\ LockOK /\ InsertOK /\ StageOK /\ FreshnessFence

-----------------------------------------------------------------------------
(* The row functions *)

\* The row of a create or a seed has the type of a row.
LEMMA NewRowType ==
  ASSUME NEW r \in CreateCall \cup SeedCall
  PROVE  NewRow(r) \in LoopRow
BY DEF NewRow, LoopRow, CreateCall, SeedCall

\* persist() writes the row itself, or one a version later with the same owner.
LEMMA PersistFollows ==
  ASSUME NEW row \in LoopRow, NEW next \in LoopRow
  PROVE  Persist(row, next) \in LoopRow /\ Follows(row, Persist(row, next), FALSE)
<1>1. CASE EqualVisible(row, next)
  BY <1>1 DEF Persist, Follows
<1>2. CASE ~EqualVisible(row, next)
  <2> DEFINE new == [row EXCEPT !.text = next.text, !.status = next.status,
                                !.refs = next.refs, !.version = row.version + 1]
  <2>1. Persist(row, next) = new
    BY <1>2 DEF Persist
  <2>2. row.version + 1 \in Nat \ {0}
    BY DEF LoopRow
  <2>3. new \in LoopRow
    BY <2>2 DEF LoopRow
  <2>4. Follows(row, new, FALSE)
    BY <1>2 DEF LoopRow, Follows, EqualVisible
  <2> QED
    BY <2>1, <2>3, <2>4
<1> QED
  BY <1>1, <1>2

\* Overlaying a patch or a saved snapshot on a row gives a row.
LEMMA EditedType ==
  ASSUME NEW row \in LoopRow, NEW r \in PatchCall \cup SaveCall
  PROVE  Edited(row, r) \in LoopRow
<1> DEFINE text == [f \in Field |-> IF f \in DOMAIN r.text THEN r.text[f] ELSE row.text[f]]
           refs == IF r.refs = Keep THEN row.refs ELSE r.refs
<1>1. text \in [Field -> Value]
  BY DEF LoopRow, PatchCall, SaveCall, PartialText
<1>2. refs \in Seq(Ref)
  BY DEF LoopRow, PatchCall, SaveCall
<1>3. Edited(row, r) = [row EXCEPT !.text = text, !.refs = refs]
  BY DEF Edited
<1> HIDE DEF text, refs
<1> QED
  BY <1>1, <1>2, <1>3 DEF LoopRow

\* Appending a Calendar reference gives a row.
LEMMA LinkedType ==
  ASSUME NEW row \in LoopRow, NEW e \in Event
  PROVE  Linked(row, e) \in LoopRow
<1>1. CalendarRef(e) \in Ref
  BY DataAssumption DEF DataAssumption, CalendarRef, Ref
<1>2. Append(row.refs, CalendarRef(e)) \in Seq(Ref)
  BY <1>1, AppendProperties DEF LoopRow
<1> QED
  BY <1>2 DEF Linked, LoopRow

\* Appending the additions of a seed, in any enumeration, gives a row.
LEMMA ExtendedType ==
  ASSUME NEW row \in LoopRow, NEW want \in Seq(Ref),
         NEW order \in InOrder(Additions(row.refs, want))
  PROVE  Extended(row, want, order) \in LoopRow
<1> DEFINE n == Cardinality(Additions(row.refs, want))
           more == [i \in DOMAIN order |-> want[order[i]]]
<1>1. IsFiniteSet(Additions(row.refs, want))
  <2>1. DOMAIN want = 1..Len(want) /\ Len(want) \in Nat
    BY LenProperties
  <2>2. IsFiniteSet(1..Len(want))
    BY <2>1, FS_Interval
  <2> QED
    BY <2>1, <2>2, FS_Subset DEF Additions
<1>2. n \in Nat
  BY <1>1, FS_CardinalityType
<1>3. order \in [1..n -> Additions(row.refs, want)]
  BY DEF InOrder
<1>4. \A i \in 1..n : want[order[i]] \in Ref
  BY <1>3, LenProperties, ElementOfSeq DEF Additions
<1>5. more = [i \in 1..n |-> want[order[i]]]
  BY <1>3
<1>6. more \in Seq(Ref)
  BY <1>2, <1>4, <1>5, IsASeq
<1>7. row.refs \o more \in Seq(Ref)
  BY <1>6, ConcatProperties DEF LoopRow
<1> QED
  BY <1>7 DEF Extended, LoopRow

-----------------------------------------------------------------------------
(* Calls *)

\* The kind of a call determines which record it is.
LEMMA CallKinds ==
  ASSUME NEW r \in Call
  PROVE  /\ r.kind = "create" => r \in CreateCall
         /\ r.kind = "seed" => r \in SeedCall
         /\ r.kind = "patch" => r \in PatchCall
         /\ r.kind = "save" => r \in SaveCall
         /\ r.kind = "close" => r \in CloseCall
         /\ r.kind = "append" => r \in AppendCall
         /\ r.kind = "comment" => r \in CommentCall
         /\ r.account \in Account
         /\ r.kind \in {"create", "seed", "patch", "save", "close", "append", "comment"}
BY DEF Call, CreateCall, SeedCall, PatchCall, SaveCall, CloseCall, AppendCall, CommentCall

\* Where each kind of call starts.
LEMMA Entries ==
  ASSUME NEW r \in Call
  PROVE  /\ Inserts(r) => Entry(r) = "insert"
         /\ r.kind = "append" => Entry(r) = "opLock"
         /\ r.kind = "comment" => Entry(r) = "precheck"
         /\ r.kind \in {"patch", "save", "close"} => Entry(r) = "lock"
BY DEF Entry, Inserts

-----------------------------------------------------------------------------
(* Steps shared by several actions *)

\* A call that ends without a commit disturbs nobody.
LEMMA RefuseInv ==
  ASSUME Inv, NEW c \in Client, NEW answer \in Replies, Refuse(c, answer)
  PROVE  Inv'
<1> USE DEF Refuse, Finish, db
<1>1. TypeOK'
  BY DEF Inv, TypeOK, Replies
<1>2. ControlOK'
  BY DEF Inv, TypeOK, ControlOK, Pending, Locked
<1>3. LockOK'
  BY DEF Inv, TypeOK, LockOK, Locked
<1>4. InsertOK'
  BY DEF Inv, TypeOK, InsertOK, Pending
<1>5. StageOK'
  BY DEF Inv, TypeOK, StageOK
<1>6. FreshnessFence'
  BY DEF Inv, FreshnessFence
<1> QED
  BY <1>1, <1>2, <1>3, <1>4, <1>5, <1>6 DEF Inv

\* The writes of a transaction that holds the row lock are complete.
LEMMA StageInv ==
  ASSUME Inv, NEW c \in Client, pc[c] = "work",
         NEW row \in LoopRow, NEW receipt \in Receipt \cup {NoReceipt}, NEW note \in BOOLEAN,
         Follows(prior[c], row, note), Settled(prior[c], row, receipt, note),
         receipt # NoReceipt => req[c].kind = "append" /\ receipt.loop = target[c],
         Stage(c, row, receipt, note)
  PROVE  Inv'
<1> DEFINE new == [row |-> row, receipt |-> receipt, note |-> note]
<1>1. /\ pc' = [pc EXCEPT ![c] = "commit"]
      /\ staged' = [staged EXCEPT ![c] = new]
      /\ UNCHANGED <<loops, comments, receipts, req, target, found, prior, seen, reply, calls>>
  BY DEF Stage, Goto, db
<1>2. new \in Staged /\ new.row = row /\ new.receipt = receipt /\ new.note = note
  BY DEF Staged
<1> HIDE DEF new
<1>3. TypeOK'
  BY <1>1, <1>2 DEF Inv, TypeOK
<1>4. ControlOK'
  BY <1>1 DEF Inv, TypeOK, ControlOK, Pending, Locked
<1>5. LockOK'
  BY <1>1 DEF Inv, TypeOK, LockOK, Locked
<1>6. InsertOK'
  BY <1>1 DEF Inv, TypeOK, InsertOK, Pending
<1>7. StageOK'
  BY <1>1, <1>2 DEF Inv, TypeOK, StageOK
<1>8. FreshnessFence'
  BY <1>1 DEF Inv, FreshnessFence
<1> QED
  BY <1>3, <1>4, <1>5, <1>6, <1>7, <1>8 DEF Inv

\* The first row of a Loop is written, not yet committed.
LEMMA StageNewInv ==
  ASSUME Inv, NEW c \in Client, pc[c] = "insert",
         Stage(c, NewRow(req[c]), NoReceipt, FALSE)
  PROVE  Inv'
<1> DEFINE new == [row |-> NewRow(req[c]), receipt |-> NoReceipt, note |-> FALSE]
<1>1. /\ pc' = [pc EXCEPT ![c] = "inserted"]
      /\ staged' = [staged EXCEPT ![c] = new]
      /\ UNCHANGED <<loops, comments, receipts, req, target, found, prior, seen, reply, calls>>
  BY DEF Stage, Goto, db
<1>2. new \in Staged /\ new.receipt = NoReceipt /\ new.row.account = req[c].account
  <2>1. req[c] \in CreateCall \cup SeedCall
    BY CallKinds DEF Inv, ControlOK, Pending, Inserts
  <2> QED
    BY <2>1, NewRowType DEF Staged, NewRow
<1> HIDE DEF new
<1>3. TypeOK'
  BY <1>1, <1>2 DEF Inv, TypeOK
<1>4. ControlOK'
  BY <1>1 DEF Inv, TypeOK, ControlOK, Pending, Locked
<1>5. LockOK'
  BY <1>1 DEF Inv, TypeOK, LockOK, Locked
<1>6. InsertOK'
  BY <1>1 DEF Inv, TypeOK, InsertOK, Pending
<1>7. StageOK'
  BY <1>1, <1>2 DEF Inv, TypeOK, StageOK
<1>8. FreshnessFence'
  BY <1>1 DEF Inv, FreshnessFence
<1> QED
  BY <1>3, <1>4, <1>5, <1>6, <1>7, <1>8 DEF Inv

-----------------------------------------------------------------------------
(* Init and Next *)

\* The invariant holds when the service starts.
LEMMA InitInv == Init => Inv
<1> SUFFICES ASSUME Init PROVE Inv
  OBVIOUS
<1>1. loops \in [LoopId -> LoopRow \cup {NoLoop}]
  BY StoreAssumption DEF Init, StoreAssumption
<1>2. (CHOOSE l \in LoopId : TRUE) \in LoopId
  BY StoreAssumption DEF StoreAssumption
<1>3. TypeOK
  BY <1>1, <1>2, StoreAssumption DEF Init, TypeOK, StoreAssumption
<1> QED
  BY <1>3 DEF Init, Inv, ControlOK, LockOK, InsertOK, StageOK, FreshnessFence, Pending, Locked

\* A read remembers a committed row: the fence holds of it.
LEMMA ReadInv ==
  ASSUME Inv, NEW c \in Client, NEW l \in LoopId, Read(c, l)
  PROVE  Inv'
<1> DEFINE new == [loop |-> l, row |-> loops[l]]
<1>1. /\ seen' = [seen EXCEPT ![c] = new]
      /\ pc[c] = "idle" /\ loops[l] # NoLoop
      /\ UNCHANGED <<loops, comments, receipts, pc, req, target, found, prior, staged, reply, calls>>
  BY DEF Read, db
<1>2. new \in Snapshot /\ new.loop = l /\ new.row = loops[l]
  BY <1>1 DEF Inv, TypeOK, Snapshot
<1>3. new.row.version \in Nat
  BY <1>1, <1>2 DEF Snapshot, LoopRow
<1> HIDE DEF new
<1>4. TypeOK'
  BY <1>1, <1>2 DEF Inv, TypeOK
<1>5. ControlOK'
  BY <1>1 DEF Inv, TypeOK, ControlOK
<1>6. LockOK' /\ InsertOK' /\ StageOK'
  BY <1>1 DEF Inv, LockOK, InsertOK, StageOK
<1>7. FreshnessFence'
  BY <1>1, <1>2, <1>3 DEF Inv, TypeOK, FreshnessFence
<1> QED
  BY <1>4, <1>5, <1>6, <1>7 DEF Inv

\* A call starts at the step of its kind; a fresh identifier is nobody else's.
LEMMA InvokeInv ==
  ASSUME Inv, NEW c \in Client, NEW r \in Calls, NEW l \in LoopId, Invoke(c, r, l)
  PROVE  Inv'
<1>1. /\ pc[c] = "idle" /\ calls < MaxCalls
      /\ Fenced(r) => seen[c] # NoSnapshot
      /\ Inserts(r) => Unused(l)
      /\ calls' = calls + 1
      /\ req' = [req EXCEPT ![c] = r]
      /\ target' = [target EXCEPT ![c] = l]
      /\ reply' = [reply EXCEPT ![c] = "none"]
      /\ pc' = [pc EXCEPT ![c] = Entry(r)]
      /\ UNCHANGED <<loops, comments, receipts, found, prior, staged, seen>>
  BY DEF Invoke, Goto, db
<1>2. r \in Call
  BY StoreAssumption DEF StoreAssumption
<1>3. /\ Entry(r) \in {"insert", "opLock", "precheck", "lock"}
      /\ Entry(r) = "insert" => Inserts(r)
      /\ Entry(r) = "opLock" => r.kind = "append"
      /\ Entry(r) = "precheck" => r.kind = "comment"
      /\ Entry(r) = "lock" => r.kind # "create"
  BY <1>2, CallKinds, Entries DEF Inserts
<1>4. TypeOK'
  BY <1>1, <1>2, <1>3, StoreAssumption DEF Inv, TypeOK, StoreAssumption
<1>5. ControlOK'
  BY <1>1, <1>2, <1>3 DEF Inv, TypeOK, ControlOK, Pending, Locked
<1>6. LockOK'
  BY <1>1, <1>3 DEF Inv, TypeOK, LockOK, Locked
<1>7. InsertOK'
  BY <1>1, <1>3 DEF Inv, TypeOK, InsertOK, Pending, Unused
<1>8. StageOK'
  BY <1>1, <1>3 DEF Inv, TypeOK, StageOK
<1>9. FreshnessFence'
  BY <1>1 DEF Inv, FreshnessFence
<1> QED
  BY <1>4, <1>5, <1>6, <1>7, <1>8, <1>9 DEF Inv

\* A refused input leaves the store alone.
LEMMA RejectInv ==
  ASSUME Inv, NEW c \in Client, NEW r \in Calls, Reject(c, r)
  PROVE  Inv'
<1>1. r \in Call
  BY StoreAssumption DEF StoreAssumption
<1>2. TypeOK'
  BY <1>1, StoreAssumption DEF Inv, TypeOK, Reject, db, StoreAssumption
<1>3. ControlOK'
  BY DEF Inv, TypeOK, ControlOK, Reject, db, Pending, Locked
<1>4. LockOK' /\ InsertOK' /\ FreshnessFence'
  BY DEF Inv, TypeOK, LockOK, InsertOK, FreshnessFence, Reject, db, Locked
<1>5. StageOK'
  BY DEF Inv, TypeOK, StageOK, Reject, db
<1> QED
  BY <1>2, <1>3, <1>4, <1>5 DEF Inv

\* The call goes on to the next lock, or to wait for it.
LEMMA QueueInv ==
  ASSUME Inv, NEW c \in Client, pc[c] \notin {"idle", "inserted", "commit"},
         req[c].kind # "create", Goto(c, "lock"),
         NEW l \in LoopId, target' = [target EXCEPT ![c] = l],
         NEW receipt \in Receipt \cup {NoReceipt}, found' = [found EXCEPT ![c] = receipt],
         UNCHANGED <<db, req, prior, staged, seen, reply, calls>>
  PROVE  Inv'
<1> USE DEF Goto, db
<1>1. TypeOK'
  BY DEF Inv, TypeOK
<1>2. ControlOK'
  BY DEF Inv, TypeOK, ControlOK, Pending, Locked
<1>3. LockOK'
  BY DEF Inv, TypeOK, LockOK, Locked
<1>4. InsertOK'
  BY DEF Inv, TypeOK, InsertOK, Pending
<1>5. StageOK'
  BY DEF Inv, TypeOK, StageOK
<1>6. FreshnessFence'
  BY DEF Inv, FreshnessFence
<1> QED
  BY <1>1, <1>2, <1>3, <1>4, <1>5, <1>6 DEF Inv

\* The status read before the transaction only decides whether to go on.
LEMMA PrecheckInv ==
  ASSUME Inv, NEW c \in Client, Precheck(c)
  PROVE  Inv'
<1>1. CASE Refuse(c, "notFound") \/ Refuse(c, "closed")
  BY <1>1, RefuseInv DEF Replies
<1>2. CASE /\ Goto(c, "lock")
           /\ UNCHANGED <<db, req, target, found, prior, staged, seen, reply, calls>>
  <2>1. pc[c] = "precheck" /\ req[c].kind = "comment"
    BY DEF Precheck, Inv, ControlOK
  <2>2. /\ target[c] \in LoopId /\ target' = [target EXCEPT ![c] = target[c]]
        /\ found[c] \in Receipt \cup {NoReceipt} /\ found' = [found EXCEPT ![c] = found[c]]
    BY <1>2 DEF Inv, TypeOK
  <2> QED
    BY <1>2, <2>1, <2>2, QueueInv
<1> QED
  BY <1>1, <1>2 DEF Precheck

\* The insert of create stages a first row.
LEMMA InsertNewInv ==
  ASSUME Inv, NEW c \in Client, InsertNew(c)
  PROVE  Inv'
BY StageNewInv DEF InsertNew

\* A seeded insert stages a first row, or turns to the existing Loop.
LEMMA InsertSeededInv ==
  ASSUME Inv, NEW c \in Client, InsertSeeded(c)
  PROVE  Inv'
<1>1. pc[c] = "insert" /\ req[c].kind = "seed"
  BY DEF InsertSeeded
<1>2. CASE Stage(c, NewRow(req[c]), NoReceipt, FALSE)
  BY <1>1, <1>2, StageNewInv
<1>3. ASSUME NEW l \in LoopId, target' = [target EXCEPT ![c] = l], Goto(c, "lock"),
             UNCHANGED <<db, req, found, prior, staged, seen, reply, calls>>
      PROVE  Inv'
  <2>1. found[c] \in Receipt \cup {NoReceipt} /\ found' = [found EXCEPT ![c] = found[c]]
    BY <1>3 DEF Inv, TypeOK
  <2> QED
    BY <1>1, <1>3, <2>1, QueueInv
<1> QED
  BY <1>2, <1>3 DEF InsertSeeded

\* The advisory lock delivers a receipt or none, or the append is refused.
LEMMA TakeOpLockInv ==
  ASSUME Inv, NEW c \in Client, TakeOpLock(c)
  PROVE  Inv'
<1> DEFINE receipt == receipts[<<req[c].account, req[c].op>>]
<1>1. pc[c] = "opLock" /\ req[c].kind = "append" /\ req[c] \in AppendCall
  BY CallKinds DEF TakeOpLock, Inv, ControlOK
<1>2. receipt \in Receipt \cup {NoReceipt}
  BY <1>1 DEF Inv, TypeOK, AppendCall
<1>3. CASE Refuse(c, "conflict")
  BY <1>3, RefuseInv DEF Replies
<1>4. CASE /\ found' = [found EXCEPT ![c] = receipt]
           /\ Goto(c, "lock")
           /\ UNCHANGED <<db, req, target, prior, staged, seen, reply, calls>>
  <2>1. target[c] \in LoopId /\ target' = [target EXCEPT ![c] = target[c]]
    BY <1>4 DEF Inv, TypeOK
  <2> HIDE DEF receipt
  <2> QED
    BY <1>1, <1>2, <1>4, <2>1, QueueInv
<1> QED
  BY <1>3, <1>4 DEF TakeOpLock

\* The row lock is granted only while nobody holds it: exclusion.
LEMMA LockRowInv ==
  ASSUME Inv, NEW c \in Client, LockRow(c)
  PROVE  Inv'
<1>1. CASE Refuse(c, "notFound")
  BY <1>1, RefuseInv DEF Replies
<1>2. CASE /\ Owned(c)
           /\ \A d \in Client \ {c} : ~HoldsRow(d, target[c])
           /\ Goto(c, "read")
           /\ UNCHANGED <<db, req, target, found, prior, staged, seen, reply, calls>>
  <2> USE <1>2 DEF Goto, db
  <2>1. /\ pc[c] = "lock" /\ loops[target[c]] # NoLoop
        /\ loops[target[c]].account = req[c].account
    BY DEF LockRow, Owned
  <2>2. TypeOK'
    BY DEF Inv, TypeOK
  <2>3. ControlOK'
    BY <2>1 DEF Inv, TypeOK, ControlOK, Pending, Locked
  <2>4. LockOK'
    BY <2>1 DEF Inv, TypeOK, LockOK, Locked, HoldsRow
  <2>5. InsertOK' /\ StageOK' /\ FreshnessFence'
    BY <2>1 DEF Inv, TypeOK, InsertOK, StageOK, FreshnessFence, Pending
  <2> QED
    BY <2>2, <2>3, <2>4, <2>5 DEF Inv
<1> QED
  BY <1>1, <1>2 DEF LockRow

\* The second statement reads the row as it stands under the lock.
LEMMA ReadRowInv ==
  ASSUME Inv, NEW c \in Client, ReadRow(c)
  PROVE  Inv'
<1> USE DEF ReadRow, Goto, db
<1>1. loops[target[c]] \in LoopRow
  BY DEF Inv, TypeOK, LockOK, Locked
<1>2. TypeOK'
  BY <1>1 DEF Inv, TypeOK
<1>3. ControlOK'
  BY DEF Inv, TypeOK, ControlOK, Pending, Locked
<1>4. LockOK'
  BY DEF Inv, TypeOK, LockOK, Locked
<1>5. InsertOK' /\ StageOK' /\ FreshnessFence'
  BY DEF Inv, TypeOK, InsertOK, StageOK, FreshnessFence, Pending
<1> QED
  BY <1>2, <1>3, <1>4, <1>5 DEF Inv

-----------------------------------------------------------------------------
(* The bodies of the transactions *)

\* At work, the caller's call is typed and its prior row is a row.
LEMMA AtWork ==
  ASSUME Inv, NEW c \in Client, pc[c] = "work"
  PROVE  /\ req[c] \in Call
         /\ prior[c] \in LoopRow
         /\ target[c] \in LoopId
         /\ Fenced(req[c]) => seen[c] \in Snapshot
BY DEF Inv, TypeOK, ControlOK, LockOK, Locked

\* Writing a row back unchanged is a row that follows it.
LEMMA SameFollows ==
  ASSUME NEW row
  PROVE  Follows(row, row, FALSE)
BY DEF Follows

\* patch stages a row that follows the one it read, or refuses.
LEMMA PatchInv ==
  ASSUME Inv, NEW c \in Client, Patch(c)
  PROVE  Inv'
<1>1. pc[c] = "work" /\ req[c] \in PatchCall /\ prior[c] \in LoopRow
  BY AtWork, CallKinds DEF Patch, Working
<1>2. CASE Refuse(c, "closed") \/ Refuse(c, "conflict")
  BY <1>2, RefuseInv DEF Replies
<1>3. CASE IsOpen(c) /\ Stage(c, Persist(prior[c], Edited(prior[c], req[c])), NoReceipt, FALSE)
  <2>1. Edited(prior[c], req[c]) \in LoopRow
    BY <1>1, EditedType
  <2> QED
    BY <1>1, <1>3, <2>1, PersistFollows, StageInv DEF Settled, IsOpen
<1> QED
  BY <1>2, <1>3 DEF Patch

\* save stages a row that follows the one it read, or refuses.
LEMMA SaveInv ==
  ASSUME Inv, NEW c \in Client, Save(c)
  PROVE  Inv'
<1>1. /\ pc[c] = "work" /\ req[c] \in SaveCall /\ prior[c] \in LoopRow
      /\ seen[c] \in Snapshot
  BY AtWork, CallKinds DEF Save, Working, Fenced
<1>2. CASE Refuse(c, "closed") \/ Refuse(c, "conflict")
  BY <1>2, RefuseInv DEF Replies
<1>3. CASE /\ IsOpen(c) \/ EqualVisible(prior[c], SavedRow(c))
           /\ Stage(c, Persist(prior[c], SavedRow(c)), NoReceipt, FALSE)
  <2>1. Edited(seen[c].row, req[c]) \in LoopRow
    BY <1>1, EditedType DEF Snapshot
  <2>2. SavedRow(c) \in LoopRow
    BY <1>1, <2>1 DEF SavedRow, LoopRow, SaveCall
  <2>3. Settled(prior[c], Persist(prior[c], SavedRow(c)), NoReceipt, FALSE)
    BY <1>3 DEF Settled, IsOpen, Persist
  <2> QED
    BY <1>1, <1>3, <2>2, <2>3, PersistFollows, StageInv
<1> QED
  BY <1>2, <1>3 DEF Save

\* closeLoop stages a row that follows the one it read.
LEMMA CloseLoopInv ==
  ASSUME Inv, NEW c \in Client, CloseLoop(c)
  PROVE  Inv'
<1>1. pc[c] = "work" /\ prior[c] \in LoopRow
  BY AtWork DEF CloseLoop, Working
<1>2. Closed(prior[c]) \in LoopRow
  BY <1>1 DEF Closed, LoopRow
<1>3. Settled(prior[c], Persist(prior[c], Closed(prior[c])), NoReceipt, FALSE)
  BY <1>1 DEF Settled, Persist, EqualVisible, Closed, LoopRow
<1> QED
  BY <1>1, <1>2, <1>3, PersistFollows, StageInv DEF CloseLoop

\* appendReference stages the row it read, or that row with one reference more.
LEMMA AppendReferenceInv ==
  ASSUME Inv, NEW c \in Client, AppendReference(c)
  PROVE  Inv'
<1> DEFINE r == req[c]
           row == IF r.event \in Keys(prior[c].refs) THEN prior[c]
                  ELSE Persist(prior[c], Linked(prior[c], r.event))
           receipt == [loop |-> target[c], event |-> r.event, version |-> row.version]
<1>1. /\ pc[c] = "work" /\ r.kind = "append" /\ r \in AppendCall
      /\ prior[c] \in LoopRow /\ target[c] \in LoopId
  BY AtWork, CallKinds DEF AppendReference, Working
<1>2. CASE Refuse(c, "conflict") \/ Refuse(c, "closed") \/ Refuse(c, "invalid")
  BY <1>2, RefuseInv DEF Replies
<1>3. CASE Stage(c, prior[c], NoReceipt, FALSE)
  BY <1>1, <1>3, SameFollows, StageInv DEF Settled
<1>4. CASE IsOpen(c) /\ Stage(c, row, receipt, FALSE)
  <2>1. r.event \in Event
    BY <1>1 DEF AppendCall
  <2>2. row \in LoopRow /\ Follows(prior[c], row, FALSE)
    BY <1>1, <2>1, LinkedType, PersistFollows, SameFollows
  <2>3. row.version \in Nat \ {0}
    BY <2>2 DEF LoopRow
  <2> HIDE DEF row
  <2>4. receipt \in Receipt /\ receipt.loop = target[c]
    BY <1>1, <2>1, <2>3 DEF Receipt
  <2> HIDE DEF receipt
  <2> QED
    BY <1>1, <1>4, <2>2, <2>4, StageInv DEF Settled, IsOpen
<1> QED
  BY <1>2, <1>3, <1>4 DEF AppendReference

\* A repeated seed stages the row it read, or that row with its additions.
LEMMA ExtendSeededInv ==
  ASSUME Inv, NEW c \in Client, ExtendSeeded(c)
  PROVE  Inv'
<1> DEFINE want == req[c].refs
<1>1. /\ pc[c] = "work" /\ prior[c] \in LoopRow /\ want \in Seq(Ref)
  BY AtWork, CallKinds DEF ExtendSeeded, Working, SeedCall
<1>2. CASE Refuse(c, "closed") \/ Refuse(c, "invalid")
  BY <1>2, RefuseInv DEF Replies
<1>3. CASE Stage(c, prior[c], NoReceipt, FALSE)
  BY <1>1, <1>3, SameFollows, StageInv DEF Settled
<1>4. ASSUME NEW order \in InOrder(Additions(prior[c].refs, want)), IsOpen(c),
             Stage(c, Persist(prior[c], Extended(prior[c], want, order)), NoReceipt, FALSE)
      PROVE  Inv'
  <2>1. Extended(prior[c], want, order) \in LoopRow
    BY <1>1, ExtendedType
  <2> QED
    BY <1>1, <1>4, <2>1, PersistFollows, StageInv DEF Settled, IsOpen
<1> QED
  BY <1>2, <1>3, <1>4 DEF ExtendSeeded

\* addComment stages the row it read, one version later.
LEMMA AddCommentInv ==
  ASSUME Inv, NEW c \in Client, AddComment(c)
  PROVE  Inv'
<1> DEFINE row == [prior[c] EXCEPT !.version = prior[c].version + 1]
<1>1. pc[c] = "work" /\ prior[c] \in LoopRow
  BY AtWork DEF AddComment, Working
<1>2. CASE Refuse(c, "closed")
  BY <1>2, RefuseInv DEF Replies
<1>3. CASE IsOpen(c) /\ Stage(c, row, NoReceipt, TRUE)
  <2>1. row \in LoopRow /\ Follows(prior[c], row, TRUE)
    BY <1>1 DEF LoopRow, Follows, EqualVisible
  <2> HIDE DEF row
  <2> QED
    BY <1>1, <1>3, <2>1, StageInv DEF Settled, IsOpen
<1> QED
  BY <1>2, <1>3 DEF AddComment

-----------------------------------------------------------------------------
(* Commit *)

\* What a commit does to the table: one Loop gets its first row, or the row that
\* follows the one it has.
LEMMA CommitRow ==
  ASSUME Inv, NEW c \in Client, Commit(c)
  PROVE  /\ target[c] \in LoopId
         /\ staged[c] \in Staged
         /\ staged[c].row \in LoopRow
         /\ loops' = [loops EXCEPT ![target[c]] = staged[c].row]
         /\ \/ pc[c] = "inserted" /\ loops[target[c]] = NoLoop /\ staged[c].receipt = NoReceipt
            \/ /\ pc[c] = "commit" /\ loops[target[c]] \in LoopRow
               /\ Follows(loops[target[c]], staged[c].row, staged[c].note)
               /\ Settled(loops[target[c]], staged[c].row, staged[c].receipt, staged[c].note)
         /\ staged[c].row.account = req[c].account
         /\ staged[c].receipt # NoReceipt => /\ req[c] \in AppendCall
                                            /\ staged[c].receipt.loop = target[c]
<1>1. CASE pc[c] = "inserted"
  BY <1>1 DEF Commit, Inv, TypeOK, InsertOK, StageOK, Staged, Pending
<1>2. CASE pc[c] = "commit"
  <2>1. /\ staged[c] \in Staged
        /\ Follows(prior[c], staged[c].row, staged[c].note)
        /\ Settled(prior[c], staged[c].row, staged[c].receipt, staged[c].note)
        /\ staged[c].receipt # NoReceipt => /\ req[c].kind = "append"
                                           /\ staged[c].receipt.loop = target[c]
    BY <1>2 DEF Inv, StageOK
  <2>2. /\ prior[c] = loops[target[c]] /\ loops[target[c]] \in LoopRow
        /\ loops[target[c]].account = req[c].account
    BY <1>2 DEF Inv, TypeOK, LockOK, Locked
  <2>3. staged[c].row.account = req[c].account
    BY <2>1, <2>2 DEF Follows
  <2>4. req[c] \in Call
    BY <1>2 DEF Inv, ControlOK
  <2> QED
    BY <1>2, <2>1, <2>2, <2>3, <2>4, CallKinds DEF Commit, Inv, TypeOK, Staged
<1> QED
  BY <1>1, <1>2 DEF Commit

\* A commit writes the row that follows the committed one, so nobody else is stale.
LEMMA CommitInv ==
  ASSUME Inv, NEW c \in Client, Commit(c)
  PROVE  Inv'
<1> DEFINE t == target[c]
           s == staged[c]
<1>1. /\ t \in LoopId /\ s \in Staged /\ s.row \in LoopRow
      /\ loops' = [loops EXCEPT ![t] = s.row]
      /\ \/ pc[c] = "inserted" /\ loops[t] = NoLoop
         \/ pc[c] = "commit" /\ loops[t] \in LoopRow /\ Follows(loops[t], s.row, s.note)
      /\ s.row.account = req[c].account
      /\ s.receipt # NoReceipt => req[c] \in AppendCall
  BY CommitRow
<1>2. PICK answer \in Replies : Finish(c, answer)
  BY DEF Commit, Answer, Replies
<1>3. /\ pc' = [pc EXCEPT ![c] = "idle"]
      /\ reply' = [reply EXCEPT ![c] = answer]
      /\ found' = [found EXCEPT ![c] = NoReceipt]
      /\ prior' = [prior EXCEPT ![c] = NoLoop]
      /\ staged' = [staged EXCEPT ![c] = NoStage]
      /\ UNCHANGED <<req, target, seen, calls>>
  BY <1>2 DEF Finish
<1>4. s.row # NoLoop
  BY <1>1, DataAssumption DEF DataAssumption
<1>5. TypeOK'
  <2>1. loops' \in [LoopId -> LoopRow \cup {NoLoop}]
    BY <1>1 DEF Inv, TypeOK
  <2>2. comments' \in [LoopId -> Seq(Client)]
    <3>1. Append(comments[t], c) \in Seq(Client)
      BY <1>1, AppendProperties DEF Inv, TypeOK
    <3> QED
      BY <1>1, <3>1 DEF Commit, Inv, TypeOK
  <2>3. receipts' \in [Account \X Operation -> Receipt \cup {NoReceipt}]
    BY <1>1 DEF Commit, Inv, TypeOK, AppendCall, Staged
  <2> QED
    BY <1>3, <2>1, <2>2, <2>3 DEF Inv, TypeOK, Replies
<1>6. ControlOK'
  BY <1>3 DEF Inv, TypeOK, ControlOK, Pending, Locked
<1>7. LockOK'
  BY <1>1, <1>3, <1>4 DEF Inv, TypeOK, LockOK, Locked
<1>8. InsertOK'
  BY <1>1, <1>3, DataAssumption DEF Inv, TypeOK, InsertOK, Pending, DataAssumption
<1>9. StageOK'
  BY <1>3 DEF Inv, TypeOK, StageOK
<1>10. FreshnessFence'
  <2> SUFFICES ASSUME NEW d \in Client, seen[d] # NoSnapshot
               PROVE  LET row == loops'[seen[d].loop] IN
                      /\ row # NoLoop
                      /\ seen[d].row.version <= row.version
                      /\ seen[d].row.version = row.version => seen[d].row = row
    BY <1>3 DEF FreshnessFence
  <2>1. /\ seen[d] \in Snapshot /\ loops[seen[d].loop] # NoLoop
        /\ seen[d].row.version <= loops[seen[d].loop].version
        /\ seen[d].row.version = loops[seen[d].loop].version
             => seen[d].row = loops[seen[d].loop]
    BY DEF Inv, TypeOK, FreshnessFence
  <2>2. CASE seen[d].loop # t
    BY <1>1, <2>1, <2>2 DEF Inv, TypeOK, Snapshot
  <2>3. CASE seen[d].loop = t
    <3>1. loops'[t] = s.row /\ Follows(loops[t], s.row, s.note) /\ loops[t] \in LoopRow
      BY <1>1, <2>1, <2>3 DEF Inv, TypeOK
    <3>2. seen[d].row.version \in Nat /\ loops[t].version \in Nat
      BY <2>1, <3>1 DEF Snapshot, LoopRow
    <3> QED
      BY <1>4, <2>1, <2>3, <3>1, <3>2 DEF Follows
  <2> QED
    BY <2>2, <2>3
<1> QED
  BY <1>5, <1>6, <1>7, <1>8, <1>9, <1>10 DEF Inv

\* A crash rolls the transaction back: it disturbs nobody.
LEMMA CrashInv ==
  ASSUME Inv, NEW c \in Client, Crash(c)
  PROVE  Inv'
BY RefuseInv DEF Crash, Replies

\* The invariant depends on the variables only.
LEMMA StutterInv ==
  ASSUME Inv, UNCHANGED vars
  PROVE  Inv'
BY DEF Inv, TypeOK, ControlOK, LockOK, InsertOK, StageOK, FreshnessFence, vars, db

\* Every step of every caller preserves the invariant.
LEMMA NextInv == Inv /\ [Next]_vars => Inv'
<1> SUFFICES ASSUME Inv, [Next]_vars PROVE Inv'
  OBVIOUS
<1>1. ASSUME NEW c \in Client, Advance(c) PROVE Inv'
  BY <1>1, PrecheckInv, InsertNewInv, InsertSeededInv, TakeOpLockInv, LockRowInv,
     ReadRowInv, PatchInv, SaveInv, CloseLoopInv, AppendReferenceInv,
     ExtendSeededInv, AddCommentInv, CommitInv DEF Advance
<1>2. CASE UNCHANGED vars
  BY <1>2, StutterInv
<1> QED
  BY <1>1, <1>2, ReadInv, InvokeInv, RejectInv, CrashInv DEF Next, Stopped

-----------------------------------------------------------------------------
(* What a step does to the database *)

\* Only a commit changes the database.
LEMMA OnlyCommits ==
  ASSUME [Next]_vars
  PROVE  UNCHANGED db \/ \E c \in Client : Commit(c)
<1> USE DEF Refuse, Finish, Stage
<1>1. ASSUME NEW c \in Client, Advance(c), ~Commit(c) PROVE UNCHANGED db
  BY <1>1 DEF Advance, Precheck, InsertNew, InsertSeeded, TakeOpLock, LockRow, ReadRow,
     Patch, Save, CloseLoop, AppendReference, ExtendSeeded, AddComment
<1>2. CASE \E c \in Client : Advance(c)
  BY <1>1, <1>2
<1>3. CASE \E c \in Client : \/ \E l \in LoopId : Read(c, l)
                             \/ \E r \in Calls, l \in LoopId : Invoke(c, r, l)
                             \/ \E r \in Calls : Reject(c, r)
                             \/ Crash(c)
  BY <1>3 DEF Read, Invoke, Reject, Crash
<1> QED
  BY <1>2, <1>3 DEF Next, Stopped, vars

\* A commit adds one version where it changes content or adds a comment.
LEMMA CommitCounts ==
  ASSUME Inv, NEW c \in Client, Commit(c), NEW l \in LoopId, loops[l] # NoLoop
  PROVE  loops'[l].version = loops[l].version +
           IF ~EqualVisible(loops[l], loops'[l]) \/ comments'[l] # comments[l] THEN 1 ELSE 0
<1>1. /\ loops[l] \in LoopRow /\ loops[l].version \in Nat /\ loops \in [LoopId -> LoopRow \cup {NoLoop}]
      /\ comments \in [LoopId -> Seq(Client)] /\ EqualVisible(loops[l], loops[l])
  BY DEF Inv, TypeOK, LoopRow, EqualVisible
<1>2. loops' = [loops EXCEPT ![target[c]] = staged[c].row]
  BY CommitRow
<1>3. CASE l # target[c]
  BY <1>1, <1>2, <1>3 DEF Commit
<1>4. CASE l = target[c]
  <2>1. loops'[l] = staged[c].row /\ Follows(loops[l], staged[c].row, staged[c].note)
    BY <1>1, <1>2, <1>4, CommitRow
  <2>2. comments'[l] # comments[l] <=> staged[c].note
    <3>1. Append(comments[l], c) # comments[l]
      BY <1>1, AppendProperties
    <3> QED
      BY <1>1, <1>4, <3>1 DEF Commit
  <2> QED
    BY <1>1, <2>1, <2>2 DEF Follows
<1> QED
  BY <1>3, <1>4

\* A commit leaves a closed Loop, its comments and its receipts alone.
LEMMA CommitSettled ==
  ASSUME Inv, NEW c \in Client, Commit(c), NEW l \in LoopId,
         loops[l] # NoLoop, loops[l].status = "closed"
  PROVE  /\ loops'[l] = loops[l]
         /\ comments'[l] = comments[l]
         /\ \A k \in DOMAIN receipts : receipts'[k] # receipts[k] => receipts'[k].loop # l
<1>1. /\ loops \in [LoopId -> LoopRow \cup {NoLoop}]
      /\ comments \in [LoopId -> Seq(Client)]
      /\ receipts \in [Account \X Operation -> Receipt \cup {NoReceipt}]
  BY DEF Inv, TypeOK
<1>2. /\ loops' = [loops EXCEPT ![target[c]] = staged[c].row]
      /\ staged[c].receipt # NoReceipt => staged[c].receipt.loop = target[c]
  BY CommitRow
<1>3. ASSUME NEW k \in DOMAIN receipts, receipts'[k] # receipts[k]
      PROVE  receipts'[k] = staged[c].receipt /\ staged[c].receipt # NoReceipt
  BY <1>1, <1>3 DEF Commit
<1>4. CASE l # target[c]
  BY <1>1, <1>2, <1>3, <1>4 DEF Commit
<1>5. CASE l = target[c]
  <2>1. Settled(loops[l], staged[c].row, staged[c].receipt, staged[c].note)
    BY <1>5, CommitRow
  <2> QED
    BY <1>1, <1>2, <1>3, <1>5, <2>1 DEF Settled, Commit
<1> QED
  BY <1>4, <1>5

\* A commit changes a Loop of the caller's account.
LEMMA CommitOwned ==
  ASSUME Inv, NEW c \in Client, Commit(c), NEW l \in LoopId, loops'[l] # loops[l]
  PROVE  /\ pc[c] \in {"inserted", "commit"} /\ pc'[c] = "idle" /\ target[c] = l
         /\ loops'[l].account = req[c].account
         /\ loops[l] # NoLoop => loops[l].account = req[c].account
<1>1. loops \in [LoopId -> LoopRow \cup {NoLoop}]
  BY DEF Inv, TypeOK
<1>2. pc[c] \in {"inserted", "commit"} /\ pc'[c] = "idle"
  BY DEF Commit, Finish, Inv, TypeOK
<1>3. /\ target[c] = l /\ loops'[l] = staged[c].row
      /\ staged[c].row.account = req[c].account
      /\ loops[l] # NoLoop => Follows(loops[l], staged[c].row, staged[c].note)
  BY <1>1, CommitRow
<1> QED
  BY <1>2, <1>3 DEF Follows

-----------------------------------------------------------------------------
(* The theorems *)

\* The invariant the others follow from: exclusive row locks, and under the lock a
\* row that is still the one that was read.
THEOREM InvHolds == Spec => []Inv
BY InitInv, NextInv, PTL DEF Spec

\* Every variable keeps its type.
THEOREM TypeCorrect == Spec => []TypeOK
<1>1. Inv => TypeOK
  BY DEF Inv
<1> QED
  BY <1>1, InvHolds, PTL

\* The version is a freshness fence: equal versions mean equal content.
THEOREM FenceHolds == Spec => []FreshnessFence
<1>1. Inv => FreshnessFence
  BY DEF Inv
<1> QED
  BY <1>1, InvHolds, PTL

\* The version of a Loop counts its changes and comments, one each.
THEOREM VersionCounts == Spec => VersionCountsChanges
<1> DEFINE Counts(l) ==
      LET changed == \/ ~EqualVisible(loops[l], loops'[l])
                     \/ comments'[l] # comments[l]
      IN loops'[l].version = loops[l].version + IF changed THEN 1 ELSE 0
<1>1. Inv /\ [Next]_vars => \A l \in LoopId : loops[l] # NoLoop => Counts(l)
  <2> SUFFICES ASSUME Inv, [Next]_vars, NEW l \in LoopId, loops[l] # NoLoop
               PROVE  Counts(l)
    OBVIOUS
  <2>1. CASE UNCHANGED db
    BY <2>1 DEF db, Inv, TypeOK, LoopRow, EqualVisible
  <2>2. CASE \E c \in Client : Commit(c)
    BY <2>2, CommitCounts
  <2> QED
    BY <2>1, <2>2, OnlyCommits
<1> QED
  BY <1>1, InvHolds, PTL DEF Spec, VersionCountsChanges

\* Nothing happens to a closed Loop.
THEOREM ClosedStays == Spec => ClosedIsFinal
<1> DEFINE Untouched(l) ==
      /\ loops'[l] = loops[l]
      /\ comments'[l] = comments[l]
      /\ \A k \in DOMAIN receipts : receipts'[k] # receipts[k] => receipts'[k].loop # l
<1>1. Inv /\ [Next]_vars =>
        \A l \in LoopId : loops[l] # NoLoop /\ loops[l].status = "closed" => Untouched(l)
  <2> SUFFICES ASSUME Inv, [Next]_vars, NEW l \in LoopId,
                      loops[l] # NoLoop, loops[l].status = "closed"
               PROVE  Untouched(l)
    OBVIOUS
  <2>1. CASE UNCHANGED db
    BY <2>1 DEF db
  <2>2. CASE \E c \in Client : Commit(c)
    BY <2>2, CommitSettled
  <2> QED
    BY <2>1, <2>2, OnlyCommits
<1> QED
  BY <1>1, InvHolds, PTL DEF Spec, ClosedIsFinal

\* A Loop changes only by a call of its own account.
THEOREM OwnersAlone == Spec => OwnersOnly
<1> DEFINE ByOwner(l) ==
      \E c \in Client :
         /\ pc[c] \in {"inserted", "commit"} /\ pc'[c] = "idle" /\ target[c] = l
         /\ loops'[l].account = req[c].account
         /\ loops[l] # NoLoop => loops[l].account = req[c].account
<1>1. Inv /\ [Next]_vars => \A l \in LoopId : loops'[l] # loops[l] => ByOwner(l)
  <2> SUFFICES ASSUME Inv, [Next]_vars, NEW l \in LoopId, loops'[l] # loops[l]
               PROVE  ByOwner(l)
    OBVIOUS
  <2>1. PICK c \in Client : Commit(c)
    BY OnlyCommits DEF db
  <2> QED
    BY <2>1, CommitOwned
<1> QED
  BY <1>1, InvHolds, PTL DEF Spec, OwnersOnly
=============================================================================
