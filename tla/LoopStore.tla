----------------------------- MODULE LoopStore ------------------------------
(***************************************************************************)
(* LoopService over PostgresLoopRepository: concurrent callers, one        *)
(* PostgreSQL transaction per mutating call, READ COMMITTED, with          *)
(*  - a row lock on the Loop (SELECT ... FOR UPDATE), then a second        *)
(*    statement that reads the row and its references,                     *)
(*  - for an append, before that, an advisory transaction lock on          *)
(*    (account, operation) and a read of the operation's receipt,          *)
(*  - for a seeded create, INSERT ... ON CONFLICT DO NOTHING on the unique *)
(*    index (account, seed key), which waits for an uncommitted rival.     *)
(* Writes of a transaction are invisible before COMMIT: they are kept in   *)
(* "staged".  Locks are not variables: who holds what follows from where   *)
(* each caller is in its transaction.                                      *)
(***************************************************************************)
EXTENDS LoopData

CONSTANTS Client,      \* concurrent callers (HTTP requests, seed runs)
          Calls,       \* the calls they make
          MaxCalls,    \* bound on the number of calls of a behaviour
          StartTables, \* what the database may hold when the service starts
          NoCall, NoSnapshot, NoStage

VARIABLES
  loops, comments, receipts, \* committed: loops, loop_comments, loop_append_operations
  pc,      \* where the caller's call is
  req,     \* its call (the last one, while idle)
  target,  \* the Loop it works on
  found,   \* append: the receipt read under the advisory lock
  prior,   \* the row read under the row lock
  staged,  \* uncommitted writes: a row, a receipt or none, a comment or none
  seen,    \* the last snapshot the caller has read: source of expectedVersion
  reply,   \* how the last call was answered
  calls    \* calls made so far

db   == <<loops, comments, receipts>>
vars == <<db, pc, req, target, found, prior, staged, seen, reply, calls>>

ASSUME StoreAssumption ==
  /\ LoopId # {}
  /\ Calls \subseteq Call
  /\ MaxCalls \in Nat
  /\ NoCall \notin Call
  /\ \A t \in StartTables :
       /\ t \in [LoopId -> LoopRow \cup {NoLoop}]
       /\ \A l \in LoopId : t[l] # NoLoop => WellFormedRefs(t[l].refs)
       /\ \A l, k \in LoopId :
            /\ t[l] # NoLoop /\ t[k] # NoLoop
            /\ <<t[l].account, t[l].seed>> = <<t[k].account, t[k].seed>>
            /\ t[l].seed # NoSeed
            => l = k

Init == /\ loops \in StartTables
        /\ comments = [l \in LoopId |-> <<>>]
        /\ receipts = [k \in Account \X Operation |-> NoReceipt]
        /\ pc = [c \in Client |-> "idle"]
        /\ req = [c \in Client |-> NoCall]
        /\ target = [c \in Client |-> CHOOSE l \in LoopId : TRUE]
        /\ found = [c \in Client |-> NoReceipt]
        /\ prior = [c \in Client |-> NoLoop]
        /\ staged = [c \in Client |-> NoStage]
        /\ seen = [c \in Client |-> NoSnapshot]
        /\ reply = [c \in Client |-> "none"]
        /\ calls = 0

-----------------------------------------------------------------------------
(* Who holds what *)

\* d has locked the row of Loop l (held until commit or rollback).
HoldsRow(d, l) == pc[d] \in {"read", "work", "commit"} /\ target[d] = l

\* Faulty variant of HoldsOp: a caller in the queue blocks the queue.
HoldsOpWaiting(d, account, op) ==
  /\ pc[d] \in {"opLock", "lock", "read", "work", "commit"}
  /\ req[d].kind = "append" /\ req[d].account = account /\ req[d].op = op

\* Faulty variant of HoldsOp: the lock ends with the statement that took it.
HoldsOpBriefly(d, account, op) == FALSE

\* d has the advisory lock of (account, operation).
HoldsOp(d, account, op) == /\ pc[d] \in {"lock", "read", "work", "commit"}
                           /\ req[d].kind = "append"
                           /\ req[d].account = account /\ req[d].op = op

\* d has inserted, and not yet committed, the Loop seeded with key.
HoldsSeed(d, account, key) == /\ pc[d] = "inserted"
                              /\ req[d].kind = "seed"
                              /\ req[d].account = account /\ req[d].key = key

\* Loop identifiers are random UUIDs: no row has it, no pending insert uses it.
Unused(l) == /\ loops[l] = NoLoop
             /\ \A d \in Client : pc[d] \in {"insert", "inserted"} => target[d] # l

\* Faulty variant of Owned: the account is not part of the WHERE clause.
OwnedByAnyone(c) == loops[target[c]] # NoLoop

\* The caller's Loop, visible to its account.
Owned(c) == loops[target[c]] # NoLoop /\ loops[target[c]].account = req[c].account

Version(c) == seen[c].row.version
Current(c) == Fenced(req[c]) => Version(c) = prior[c].version

-----------------------------------------------------------------------------
(* Ends of a call *)

Finish(c, answer) ==
  /\ pc'     = [pc EXCEPT ![c] = "idle"]
  /\ reply'  = [reply EXCEPT ![c] = answer]
  /\ found'  = [found EXCEPT ![c] = NoReceipt]
  /\ prior'  = [prior EXCEPT ![c] = NoLoop]
  /\ staged' = [staged EXCEPT ![c] = NoStage]
  /\ UNCHANGED <<req, target, seen, calls>>

\* An error: ROLLBACK, every lock released, the error answered.
Refuse(c, answer) == Finish(c, answer) /\ UNCHANGED db

Goto(c, label) == pc' = [pc EXCEPT ![c] = label]

\* The last statement before COMMIT: the transaction's writes are complete.
Stage(c, row, receipt, note) ==
  /\ Goto(c, IF pc[c] = "insert" THEN "inserted" ELSE "commit")
  /\ staged' = [staged EXCEPT ![c] = [row |-> row, receipt |-> receipt, note |-> note]]
  /\ UNCHANGED <<db, req, target, found, prior, seen, reply, calls>>

-----------------------------------------------------------------------------
(* A call begins *)

\* findById, list, get: one coherent statement.  Only what a fenced call may
\* use later is remembered.
Read(c, l) ==
  /\ pc[c] = "idle" /\ calls < MaxCalls
  /\ \E r \in Calls : Fenced(r) /\ r.loop = l
  /\ loops[l] # NoLoop
  /\ seen' = [seen EXCEPT ![c] = [loop |-> l, row |-> loops[l]]]
  /\ UNCHANGED <<db, pc, req, target, found, prior, staged, reply, calls>>

Entry(r) == CASE Inserts(r)         -> "insert"
              [] r.kind = "append"  -> "opLock"
              [] r.kind = "comment" -> "precheck"
              [] OTHER              -> "lock"

Invoke(c, r, l) ==
  /\ pc[c] = "idle" /\ calls < MaxCalls
  /\ Acceptable(r)
  /\ Fenced(r) => seen[c] # NoSnapshot /\ seen[c].loop = r.loop
  /\ IF Inserts(r) THEN Unused(l) ELSE l = r.loop
  /\ calls'  = calls + 1
  /\ req'    = [req EXCEPT ![c] = r]
  /\ target' = [target EXCEPT ![c] = l]
  /\ reply'  = [reply EXCEPT ![c] = "none"]
  /\ Goto(c, Entry(r))
  /\ UNCHANGED <<db, found, prior, staged, seen>>

\* LoopService refuses the input: no transaction is opened.
Reject(c, r) ==
  /\ pc[c] = "idle" /\ calls < MaxCalls
  /\ ~Acceptable(r)
  /\ calls' = calls + 1
  /\ req'   = [req EXCEPT ![c] = r]
  /\ reply' = [reply EXCEPT ![c] = "invalid"]
  /\ UNCHANGED <<db, pc, target, found, prior, staged, seen>>

\* addComment reads the Loop in the service, outside any transaction.
Precheck(c) ==
  /\ pc[c] = "precheck"
  /\ \/ ~Owned(c) /\ Refuse(c, "notFound")
     \/ Owned(c) /\ loops[target[c]].status = "closed" /\ Refuse(c, "closed")
     \/ /\ Owned(c) /\ loops[target[c]].status = "open"
        /\ Goto(c, "lock")
        /\ UNCHANGED <<db, req, target, found, prior, staged, seen, reply, calls>>

-----------------------------------------------------------------------------
(* Inserting a Loop *)

InsertNew(c) ==
  /\ pc[c] = "insert" /\ req[c].kind = "create"
  /\ Stage(c, NewRow(req[c]), NoReceipt, FALSE)

\* Faulty variant of InsertSeeded: SELECT, then INSERT, without the unique index.
InsertSeededUnguarded(c) ==
  /\ pc[c] = "insert" /\ req[c].kind = "seed"
  /\ \A l \in LoopId : loops[l] # NoLoop =>
       <<loops[l].account, loops[l].seed>> # <<req[c].account, req[c].key>>
  /\ Stage(c, NewRow(req[c]), NoReceipt, FALSE)

\* INSERT ... ON CONFLICT(account_id, seed_key) DO NOTHING: waits for a rival's
\* insert to commit or roll back; on conflict the existing Loop is the target.
InsertSeeded(c) ==
  LET r == req[c]
      Rivals == {l \in LoopId : /\ loops[l] # NoLoop
                                /\ loops[l].account = r.account /\ loops[l].seed = r.key}
  IN /\ pc[c] = "insert" /\ r.kind = "seed"
     /\ \A d \in Client : ~HoldsSeed(d, r.account, r.key)
     /\ \/ Rivals = {} /\ Stage(c, NewRow(r), NoReceipt, FALSE)
        \/ \E l \in Rivals :
             /\ target' = [target EXCEPT ![c] = l]
             /\ Goto(c, "lock")
             /\ UNCHANGED <<db, req, found, prior, staged, seen, reply, calls>>

-----------------------------------------------------------------------------
(* Locks *)

\* Faulty variant of TakeOpLock: any receipt of the operation counts as a replay.
TakeOpLockUnbound(c) ==
  /\ pc[c] = "opLock"
  /\ \A d \in Client \ {c} : ~HoldsOp(d, req[c].account, req[c].op)
  /\ found' = [found EXCEPT ![c] = receipts[<<req[c].account, req[c].op>>]]
  /\ Goto(c, "lock")
  /\ UNCHANGED <<db, req, target, prior, staged, seen, reply, calls>>

\* pg_advisory_xact_lock, then the receipt of the operation.
TakeOpLock(c) ==
  LET r == req[c]
      receipt == receipts[<<r.account, r.op>>]
      bound == receipt # NoReceipt => receipt.loop = r.loop /\ receipt.event = r.event
  IN /\ pc[c] = "opLock"
     /\ \A d \in Client \ {c} : ~HoldsOp(d, r.account, r.op)
     /\ \/ ~bound /\ Refuse(c, "conflict")
        \/ /\ bound
           /\ found' = [found EXCEPT ![c] = receipt]
           /\ Goto(c, "lock")
           /\ UNCHANGED <<db, req, target, prior, staged, seen, reply, calls>>

\* Faulty variant of LockRow: a plain SELECT, which waits for nobody.
LockRowUnlocked(c) ==
  /\ pc[c] = "lock"
  /\ \/ ~Owned(c) /\ Refuse(c, "notFound")
     \/ /\ Owned(c)
        /\ Goto(c, "read")
        /\ UNCHANGED <<db, req, target, found, prior, staged, seen, reply, calls>>

\* SELECT id ... FOR UPDATE
LockRow(c) ==
  /\ pc[c] = "lock"
  /\ \/ ~Owned(c) /\ Refuse(c, "notFound")
     \/ /\ Owned(c)
        /\ \A d \in Client \ {c} : ~HoldsRow(d, target[c])
        /\ Goto(c, "read")
        /\ UNCHANGED <<db, req, target, found, prior, staged, seen, reply, calls>>

\* snapshot(), in a statement of its own after the wait
ReadRow(c) ==
  /\ pc[c] = "read"
  /\ prior' = [prior EXCEPT ![c] = loops[target[c]]]
  /\ Goto(c, "work")
  /\ UNCHANGED <<db, req, target, found, staged, seen, reply, calls>>

-----------------------------------------------------------------------------
(* The body of each transaction, under the row lock *)

Working(c, kind) == pc[c] = "work" /\ req[c].kind = kind
IsOpen(c) == prior[c].status = "open"

Patch(c) ==
  /\ Working(c, "patch")
  /\ \/ ~IsOpen(c) /\ Refuse(c, "closed")
     \/ IsOpen(c) /\ ~Current(c) /\ Refuse(c, "conflict")
     \/ /\ IsOpen(c) /\ Current(c)
        /\ Stage(c, Persist(prior[c], Edited(prior[c], req[c])), NoReceipt, FALSE)

\* The caller's whole snapshot, edited, replaces the row.
SavedRow(c) == [Edited(seen[c].row, req[c]) EXCEPT !.status = req[c].status]

Save(c) ==
  LET same == EqualVisible(prior[c], SavedRow(c)) IN
  /\ Working(c, "save")
  /\ \/ ~Current(c) /\ Refuse(c, "conflict")
     \/ Current(c) /\ ~IsOpen(c) /\ ~same /\ Refuse(c, "closed")
     \/ /\ Current(c) /\ (IsOpen(c) \/ same)
        /\ Stage(c, Persist(prior[c], SavedRow(c)), NoReceipt, FALSE)

CloseLoop(c) ==
  /\ Working(c, "close")
  /\ Stage(c, Persist(prior[c], Closed(prior[c])), NoReceipt, FALSE)

\* Faulty variant of AppendReference: presence alone decides, not the receipt.
AppendReferenceAgain(c) ==
  LET r == req[c]
      row == IF r.event \in Keys(prior[c].refs)
             THEN prior[c] ELSE Persist(prior[c], Linked(prior[c], r.event))
  IN /\ Working(c, "append") /\ Current(c) /\ IsOpen(c)
     /\ Stage(c, row, IF found[c] # NoReceipt THEN NoReceipt
                      ELSE [loop |-> target[c], event |-> r.event,
                            version |-> row.version], FALSE)

AppendReference(c) ==
  LET r == req[c]
      present == r.event \in Keys(prior[c].refs)
      full == Len(prior[c].refs) >= MaxRefs
      row == IF present THEN prior[c] ELSE Persist(prior[c], Linked(prior[c], r.event))
  IN /\ Working(c, "append")
     /\ \/ found[c] # NoReceipt /\ Stage(c, prior[c], NoReceipt, FALSE)
        \/ /\ found[c] = NoReceipt
           /\ \/ ~Current(c) /\ Refuse(c, "conflict")
              \/ Current(c) /\ ~IsOpen(c) /\ Refuse(c, "closed")
              \/ Current(c) /\ IsOpen(c) /\ ~present /\ full /\ Refuse(c, "invalid")
              \/ /\ Current(c) /\ IsOpen(c) /\ (present \/ ~full)
                 /\ Stage(c, row, [loop |-> target[c], event |-> r.event,
                                   version |-> row.version], FALSE)

\* Faulty variant of ExtendSeeded: room for one reference is room for all.
ExtendSeededCrowded(c) ==
  LET new == Additions(prior[c].refs, req[c].refs) IN
  /\ Working(c, "seed") /\ new # {} /\ IsOpen(c) /\ Len(prior[c].refs) < MaxRefs
  /\ \E order \in InOrder(new) :
       Stage(c, Persist(prior[c], Extended(prior[c], req[c].refs, order)), NoReceipt, FALSE)

ExtendSeeded(c) ==
  LET want == req[c].refs
      new == Additions(prior[c].refs, want)
      full == Len(prior[c].refs) + Cardinality(new) > MaxRefs
  IN /\ Working(c, "seed")
     /\ \/ new = {} /\ Stage(c, prior[c], NoReceipt, FALSE)
        \/ new # {} /\ ~IsOpen(c) /\ Refuse(c, "closed")
        \/ new # {} /\ IsOpen(c) /\ full /\ Refuse(c, "invalid")
        \/ /\ new # {} /\ IsOpen(c) /\ ~full
           /\ \E order \in InOrder(new) :
                Stage(c, Persist(prior[c], Extended(prior[c], want, order)), NoReceipt, FALSE)

\* Faulty variant of AddComment: the status is checked before the lock only.
AddCommentUnchecked(c) ==
  /\ Working(c, "comment")
  /\ Stage(c, [prior[c] EXCEPT !.version = @ + 1], NoReceipt, TRUE)

\* Faulty variant of AddComment: a comment leaves the version alone.
AddCommentUncounted(c) ==
  /\ Working(c, "comment")
  /\ \/ ~IsOpen(c) /\ Refuse(c, "closed")
     \/ IsOpen(c) /\ Stage(c, prior[c], NoReceipt, TRUE)

AddComment(c) ==
  /\ Working(c, "comment")
  /\ \/ ~IsOpen(c) /\ Refuse(c, "closed")
     \/ IsOpen(c) /\ Stage(c, [prior[c] EXCEPT !.version = @ + 1], NoReceipt, TRUE)

-----------------------------------------------------------------------------
(* COMMIT; and what may fail instead *)

Answer(c) == IF found[c] # NoReceipt THEN "replayed" ELSE "done"

\* The connection may break after the server committed: the caller then sees
\* an error although the call took effect.
Commit(c) ==
  LET s == staged[c] IN
  /\ pc[c] \in {"inserted", "commit"}
  /\ loops' = [loops EXCEPT ![target[c]] = s.row]
  /\ comments' = IF s.note THEN [comments EXCEPT ![target[c]] = Append(@, c)] ELSE comments
  /\ receipts' = IF s.receipt = NoReceipt
                 THEN receipts
                 ELSE [receipts EXCEPT ![<<req[c].account, req[c].op>>] = s.receipt]
  /\ \E answer \in {Answer(c), "lost"} : Finish(c, answer)

\* The process or its connection dies before COMMIT: PostgreSQL rolls back.
Crash(c) == pc[c] # "idle" /\ Refuse(c, "lost")

Advance(c) == \/ Precheck(c) \/ InsertNew(c) \/ InsertSeeded(c)
              \/ TakeOpLock(c) \/ LockRow(c) \/ ReadRow(c)
              \/ Patch(c) \/ Save(c) \/ CloseLoop(c) \/ AppendReference(c)
              \/ ExtendSeeded(c) \/ AddComment(c)
              \/ Commit(c)

\* Every call of the bounded behaviour has been made and answered.
Stopped == /\ calls = MaxCalls /\ \A c \in Client : pc[c] = "idle"
           /\ UNCHANGED vars

Next == \/ \E c \in Client :
             \/ \E l \in LoopId : Read(c, l)
             \/ \E r \in Calls, l \in LoopId : Invoke(c, r, l)
             \/ \E r \in Calls : Reject(c, r)
             \/ Advance(c)
             \/ Crash(c)
        \/ Stopped

Spec == Init /\ [][Next]_vars

\* PostgreSQL runs an admitted statement to its end and grants queued locks.
FairSpec == Spec /\ \A c \in Client : WF_vars(Advance(c))
-----------------------------------------------------------------------------
(* Properties *)

Staged   == [row : LoopRow, receipt : Receipt \cup {NoReceipt}, note : BOOLEAN]
Snapshot == [loop : LoopId, row : LoopRow]

\* Every variable has its type: rows, receipts and comments as the migrations
\* declare them, and each caller's transaction in one of its control states.
TypeOK ==
  /\ loops \in [LoopId -> LoopRow \cup {NoLoop}]
  /\ comments \in [LoopId -> Seq(Client)]
  /\ receipts \in [Account \X Operation -> Receipt \cup {NoReceipt}]
  /\ pc \in [Client -> {"idle", "precheck", "insert", "inserted", "opLock",
                        "lock", "read", "work", "commit"}]
  /\ req \in [Client -> Call \cup {NoCall}]
  /\ target \in [Client -> LoopId]
  /\ found \in [Client -> Receipt \cup {NoReceipt}]
  /\ prior \in [Client -> LoopRow \cup {NoLoop}]
  /\ staged \in [Client -> Staged \cup {NoStage}]
  /\ seen \in [Client -> Snapshot \cup {NoSnapshot}]
  /\ reply \in [Client -> {"none", "invalid", "notFound", "closed", "conflict",
                           "done", "replayed", "lost"}]
  /\ calls \in 0..MaxCalls

\* No Loop ever holds more than MaxRefs references or the same one twice, however
\* appends, seed additions and replacements interleave: each checks the room and
\* the presence it needs on the row it has locked.
StoredRefsWellFormed ==
  \A l \in LoopId : loops[l] # NoLoop => WellFormedRefs(loops[l].refs)

\* Concurrent and repeated seed runs never create a second Loop for one identity.
OneLoopPerSeed ==
  \A l, k \in LoopId :
    /\ loops[l] # NoLoop /\ loops[k] # NoLoop
    /\ loops[l].seed # NoSeed
    /\ loops[l].seed = loops[k].seed /\ loops[l].account = loops[k].account
    => l = k

\* The version is a freshness fence: a caller whose snapshot carries the version the
\* Loop has now has read exactly what the Loop holds now, and no snapshot is ahead.
FreshnessFence ==
  \A c \in Client :
    seen[c] # NoSnapshot =>
      LET row == loops[seen[c].loop] IN
      /\ row # NoLoop
      /\ seen[c].row.version <= row.version
      /\ seen[c].row.version = row.version => seen[c].row = row

\* A receipt belongs to an existing Loop of its own account, and names a version
\* that Loop has really had.
ReceiptsSound ==
  \A a \in Account, o \in Operation :
    LET receipt == receipts[<<a, o>>] IN
    receipt # NoReceipt =>
      /\ loops[receipt.loop] # NoLoop
      /\ loops[receipt.loop].account = a
      /\ receipt.version <= loops[receipt.loop].version

\* A transaction about to commit a receipt finds its primary key free: a concurrent
\* or repeated use of an operation never ends in a unique violation.
ReceiptKeyFree ==
  \A c \in Client :
    pc[c] = "commit" /\ staged[c].receipt # NoReceipt =>
      receipts[<<req[c].account, req[c].op>>] = NoReceipt

\* What was acknowledged stays: an append's receipt for exactly its Loop and event,
\* a close, a created or seeded Loop, a comment, whatever the others do afterwards.
AcknowledgedIsDurable ==
  \A c \in Client :
    LET r == req[c] IN
    pc[c] = "idle" /\ reply[c] \in {"done", "replayed"} =>
      CASE r.kind = "append" ->
             /\ receipts[<<r.account, r.op>>] # NoReceipt
             /\ receipts[<<r.account, r.op>>].loop = r.loop
             /\ receipts[<<r.account, r.op>>].event = r.event
        [] r.kind = "close" -> loops[r.loop].status = "closed"
        [] r.kind = "comment" -> \E i \in DOMAIN comments[r.loop] : comments[r.loop][i] = c
        [] r.kind = "seed" -> \E l \in LoopId : /\ loops[l] # NoLoop
                                                /\ loops[l].seed = r.key
                                                /\ loops[l].account = r.account
        [] OTHER -> loops[target[c]] # NoLoop

\* The version of a Loop counts its visible changes and comments, one each: an
\* identical patch, a repeated close or a replayed append leaves it alone.
VersionCountsChanges ==
  [][\A l \in LoopId : loops[l] # NoLoop =>
       LET changed == \/ ~EqualVisible(loops[l], loops'[l])
                      \/ comments'[l] # comments[l]
       IN loops'[l].version = loops[l].version + IF changed THEN 1 ELSE 0]_vars

\* Nothing happens to a closed Loop: no edit, reopening, comment or new receipt,
\* even from a call that saw it open before it waited for the lock.
ClosedIsFinal ==
  [][\A l \in LoopId : loops[l] # NoLoop /\ loops[l].status = "closed" =>
       /\ loops'[l] = loops[l]
       /\ comments'[l] = comments[l]
       /\ \A k \in DOMAIN receipts :
            receipts'[k] # receipts[k] => receipts'[k].loop # l]_vars

\* An append operation has one effect: its receipt is never overwritten, and it
\* changes a Loop only in the step that creates its receipt, so that a retry
\* cannot bring back a reference someone has unlinked in the meantime.
OneEffectPerOperation ==
  [][/\ \A k \in DOMAIN receipts : receipts[k] # NoReceipt => receipts'[k] = receipts[k]
     /\ \A c \in Client :
          LET k == <<req[c].account, req[c].op>> IN
          /\ pc[c] = "commit" /\ pc'[c] = "idle" /\ req[c].kind = "append"
          /\ loops' # loops
          => /\ receipts[k] = NoReceipt
             /\ receipts'[k] = [loop |-> req[c].loop, event |-> req[c].event,
                                version |-> loops'[req[c].loop].version]]_vars

\* A Loop changes only by a call of its own account that names it (or its seed).
OwnersOnly ==
  [][\A l \in LoopId : loops'[l] # loops[l] =>
       \E c \in Client :
         /\ pc[c] \in {"inserted", "commit"} /\ pc'[c] = "idle" /\ target[c] = l
         /\ loops'[l].account = req[c].account
         /\ loops[l] # NoLoop => loops[l].account = req[c].account]_vars

\* Waiting ends: every call is answered, whatever locks it has to wait for.
EveryCallReturns == \A c \in Client : pc[c] # "idle" ~> pc[c] = "idle"

\* The locked transactions implement the ledger: every call takes effect at its
\* commit, atomically, on the Loop as it then stands, and at most once.
Ledger == INSTANCE LoopLedger WITH
            call <- [c \in Client |-> IF pc[c] = "idle" THEN NoCall ELSE req[c]]
RefinesLedger == Ledger!Spec
=============================================================================
