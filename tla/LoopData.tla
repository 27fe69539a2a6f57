------------------------------ MODULE LoopData ------------------------------
(***************************************************************************)
(* The data of the Loop store: Loop rows with their ordered references,    *)
(* the append receipts, the calls of LoopService, and the pure functions   *)
(* PostgresLoopRepository computes on them.  A Loop's scalar columns        *)
(* (title, description, priority, outcome, due date) are one function       *)
(* "text" from Field to Value; a cleared description or due date is a Value *)
(* like any other.  Authors and timestamps are left out: no guard of the    *)
(* store reads them.                                                        *)
(***************************************************************************)
EXTENDS Integers, Sequences, FiniteSets

CONSTANTS
  Account,        \* tenants
  LoopId,         \* Loop identifiers (UUIDs; fresh ones are drawn from here)
  SeedKey,        \* identities of seeded Loops
  Field, Value,   \* scalar columns and their contents
  Key, Label,     \* reference identity (kind and record id) and its label
  Event,          \* Calendar events: e stands for the key "calendar:<e>"
  CalendarLabel,  \* the fixed label "Calendar event"
  Operation,      \* append operation identifiers
  MaxRefs,        \* references a Loop may carry (100 in the code)
  NoSeed, NoLoop, NoReceipt, Keep   \* NULLs, and "field not supplied"

Ref == [key : Key, label : Label]
CalendarRef(e) == [key |-> e, label |-> CalendarLabel]
Keys(refs) == {refs[i].key : i \in DOMAIN refs}

\* A row of loops joined with its loop_related_records, as snapshot() reads it.
LoopRow == [account : Account, seed : SeedKey \cup {NoSeed},
            text : [Field -> Value], status : {"open", "closed"},
            refs : Seq(Ref), version : Nat \ {0}]

\* A row of loop_append_operations; the payload digest is a function of event.
Receipt == [loop : LoopId, event : Event, version : Nat \ {0}]

-----------------------------------------------------------------------------
(* The calls a caller can make.  A "fenced" call carries expectedVersion.  No route calls *)
(* save(), and neither it nor LoopService checks its references: they are a snapshot's, or *)
(* those of a call LoopService let through.                                              *)

\* LoopService.relatedRecords: at most MaxRefs references, no key twice.
WellFormedRefs(refs) ==
  /\ Len(refs) <= MaxRefs
  /\ \A i, j \in DOMAIN refs : refs[i].key = refs[j].key => i = j

PartialText == UNION {[F -> Value] : F \in SUBSET Field}

CreateCall  == [kind : {"create"}, account : Account,
                text : [Field -> Value], refs : Seq(Ref)]
SeedCall    == [kind : {"seed"}, account : Account, key : SeedKey,
                text : [Field -> Value], refs : Seq(Ref)]
PatchCall   == [kind : {"patch"}, account : Account, loop : LoopId,
                text : PartialText, refs : Seq(Ref) \cup {Keep}, fenced : BOOLEAN]
SaveCall    == [kind : {"save"}, account : Account, loop : LoopId,
                text : PartialText, refs : {s \in Seq(Ref) : WellFormedRefs(s)} \cup {Keep},
                status : {"open", "closed"}]
CloseCall   == [kind : {"close"}, account : Account, loop : LoopId,
                confirmed : BOOLEAN]
AppendCall  == [kind : {"append"}, account : Account, loop : LoopId,
                op : Operation, event : Event, fenced : BOOLEAN]
CommentCall == [kind : {"comment"}, account : Account, loop : LoopId]

Call == CreateCall \cup SeedCall \cup PatchCall \cup SaveCall
          \cup CloseCall \cup AppendCall \cup CommentCall

Inserts(r) == r.kind \in {"create", "seed"}

\* The call carries the version (save: the whole snapshot) its caller has read.
Fenced(r) == \/ r.kind = "save"
             \/ r.kind \in {"patch", "append"} /\ r.fenced

\* What LoopService refuses before it opens a transaction.
Acceptable(r) ==
  CASE Inserts(r)         -> WellFormedRefs(r.refs)
    [] r.kind = "patch"   -> /\ DOMAIN r.text # {} \/ r.refs # Keep
                             /\ r.refs # Keep => r.fenced /\ WellFormedRefs(r.refs)
    [] r.kind = "close"   -> r.confirmed
    [] r.kind \in {"save", "append", "comment"} -> TRUE

-----------------------------------------------------------------------------
(* Row functions *)

\* Faulty variant of NewRow: the version defaults to 0, not 1.
NewRowUnversioned(r) ==
  [account |-> r.account, seed |-> IF r.kind = "seed" THEN r.key ELSE NoSeed,
   text |-> r.text, status |-> "open", refs |-> r.refs, version |-> 0]

NewRow(r) == [account |-> r.account,
              seed    |-> IF r.kind = "seed" THEN r.key ELSE NoSeed,
              text    |-> r.text, status |-> "open", refs |-> r.refs,
              version |-> 1]

EqualVisible(a, b) == a.text = b.text /\ a.status = b.status /\ a.refs = b.refs

\* Faulty variant of Persist: replacing references alone does not touch the row.
PersistUncountedRefs(prior, next) ==
  [prior EXCEPT !.text = next.text, !.status = next.status, !.refs = next.refs,
                !.version = IF prior.text = next.text /\ prior.status = next.status
                            THEN @ ELSE @ + 1]

\* persist(): one UPDATE that adds 1 to version, skipped when nothing visible changes.
Persist(prior, next) ==
  IF EqualVisible(prior, next)
  THEN prior
  ELSE [prior EXCEPT !.text = next.text, !.status = next.status,
                     !.refs = next.refs, !.version = @ + 1]

\* { ...row, ...fields }: what the call supplies over what the row holds.
Edited(row, r) ==
  [row EXCEPT !.text = [f \in Field |-> IF f \in DOMAIN r.text THEN r.text[f] ELSE @[f]],
              !.refs = IF r.refs = Keep THEN @ ELSE r.refs]

Closed(row) == [row EXCEPT !.status = "closed"]

Linked(row, e) == [row EXCEPT !.refs = Append(@, CalendarRef(e))]

\* Positions in want of the references whose key have lacks ...
Additions(have, want) == {i \in DOMAIN want : want[i].key \notin Keys(have)}

\* ... and the one way to list them in the order of want.
InOrder(P) == {f \in [1..Cardinality(P) -> P] :
                 \A m, n \in 1..Cardinality(P) : m < n => f[m] < f[n]}

Extended(row, want, order) ==
  [row EXCEPT !.refs = @ \o [n \in DOMAIN order |-> want[order[n]]]]

ASSUME DataAssumption ==
  /\ MaxRefs \in Nat \ {0}
  /\ Event \subseteq Key
  /\ CalendarLabel \in Label
  /\ NoSeed \notin SeedKey
  /\ NoLoop \notin LoopRow
  /\ NoReceipt \notin Receipt
  /\ Keep \notin Seq(Ref)
=============================================================================
