----------------------------- MODULE Migrations -----------------------------
(***************************************************************************)
(* Runners of the schema migrations against one database.  A runner takes  *)
(* an advisory lock of its session, or leaves; then it goes through its    *)
(* own list of SQL files in order: one that is recorded must have the      *)
(* recorded checksum, one that is not is run and recorded in a transaction. *)
(* Records of the earlier runner have no checksum; it is filled in if the  *)
(* file is the one that was accepted.  Runners of different releases bring *)
(* longer or shorter lists, and files somebody may have edited.  A runner, *)
(* its connection or a statement can fail anywhere; the session then ends, *)
(* with its lock and its transaction.                                      *)
(***************************************************************************)
EXTENDS Integers

CONSTANTS
  Runner,
  N,            \* migrations there are
  NLegacy,      \* those the earlier runner may have applied (5 in the code)
  Digest,       \* checksums; also stand for the bytes they are of
  Accepted,     \* acceptedLegacyChecksums
  None, Null    \* no row; a row without checksum

VARIABLES
  record,   \* lists_schema_migrations: by migration, None, Null or a checksum
  ran,      \* the schema: the bytes each migration has been applied with, or "twice"
  lock,     \* the runner whose session holds the advisory lock, or None
  pc, at,   \* each runner: where it is, at which migration
  source    \* ... and the checksums of its files; those after its last are None

vars == <<record, ran, lock, pc, at, source>>

Migration == 1..N

ASSUME MigrationsAssumption ==
  /\ N \in Nat /\ NLegacy \in Nat /\ NLegacy <= N
  /\ Accepted \in [1..NLegacy -> Digest]
  /\ None # Null /\ None \notin Digest \cup Runner /\ Null \notin Digest /\ "twice" \notin Digest
  /\ "twice" # None

\* Lists of files: releases only append.
Source == {s \in [Migration -> Digest \cup {None}] :
             \A m, n \in Migration : m < n /\ s[m] = None => s[n] = None}

\* The database is new, or the earlier runner has applied some files, whatever they were.
Init == /\ \E k \in 0..NLegacy :
             /\ record = [m \in Migration |-> IF m <= k THEN Null ELSE None]
             /\ ran \in {f \in [Migration -> Digest \cup {None}] :
                           \A m \in Migration : (f[m] = None) = (m > k)}
        /\ lock = None
        /\ pc = [r \in Runner |-> "off"]
        /\ at = [r \in Runner |-> 1]
        /\ source = [r \in Runner |-> [m \in Migration |-> None]]

-----------------------------------------------------------------------------
(* Steps of a runner *)

Goto(r, label) == pc' = [pc EXCEPT ![r] = label]

More(r) == at[r] <= N /\ source[r][at[r]] # None

\* Faulty variant of End: the session is ended after the last file only, not in any case.
EndLast(r) == /\ Goto(r, "off")
              /\ lock' = IF lock = r /\ ~More(r) THEN None ELSE lock
              /\ at' = [at EXCEPT ![r] = 1]
              /\ source' = [source EXCEPT ![r] = [m \in Migration |-> None]]

\* The session ends: after the last file, a failed check, an error, a crash.
End(r) == /\ Goto(r, "off")
          /\ lock' = IF lock = r THEN None ELSE lock
          /\ at' = [at EXCEPT ![r] = 1]
          /\ source' = [source EXCEPT ![r] = [m \in Migration |-> None]]

Start(r) ==
  /\ pc[r] = "off" /\ Goto(r, "lock")
  /\ \E s \in Source : source' = [source EXCEPT ![r] = s]
  /\ UNCHANGED <<record, ran, lock, at>>

\* pg_try_advisory_lock: not waited for.
TryLock(r) ==
  /\ pc[r] = "lock"
  /\ \/ lock = None /\ lock' = r /\ Goto(r, "read") /\ UNCHANGED <<at, source>>
     \/ lock # None /\ End(r)
  /\ UNCHANGED <<record, ran>>

\* Faulty variant of Valid: an edited file passes.
ValidEdited(m, stored, current) == stored # Null \/ m <= NLegacy

\* Faulty variant of Valid: whatever the file is now is taken for what was applied.
ValidUnseen(m, stored, current) == stored = current \/ stored = Null

\* validateAppliedMigration()
Valid(m, stored, current) ==
  \/ stored = current
  \/ stored = Null /\ m <= NLegacy /\ current = Accepted[m]

Advance(r) == /\ Goto(r, "read") /\ at' = [at EXCEPT ![r] = @ + 1]
              /\ UNCHANGED <<lock, source>>

Read(r) ==
  LET m == at[r] IN
  /\ pc[r] = "read"
  /\ \/ ~More(r) /\ End(r)
     \/ /\ More(r) /\ record[m] = None
        /\ Goto(r, "run") /\ UNCHANGED <<lock, at, source>>
     \/ /\ More(r) /\ record[m] # None /\ Valid(m, record[m], source[r][m])
        /\ \/ record[m] = Null /\ Goto(r, "adopt") /\ UNCHANGED <<lock, at, source>>
           \/ record[m] # Null /\ Advance(r)
     \/ /\ More(r) /\ record[m] # None /\ ~Valid(m, record[m], source[r][m])
        /\ End(r)
  /\ UNCHANGED <<record, ran>>

\* UPDATE ... WHERE sha256 IS NULL; its answer arrives or not.
Adopt(r) ==
  /\ pc[r] = "adopt"
  /\ record' = [record EXCEPT ![at[r]] = IF @ = Null THEN source[r][at[r]] ELSE @]
  /\ Advance(r) \/ End(r)
  /\ UNCHANGED ran

\* Faulty variant of Applied: no transaction; a runner can die between file and record.
AppliedOutside(r) ==
  /\ record[at[r]] = None
  /\ record' \in {record, [record EXCEPT ![at[r]] = source[r][at[r]]]}
  /\ ran' = [ran EXCEPT ![at[r]] = IF @ = None THEN source[r][at[r]] ELSE "twice"]

\* The file and its record, as of COMMIT.  The key of the table admits one record.
Applied(r) ==
  /\ record[at[r]] = None
  /\ record' = [record EXCEPT ![at[r]] = source[r][at[r]]]
  /\ ran' = [ran EXCEPT ![at[r]] = IF @ = None THEN source[r][at[r]] ELSE "twice"]

\* BEGIN; the SQL; INSERT; COMMIT, whose answer arrives or not.
Run(r) ==
  /\ pc[r] = "run" /\ Applied(r)
  /\ Advance(r) \/ End(r)

\* Nothing of an open transaction stays.
Fail(r) == pc[r] # "off" /\ End(r) /\ UNCHANGED <<record, ran>>

Step(r) == TryLock(r) \/ Read(r) \/ Adopt(r) \/ Run(r)

Next == \E r \in Runner : Start(r) \/ Step(r) \/ Fail(r)

Spec == Init /\ [][Next]_vars

\* Statements are answered, or their connection breaks.  The runner sets no timeout: a
\* statement that waits for locks of the running service ends when the service's do.
FairSpec == Spec /\ \A r \in Runner : WF_vars(Step(r))

-----------------------------------------------------------------------------
(* Properties *)

TypeOK ==
  /\ record \in [Migration -> Digest \cup {None, Null}]
  /\ ran \in [Migration -> Digest \cup {None, "twice"}]
  /\ lock \in Runner \cup {None}
  /\ pc \in [Runner -> {"off", "lock", "read", "adopt", "run"}]
  /\ at \in [Runner -> 1..(N + 1)]
  /\ source \in [Runner -> Source]
  /\ \A r \in Runner : (lock = r) = (pc[r] \in {"read", "adopt", "run"})

\* The records tell what the schema is: every migration has been applied exactly once if
\* it is recorded and not at all if it is not, in order without a gap, and a checksum is
\* that of the bytes applied, or the accepted one of a file the earlier runner applied.
\* It holds whatever crashes, and whichever runners meet.
RecordsTellTheSchema ==
  \A m \in Migration :
    /\ ran[m] # "twice"
    /\ (record[m] = None) = (ran[m] = None)
    /\ record[m] # None => \A n \in 1..m : record[n] # None
    /\ record[m] \in Digest =>
         record[m] = ran[m] \/ (m <= NLegacy /\ record[m] = Accepted[m])

\* What README says of the gate: a runner applies nothing before each earlier file of
\* its list is known to be the one recorded.
GateComesFirst ==
  [][\A r \in Runner : pc[r] = "run" /\ ran' # ran =>
       \A m \in 1..(at[r] - 1) : record[m] = source[r][m]]_vars

\* Whatever runners meet, edit or crash, the schema has one history, in which nothing that
\* was applied or recorded is ever changed or taken back.
History == INSTANCE SchemaHistory
OneHistory == History!Spec

\* The lock does not outlive its runner's work, whatever the runner finds: others get
\* their turn.
LockIsReleased == \A r \in Runner : lock = r ~> lock # r
=============================================================================
