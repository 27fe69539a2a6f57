-------------------------- MODULE MigrationsProofs --------------------------
(***************************************************************************)
(* Proofs about Migrations, for any number of runners and migrations and   *)
(* any checksums.                                                          *)
(***************************************************************************)
EXTENDS Migrations, TLAPS

Holds == {"read", "adopt", "run"}

\* What a runner knows: at first nothing; with the lock, the files before the one it is at are recorded as
\* it has them, and the record it fills in is the one it has checked.
Knows(r) ==
  /\ pc[r] \notin Holds => at[r] = 1
  /\ pc[r] \in Holds =>
       \A m \in Migration : m < at[r] => source[r][m] # None /\ record[m] = source[r][m]
  /\ pc[r] \in {"adopt", "run"} => More(r)
  /\ pc[r] = "adopt" => /\ at[r] <= NLegacy /\ source[r][at[r]] = Accepted[at[r]]
                        /\ record[at[r]] = Null

Inv == TypeOK /\ RecordsTellTheSchema /\ \A r \in Runner : Knows(r)

-----------------------------------------------------------------------------
(* The steps of a runner *)

LEMMA InitInv == Init => Inv
<1> SUFFICES ASSUME Init PROVE Inv
  OBVIOUS
<1> USE MigrationsAssumption DEF Init, Migration
<1>1. PICK k \in 0..NLegacy :
        /\ record = [m \in Migration |-> IF m <= k THEN Null ELSE None]
        /\ ran \in {f \in [Migration -> Digest \cup {None}] :
                      \A m \in Migration : (f[m] = None) = (m > k)}
  OBVIOUS
<1>2. [m \in Migration |-> None] \in Source
  BY DEF Source
<1>3. TypeOK
  BY <1>1, <1>2 DEF TypeOK
<1>4. RecordsTellTheSchema
  BY <1>1 DEF RecordsTellTheSchema
<1>5. \A r \in Runner : Knows(r)
  BY DEF Knows, Holds
<1> QED
  BY <1>3, <1>4, <1>5 DEF Inv

\* A session that ends keeps the invariant, whatever it leaves; only the runner with
\* the lock may have written.
LEMMA EndInv ==
  ASSUME Inv, NEW r \in Runner, End(r), RecordsTellTheSchema',
         record' \in [Migration -> Digest \cup {None, Null}],
         ran' \in [Migration -> Digest \cup {None, "twice"}],
         record' = record \/ pc[r] \in Holds
  PROVE  Inv'
<1> USE MigrationsAssumption DEF Migration
<1>1. [m \in Migration |-> None] \in Source
  BY DEF Source
<1>2. TypeOK'
  BY <1>1 DEF Inv, TypeOK, End, Goto
<1>3. \A s \in Runner : Knows(s)'
  <2> SUFFICES ASSUME NEW s \in Runner PROVE Knows(s)'
    OBVIOUS
  <2>1. CASE s = r
    BY <2>1 DEF Inv, TypeOK, Knows, Holds, End, Goto
  <2>2. CASE s # r
    BY <2>2 DEF Inv, TypeOK, Knows, Holds, More, End, Goto
  <2> QED
    BY <2>1, <2>2
<1> QED
  BY <1>2, <1>3 DEF Inv

\* ... in particular one that leaves nothing.
LEMMA QuitInv ==
  ASSUME Inv, NEW r \in Runner, End(r), UNCHANGED <<record, ran>>
  PROVE  Inv'
<1>1. RecordsTellTheSchema'
  BY DEF Inv, RecordsTellTheSchema
<1> QED
  BY <1>1, EndInv DEF Inv, TypeOK

LEMMA StartInv ==
  ASSUME Inv, NEW r \in Runner, Start(r)
  PROVE  Inv'
<1> USE MigrationsAssumption DEF Migration
<1>1. TypeOK'
  BY DEF Inv, TypeOK, Start, Goto
<1>2. RecordsTellTheSchema'
  BY DEF Inv, RecordsTellTheSchema, Start
<1>3. \A s \in Runner : Knows(s)'
  BY DEF Inv, TypeOK, Knows, Holds, More, Start, Goto
<1> QED
  BY <1>1, <1>2, <1>3 DEF Inv

\* The lock is taken by nobody else, and nothing is behind the runner yet.
LEMMA TryLockInv ==
  ASSUME Inv, NEW r \in Runner, TryLock(r)
  PROVE  Inv'
<1> USE MigrationsAssumption DEF Migration
<1>1. CASE lock # None /\ End(r)
  BY <1>1, QuitInv DEF TryLock
<1>2. CASE lock = None /\ lock' = r /\ Goto(r, "read") /\ UNCHANGED <<at, source>>
  <2>1. TypeOK'
    BY <1>2 DEF Inv, TypeOK, TryLock, Goto
  <2>2. RecordsTellTheSchema'
    BY DEF Inv, RecordsTellTheSchema, TryLock
  <2>3. \A s \in Runner : Knows(s)'
    BY <1>2 DEF Inv, TypeOK, Knows, Holds, More, TryLock, Goto
  <2> QED
    BY <2>1, <2>2, <2>3 DEF Inv
<1> QED
  BY <1>1, <1>2 DEF TryLock

\* The runner has dealt with a file, which is recorded as it has it, and goes on.
LEMMA AdvanceInv ==
  ASSUME TypeOK, RecordsTellTheSchema', NEW r \in Runner, Advance(r),
         pc[r] \in Holds, More(r), record'[at[r]] = source[r][at[r]],
         record' \in [Migration -> Digest \cup {None, Null}],
         ran' \in [Migration -> Digest \cup {None, "twice"}],
         \A m \in Migration : m # at[r] => record'[m] = record[m],
         \A s \in Runner : Knows(s)
  PROVE  Inv'
<1> USE MigrationsAssumption DEF Migration
<1>1. TypeOK'
  BY DEF TypeOK, Advance, Goto, More, Holds
<1>2. \A s \in Runner : Knows(s)'
  <2> SUFFICES ASSUME NEW s \in Runner PROVE Knows(s)'
    OBVIOUS
  <2>1. CASE s = r
    <3>1. pc'[r] = "read" /\ at'[r] = at[r] + 1 /\ source' = source
      BY DEF TypeOK, Advance, Goto
    <3>2. ASSUME NEW m \in Migration, m < at'[r]
          PROVE  source'[r][m] # None /\ record'[m] = source'[r][m]
      <4>1. CASE m = at[r]
        BY <3>1, <4>1 DEF More
      <4>2. CASE m # at[r]
        BY <3>1, <3>2, <4>2 DEF Knows, TypeOK
      <4> QED
        BY <4>1, <4>2
    <3> QED
      BY <2>1, <3>1, <3>2 DEF Knows, Holds
  <2>2. CASE s # r
    <3>1. pc[s] \notin Holds
      BY <2>2 DEF TypeOK, Holds
    <3> QED
      BY <2>2, <3>1 DEF TypeOK, Knows, Holds, More, Advance, Goto
  <2> QED
    BY <2>1, <2>2
<1> QED
  BY <1>1, <1>2 DEF Inv

\* The runner turns from one step to another about the same file.
LEMMA TurnInv ==
  ASSUME Inv, NEW r \in Runner, NEW label \in {"adopt", "run"}, Goto(r, label),
         UNCHANGED <<record, ran, lock, at, source>>, pc[r] \in Holds, More(r),
         label = "adopt" => /\ at[r] <= NLegacy /\ source[r][at[r]] = Accepted[at[r]]
                            /\ record[at[r]] = Null
  PROVE  Inv'
<1> USE MigrationsAssumption DEF Migration
<1>1. TypeOK'
  BY DEF Inv, TypeOK, Goto, Holds
<1>2. RecordsTellTheSchema'
  BY DEF Inv, RecordsTellTheSchema
<1>3. \A s \in Runner : Knows(s)'
  <2> SUFFICES ASSUME NEW s \in Runner PROVE Knows(s)'
    OBVIOUS
  <2>1. CASE s = r
    BY <2>1 DEF Inv, TypeOK, Knows, Holds, More, Goto
  <2>2. CASE s # r
    BY <2>2 DEF Inv, TypeOK, Knows, Holds, More, Goto
  <2> QED
    BY <2>1, <2>2
<1> QED
  BY <1>1, <1>2, <1>3 DEF Inv

LEMMA ReadInv ==
  ASSUME Inv, NEW r \in Runner, Read(r)
  PROVE  Inv'
<1> USE DEF Read
<1>1. CASE End(r)
  BY <1>1, QuitInv
<1>2. CASE More(r) /\ Goto(r, "run") /\ UNCHANGED <<lock, at, source>>
  BY <1>2, TurnInv DEF Holds
<1>3. CASE More(r) /\ Goto(r, "adopt") /\ UNCHANGED <<lock, at, source>>
           /\ Valid(at[r], record[at[r]], source[r][at[r]]) /\ record[at[r]] = Null
  <2>1. source[r][at[r]] # Null
    BY <1>3, MigrationsAssumption DEF Inv, TypeOK, More, Source, Migration
  <2>2. at[r] <= NLegacy /\ source[r][at[r]] = Accepted[at[r]]
    BY <1>3, <2>1 DEF Valid
  <2> QED
    BY <1>3, <2>2, TurnInv DEF Holds
<1>4. CASE More(r) /\ Valid(at[r], record[at[r]], source[r][at[r]])
           /\ record[at[r]] # Null /\ Advance(r)
  <2>1. record[at[r]] = source[r][at[r]]
    BY <1>4 DEF Valid
  <2>2. RecordsTellTheSchema'
    BY DEF Inv, RecordsTellTheSchema
  <2> QED
    BY <1>4, <2>1, <2>2, AdvanceInv DEF Inv, TypeOK, Holds
<1> QED
  BY <1>1, <1>2, <1>3, <1>4

\* A checksum is filled in only where the accepted file stands.
LEMMA AdoptInv ==
  ASSUME Inv, NEW r \in Runner, Adopt(r)
  PROVE  Inv'
<1> USE MigrationsAssumption DEF Migration
<1>1. /\ pc[r] \in Holds /\ More(r) /\ at[r] \in Migration /\ at[r] <= NLegacy
      /\ source[r][at[r]] = Accepted[at[r]] /\ Accepted[at[r]] \in Digest
  BY DEF Inv, TypeOK, Adopt, Holds, Knows, More
<1>2. /\ record' \in [Migration -> Digest \cup {None, Null}]
      /\ record'[at[r]] = source[r][at[r]]
      /\ \A m \in Migration : m # at[r] => record'[m] = record[m]
  <2>1. record[at[r]] = Null
    BY <1>1 DEF Inv, Adopt, Knows
  <2> QED
    BY <1>1, <2>1 DEF Inv, TypeOK, Adopt
<1>3. RecordsTellTheSchema'
  BY <1>1, <1>2 DEF Inv, TypeOK, RecordsTellTheSchema, Adopt
<1> QED
  BY <1>1, <1>2, <1>3, AdvanceInv, EndInv DEF Inv, TypeOK, Adopt

\* A migration takes effect and is recorded at once, after those before it.
LEMMA RunInv ==
  ASSUME Inv, NEW r \in Runner, Run(r)
  PROVE  Inv'
<1> USE MigrationsAssumption DEF Migration
<1>1. /\ pc[r] \in Holds /\ More(r) /\ at[r] \in Migration /\ record[at[r]] = None
      /\ source[r][at[r]] \in Digest
  BY DEF Inv, TypeOK, Run, Applied, Holds, Knows, More, Source
<1>2. /\ record' = [record EXCEPT ![at[r]] = source[r][at[r]]]
      /\ ran' = [ran EXCEPT ![at[r]] = source[r][at[r]]]
  BY <1>1 DEF Inv, TypeOK, RecordsTellTheSchema, Run, Applied
<1>3. RecordsTellTheSchema'
  <2>1. \A m \in Migration : m < at[r] => record[m] # None
    BY <1>1 DEF Inv, Knows
  <2> SUFFICES ASSUME NEW m \in Migration
               PROVE  /\ ran'[m] # "twice"
                      /\ (record'[m] = None) = (ran'[m] = None)
                      /\ record'[m] # None => \A n \in 1..m : record'[n] # None
                      /\ record'[m] \in Digest =>
                           record'[m] = ran'[m] \/ (m <= NLegacy /\ record'[m] = Accepted[m])
    BY DEF RecordsTellTheSchema
  <2>2. CASE m = at[r]
    BY <1>1, <1>2, <2>1, <2>2 DEF Inv, TypeOK
  <2>3. CASE m # at[r]
    BY <1>1, <1>2, <2>3 DEF Inv, TypeOK, RecordsTellTheSchema
  <2> QED
    BY <2>2, <2>3
<1> QED
  BY <1>1, <1>2, <1>3, AdvanceInv, EndInv DEF Inv, TypeOK, Run

LEMMA NextInv == Inv /\ [Next]_vars => Inv'
<1> SUFFICES ASSUME Inv, [Next]_vars PROVE Inv'
  OBVIOUS
<1>1. CASE UNCHANGED vars
  BY <1>1 DEF Inv, TypeOK, RecordsTellTheSchema, Knows, More, vars
<1>2. ASSUME NEW r \in Runner, Start(r) \/ Step(r) \/ Fail(r) PROVE Inv'
  BY <1>2, StartInv, TryLockInv, ReadInv, AdoptInv, RunInv, QuitInv DEF Step, Fail
<1> QED
  BY <1>1, <1>2 DEF Next

-----------------------------------------------------------------------------
(* The theorems *)

THEOREM Invariance == Spec => []Inv
BY InitInv, NextInv, PTL DEF Spec

\* Every variable keeps its type, and exactly the runner past the lock holds it.
THEOREM TypeCorrect == Spec => []TypeOK
<1>1. Inv => TypeOK
  BY DEF Inv
<1> QED
  BY <1>1, Invariance, PTL

\* The records of lists_schema_migrations tell what the schema is: each migration applied
\* once if recorded and not at all otherwise, without a gap, with its checksum.
THEOREM RecordsAreTrue == Spec => []RecordsTellTheSchema
<1>1. Inv => RecordsTellTheSchema
  BY DEF Inv
<1> QED
  BY <1>1, Invariance, PTL

\* No file takes effect before all earlier ones of its list are recorded as they are.
THEOREM GateFirst == Spec => GateComesFirst
<1>1. Inv /\ [Next]_vars =>
        [\A r \in Runner : pc[r] = "run" /\ ran' # ran =>
           \A m \in 1..(at[r] - 1) : record[m] = source[r][m]]_vars
  <2> SUFFICES ASSUME Inv, NEW r \in Runner, pc[r] = "run", NEW m \in 1..(at[r] - 1)
               PROVE  record[m] = source[r][m]
    BY DEF Holds
  <2>1. at[r] \in 1..(N + 1)
    BY DEF Inv, TypeOK
  <2>2. m \in Migration /\ m < at[r]
    BY <2>1, MigrationsAssumption DEF Migration
  <2> QED
    BY <2>2 DEF Inv, Knows, Holds
<1> QED
  BY <1>1, Invariance, PTL DEF Spec, GateComesFirst

-----------------------------------------------------------------------------
(* The refinement of the history *)

\* A runner at a file knows those before it by their checksums.
LEMMA KnownAt ==
  ASSUME Inv, NEW r \in Runner, pc[r] \in Holds, NEW m \in Migration, m = at[r]
  PROVE  History!KnownBefore(m)
<1> SUFFICES ASSUME NEW n \in Migration, n < m PROVE record[n] \in Digest
  BY DEF History!KnownBefore, History!Migration, Migration
<1>1. source[r][n] # None /\ record[n] = source[r][n]
  BY DEF Inv, Knows
<1>2. source[r] \in [Migration -> Digest \cup {None}]
  BY DEF Inv, TypeOK, Source
<1> QED
  BY <1>1, <1>2

LEMMA RunStep ==
  ASSUME Inv, NEW r \in Runner, Run(r)
  PROVE  History!Next
<1> USE MigrationsAssumption DEF Migration, History!Migration
<1>1. PICK m \in Migration : m = at[r]
  BY DEF Inv, TypeOK, Run, Knows, Holds, More
<1>2. PICK d \in Digest : d = source[r][m]
  BY <1>1 DEF Inv, TypeOK, Run, Knows, Holds, More, Source
<1>3. record[m] = None /\ ran[m] = None
  BY <1>1 DEF Inv, RecordsTellTheSchema, Run, Applied
<1>4. History!KnownBefore(m)
  BY <1>1, KnownAt DEF Run, Holds
<1>5. record' = [record EXCEPT ![m] = d] /\ ran' = [ran EXCEPT ![m] = d]
  BY <1>1, <1>2, <1>3 DEF Run, Applied, Inv, TypeOK
<1>6. History!Continue(m)
  BY <1>3, <1>4, <1>5 DEF History!Continue
<1> QED
  BY <1>6 DEF History!Next

LEMMA AdoptStep ==
  ASSUME Inv, NEW r \in Runner, Adopt(r)
  PROVE  History!Next
<1> USE MigrationsAssumption DEF Migration, History!Migration
<1>1. PICK m \in Migration : m = at[r]
  BY DEF Inv, TypeOK, Adopt, Knows, Holds, More
<1>2. record[m] = Null /\ m <= NLegacy /\ source[r][m] = Accepted[m]
  BY <1>1 DEF Inv, Adopt, Knows
<1>3. History!KnownBefore(m)
  BY <1>1, KnownAt DEF Adopt, Holds
<1>4. record' = [record EXCEPT ![m] = Accepted[m]] /\ UNCHANGED ran
  BY <1>1, <1>2 DEF Adopt, Inv, TypeOK
<1>5. History!Recognise(m)
  BY <1>2, <1>3, <1>4 DEF History!Recognise
<1> QED
  BY <1>5 DEF History!Next

LEMMA HistoryStep == Inv /\ [Next]_vars => [History!Next]_(History!vars)
<1> SUFFICES ASSUME Inv, [Next]_vars
             PROVE  History!Next \/ UNCHANGED <<record, ran>>
  BY DEF History!vars
<1>1. CASE UNCHANGED vars
  BY <1>1 DEF vars
<1>2. ASSUME NEW r \in Runner, Start(r) \/ Step(r) \/ Fail(r)
      PROVE  History!Next \/ UNCHANGED <<record, ran>>
  BY <1>2, RunStep, AdoptStep DEF Start, Step, TryLock, Read, Fail
<1> QED
  BY <1>1, <1>2 DEF Next

\* Runners that lock, check, run and crash implement one history of the schema that is
\* only ever continued.
THEOREM RunnersWriteOneHistory == Spec => OneHistory
<1>1. Init => History!Init
  BY DEF Init, History!Init, Migration, History!Migration
<1> QED
  BY <1>1, HistoryStep, Invariance, PTL DEF Spec, OneHistory, History!Spec
=============================================================================
