---------------------- MODULE TodoistConnectionsProofs ----------------------
(***************************************************************************)
(* Proofs about TodoistConnections, for any requests, tokens and bounds.   *)
(***************************************************************************)
EXTENDS TodoistConnections, TLAPS

\* Labels of a request that has no credential, that resolves its project, that found none.
Bare      == {"idle", "catalogue", "status", "write", "flag"}
Resolving == {"search", "searching", "create", "creating"}
Missing   == {"create", "creating"}

\* A write is of somebody who has seen a settings page; an attempt has a credential, and
\* a resolution has read the flag.
ControlOK ==
  \A r \in Request :
    /\ pc[r] # "idle" /\ op[r] \in Writes => seen[r] # NoView
    /\ pc[r] = "write" => op[r] \in Writes
    /\ Attempting(r) \/ pc[r] = "create" => held[r] # NoCredential
    /\ pc[r] \in Bare => held[r] = NoCredential
    /\ pc[r] \in Resolving => flag[r] # NoView
    /\ pc[r] \in Missing => ~Replaced(flag[r])

\* Nobody has seen a version that is still to come.
PastOK ==
  \A r \in Request :
    /\ seen[r] # NoView => seen[r].version <= version
    /\ flag[r] # NoView => flag[r].version <= version
    /\ held[r] # NoCredential => held[r].version <= version

\* A flag of the current version tells of the current content.
FlagOK ==
  \A r \in Request :
    flag[r] # NoView /\ flag[r].version = version => flag[r].shows = Shows(override)

\* What a resolution knows: credentials without a project had none when it read the flag;
\* it has searched after that, and with a credential that had none, unless a save has
\* overtaken it; and it creates with a replacement only if one has.
ResolvingOK ==
  \A r \in Request :
    /\ pc[r] \in Resolving => \A c \in Credential : projects[c] = 0 => c \in empty[r]
    /\ pc[r] \in Resolving \ {"search"} => flag[r].version <= held[r].version
    /\ pc[r] \in Missing => held[r].token \in empty[r] \/ flag[r].version < held[r].version
    /\ pc[r] = "creating" /\ held[r].token \in Token => flag[r].version < held[r].version

Inv == TypeOK /\ ControlOK /\ PastOK /\ VersionNamesContent /\ FlagOK /\ NoResurrection
       /\ ResolvingOK

Attempts == [token : Credential, version : 0..MaxVersion]

-----------------------------------------------------------------------------
(* Steps *)

LEMMA InitInv == Init => Inv
BY ConnectionAssumption
   DEF Init, Inv, TypeOK, ControlOK, PastOK, VersionNamesContent, NoResurrection, Credential,
       Attempting, FlagOK, ResolvingOK, Bare, Resolving, Missing

\* Steps that leave the row and what was seen of it alone, and at most forget a credential
\* or a flag.
LEMMA QuietInv ==
  ASSUME Inv, TypeOK', ControlOK', ResolvingOK', UNCHANGED <<row, seen>>,
         \A r \in Request : held'[r] \in {held[r], NoCredential} /\ flag'[r] \in {flag[r], NoView}
  PROVE  Inv'
<1>1. PastOK'
  BY DEF Inv, PastOK, row
<1>2. VersionNamesContent' /\ FlagOK'
  BY DEF Inv, VersionNamesContent, FlagOK, row
<1>3. NoResurrection'
  BY DEF Inv, NoResurrection
<1> QED
  BY <1>1, <1>2, <1>3 DEF Inv

LEMMA BeginInv ==
  ASSUME Inv, NEW r \in Request, Begin(r)
  PROVE  Inv'
<1>1. TypeOK'
  BY DEF Inv, TypeOK, Begin, Goto, row
<1>2. ControlOK'
  BY DEF Inv, TypeOK, ControlOK, Begin, Goto, Attempting, row, Bare, Resolving, Missing
<1>3. ResolvingOK'
  BY DEF Inv, TypeOK, ResolvingOK, Begin, Goto, Resolving, Missing
<1> QED
  BY <1>1, <1>2, <1>3, QuietInv DEF Inv, TypeOK, Begin

LEMMA LoadCatalogueInv ==
  ASSUME Inv, NEW r \in Request, LoadCatalogue(r)
  PROVE  Inv'
BY QuietInv DEF Inv, TypeOK, ControlOK, ResolvingOK, LoadCatalogue, Attempting, row

\* An answer is the end of a request.
LEMMA AnswerInv ==
  ASSUME Inv, NEW r \in Request, Answer(r), UNCHANGED <<row, seen, keyed, cache, projects>>
  PROVE  Inv'
<1>1. TypeOK'
  BY ConnectionAssumption DEF Inv, TypeOK, Answer, Goto, row
<1>2. ControlOK'
  BY DEF Inv, TypeOK, ControlOK, Answer, Goto, Attempting, Bare, Resolving, Missing
<1>3. ResolvingOK'
  BY DEF Inv, TypeOK, ResolvingOK, Answer, Goto, Resolving, Missing
<1> QED
  BY <1>1, <1>2, <1>3, QuietInv DEF Inv, TypeOK, Answer

\* So is a step to a label that is no attempt: no write unless of a writer, no creation
\* unless nothing was found.
LEMMA GotoInv ==
  ASSUME Inv, NEW r \in Request, pc[r] # "idle",
         NEW label \in {"status", "write", "flag", "search", "create", "ready"},
         Goto(r, label), label = "write" => op[r] \in Writes,
         label \in Bare => pc[r] \in Bare,
         label = "search" => pc[r] = "searching",
         label = "create" => /\ pc[r] = "searching" /\ ~Replaced(flag[r])
                             /\ projects[held[r].token] = 0,
         UNCHANGED <<row, seen, keyed, cache, projects, op, flag, held, empty>>
  PROVE  Inv'
<1>1. TypeOK'
  BY DEF Inv, TypeOK, Goto, row
<1>2. ControlOK'
  BY DEF Inv, TypeOK, ControlOK, Goto, Attempting, Bare, Resolving, Missing
<1>3. ResolvingOK'
  <2> SUFFICES ASSUME NEW s \in Request, pc'[s] # pc[s], label \in Resolving
               PROVE  /\ \A c \in Credential : projects[c] = 0 => c \in empty[s]
                      /\ label = "create" => /\ flag[s].version <= held[s].version
                                             /\ held[s].token \in empty[s]
    BY DEF Inv, TypeOK, ResolvingOK, Goto, Resolving, Missing
  <2>1. s = r /\ pc[r] = "searching"
    BY DEF Inv, TypeOK, Goto, Resolving
  <2>2. held[r] \in Attempts
    BY <2>1 DEF Inv, TypeOK, ControlOK, Attempting, Attempts
  <2> QED
    BY <2>1, <2>2 DEF Inv, ResolvingOK, Resolving, Attempts
<1> QED
  BY <1>1, <1>2, <1>3, QuietInv

LEMMA EnterInv ==
  ASSUME Inv, NEW r \in Request, Enter(r)
  PROVE  Inv'
BY AnswerInv, GotoInv DEF Enter, Continue, Bare, Inv, TypeOK

LEMMA SearchedInv ==
  ASSUME Inv, NEW r \in Request, Searched(r) \/ SearchFails(r)
  PROVE  Inv'
BY AnswerInv, GotoInv DEF Searched, SearchFails, Continue, Bare, Inv, TypeOK

LEMMA UseInv ==
  ASSUME Inv, NEW r \in Request, Use(r)
  PROVE  Inv'
BY GotoInv DEF Use, Bare, Inv, TypeOK

\* Projects only become more.
LEMMA CreateInv ==
  ASSUME Inv, NEW r \in Request, Create(r)
  PROVE  Inv'
<1>1. held[r] \in Attempts
  BY DEF Inv, TypeOK, ControlOK, Attempting, Create, Attempts
<1>2. projects' \in [Credential -> 0..MaxProjects]
  BY <1>1, ConnectionAssumption DEF Inv, TypeOK, Create, Attempts
<1>3. TypeOK'
  BY <1>2, ConnectionAssumption DEF Inv, TypeOK, Create, Continue, Answer, Goto, row
<1>4. ControlOK'
  BY DEF Inv, TypeOK, ControlOK, Create, Continue, Answer, Goto, Attempting, Bare, Resolving,
         Missing
<1>5. \A c \in Credential : projects'[c] = 0 => projects[c] = 0
  BY <1>1, ConnectionAssumption DEF Inv, TypeOK, Create, Attempts
<1>6. ResolvingOK'
  BY <1>5 DEF Inv, TypeOK, ResolvingOK, Create, Continue, Answer, Goto, Resolving, Missing
<1> QED
  BY <1>3, <1>4, <1>6, QuietInv DEF Create, Continue, Answer, Inv, TypeOK

LEMMA RestartInv ==
  ASSUME Inv, Restart
  PROVE  Inv'
<1>1. TypeOK'
  BY DEF Inv, TypeOK, Restart, row
<1>2. ControlOK'
  BY DEF Inv, TypeOK, ControlOK, Restart, Attempting, Bare, Resolving, Missing
<1>3. ResolvingOK'
  BY DEF Restart, ResolvingOK, Resolving, Missing
<1> QED
  BY <1>1, <1>2, <1>3, QuietInv DEF Restart

-----------------------------------------------------------------------------
(* Reading and writing the row *)

LEMMA ViewType == Inv => View \in Status /\ View # NoView
BY ConnectionAssumption DEF Inv, TypeOK, Status, Shows, View

LEMMA ReadStatusInv ==
  ASSUME Inv, NEW r \in Request, ReadStatus(r)
  PROVE  Inv'
<1>1. View \in Status /\ View # NoView
  BY ViewType
<1>2. seen' = [seen EXCEPT ![r] = View] /\ UNCHANGED row
  BY DEF ReadStatus
<1>3. TypeOK'
  BY <1>1, <1>2, ConnectionAssumption DEF Inv, TypeOK, ReadStatus, Answer, Goto, row
<1>4. ControlOK'
  BY <1>1, <1>2 DEF Inv, TypeOK, ControlOK, ReadStatus, Answer, Goto, Attempting, Bare,
                    Resolving, Missing
<1>5. \A s \in Request : /\ seen'[s] \in {seen[s], View} /\ held'[s] \in {held[s], NoCredential}
                         /\ flag'[s] \in {flag[s], NoView}
  BY <1>2 DEF Inv, TypeOK, ReadStatus, Answer
<1>6. PastOK'
  BY <1>2, <1>5, ConnectionAssumption DEF Inv, TypeOK, PastOK, row, View
<1>7. VersionNamesContent' /\ FlagOK'
  BY <1>2, <1>5 DEF Inv, VersionNamesContent, FlagOK, row, View
<1>8. NoResurrection'
  BY <1>5 DEF Inv, NoResurrection
<1>9. ResolvingOK'
  BY DEF Inv, TypeOK, ResolvingOK, ReadStatus, Answer, Goto, Resolving, Missing
<1> QED
  BY <1>3, <1>4, <1>6, <1>7, <1>8, <1>9 DEF Inv

LEMMA ReadFlagInv ==
  ASSUME Inv, NEW r \in Request, ReadFlag(r)
  PROVE  Inv'
<1>1. View \in Status /\ View # NoView
  BY ViewType
<1>2. flag' = [flag EXCEPT ![r] = View] /\ UNCHANGED <<row, seen, held>>
  BY DEF ReadFlag
<1>3. TypeOK'
  BY <1>1, <1>2 DEF Inv, TypeOK, ReadFlag, Goto, row
<1>4. ControlOK'
  BY <1>1, <1>2 DEF Inv, TypeOK, ControlOK, ReadFlag, Goto, Attempting, Bare, Resolving, Missing
<1>5. \A s \in Request : flag'[s] \in {flag[s], View}
  BY <1>2 DEF Inv, TypeOK
<1>6. PastOK'
  BY <1>2, <1>5, ConnectionAssumption DEF Inv, TypeOK, PastOK, row, View
<1>7. VersionNamesContent' /\ FlagOK' /\ NoResurrection'
  BY <1>2, <1>5 DEF Inv, VersionNamesContent, FlagOK, NoResurrection, row, View
<1>8. ResolvingOK'
  BY DEF Inv, TypeOK, ResolvingOK, ReadFlag, Goto, Resolving, Missing
<1> QED
  BY <1>3, <1>4, <1>6, <1>7, <1>8 DEF Inv

\* What matches the version is a view of the current content.
LEMMA MatchIsCurrent ==
  ASSUME Inv, NEW r \in Request, pc[r] = "write", Matches(seen[r].version)
  PROVE  seen[r] # NoView /\ seen[r] = View
<1>1. seen[r] # NoView
  BY DEF Inv, ControlOK
<1>2. seen[r].version = version
  BY <1>1, ConnectionAssumption DEF Matches, Inv, TypeOK, Status
<1>3. seen[r].shows = Shows(override)
  BY <1>1, <1>2 DEF Inv, VersionNamesContent
<1> QED
  BY <1>1, <1>2, <1>3 DEF Inv, TypeOK, Status, View

\* A write that takes effect.
LEMMA WriteFacts ==
  ASSUME Inv, NEW r \in Request, Write(r), Matches(seen[r].version)
  PROVE  /\ version \in Nat /\ version < MaxVersion /\ version' = version + 1
         /\ override' \in Token \cup {Tombstone}
         /\ UNCHANGED <<seen, held>> /\ pc'[r] \in {"status", "idle"}
         /\ \A s \in Request : flag'[s] \in {flag[s], NoView}
<1>1. held[r] = NoCredential
  BY DEF Write, Inv, ControlOK, Bare
<1>2. UNCHANGED held
  BY <1>1 DEF Write, Continue, Answer, Inv, TypeOK
<1> QED
  BY <1>2, ConnectionAssumption
     DEF Write, NextVersion, Inv, TypeOK, ControlOK, Writes, Continue, Answer, Goto

LEMMA WriteInv ==
  ASSUME Inv, NEW r \in Request, Write(r)
  PROVE  Inv'
<1>1. CASE ~Matches(seen[r].version)
  BY <1>1, AnswerInv DEF Write
<1>2. CASE Matches(seen[r].version)
  <2>1. /\ version < MaxVersion /\ version' = version + 1 /\ UNCHANGED <<seen, held>>
        /\ override' \in Token \cup {Tombstone}
        /\ \A s \in Request : flag'[s] \in {flag[s], NoView}
    BY <1>2, WriteFacts
  <2>2. TypeOK'
    <3>1. /\ override' \in Credential \cup {Tombstone, NoOverride} /\ override' # Server
          /\ version' \in 0..MaxVersion /\ (version' = 0) = (override' = NoOverride)
      BY <2>1, ConnectionAssumption DEF Inv, TypeOK, Credential
    <3>2. /\ pc' \in [Request -> {"idle", "catalogue", "status", "write", "flag", "search",
                                 "searching", "create", "creating", "ready", "using"}]
          /\ op' \in [Request -> Op \cup {"none"}]
          /\ flag' \in [Request -> Status \cup {NoView}]
          /\ empty' \in [Request -> SUBSET Credential]
      BY <1>2 DEF Inv, TypeOK, Write, Continue, Answer, Goto
    <3> QED
      BY <2>1, <3>1, <3>2 DEF Inv, TypeOK, Write
  <2>3. ControlOK'
    BY <1>2, <2>1 DEF Inv, TypeOK, ControlOK, Write, Continue, Answer, Goto, Attempting, Writes,
                      Bare, Resolving, Missing
  <2>4. PastOK'
    BY <2>1, ConnectionAssumption DEF Inv, TypeOK, PastOK, Status
  <2>5. VersionNamesContent' /\ FlagOK'
    BY <2>1, ConnectionAssumption DEF Inv, TypeOK, PastOK, VersionNamesContent, FlagOK, Status
  <2>6. NoResurrection'
    BY <2>1 DEF Inv, NoResurrection
  <2>7. ResolvingOK'
    BY <1>2, <2>1 DEF Inv, TypeOK, ResolvingOK, Write, Continue, Answer, Goto, Resolving, Missing
  <2> QED
    BY <2>2, <2>3, <2>4, <2>5, <2>6, <2>7 DEF Inv
<1> QED
  BY <1>1, <1>2

\* The credential an attempt takes is the current one; the server's only without a row.
LEMMA TakenFacts ==
  ASSUME Inv, NEW r \in Request, StartAttempt(r)
  PROVE  \E taken \in Attempts :
           /\ taken # NoCredential
           /\ taken.token = Effective(override) /\ taken.version = version
           /\ held' = [held EXCEPT ![r] = taken]
           /\ taken.token = Server => version = 0
           /\ taken.token \in Token => override = taken.token
<1> DEFINE taken == [token |-> Effective(override), version |-> version]
<1>1. taken \in Attempts /\ taken # NoCredential
  BY ConnectionAssumption DEF StartAttempt, TakeToken, Usable, Inv, TypeOK, Attempts
<1>2. Effective(override) = Server => version = 0
  BY ConnectionAssumption DEF Effective, Inv, TypeOK
<1>3. Effective(override) \in Token => override = Effective(override)
  BY ConnectionAssumption DEF Effective
<1> QED
  BY <1>1, <1>2, <1>3 DEF StartAttempt, TakeToken

LEMMA StartAttemptInv ==
  ASSUME Inv, NEW r \in Request, StartAttempt(r)
  PROVE  Inv'
<1>1. PICK taken \in Attempts :
        /\ taken # NoCredential
        /\ taken.token = Effective(override) /\ taken.version = version
        /\ held' = [held EXCEPT ![r] = taken]
        /\ taken.token = Server => version = 0
        /\ taken.token \in Token => override = taken.token
  BY TakenFacts
<1>2. PICK label \in {"searching", "creating", "using"} :
        /\ Goto(r, label) /\ UNCHANGED <<row, seen, projects, flag, empty>>
        /\ label = "searching" => pc[r] = "search"
        /\ label = "creating" => pc[r] = "create"
  BY DEF StartAttempt, TakeToken
<1>3. TypeOK'
  BY <1>1, <1>2 DEF Inv, TypeOK, StartAttempt, Goto, row, Attempts
<1>4. ControlOK'
  BY <1>1, <1>2 DEF Inv, TypeOK, ControlOK, StartAttempt, Goto, Attempting, Bare, Resolving,
                    Missing
<1>5. \A s \in Request : held'[s] \in {held[s], taken}
  BY <1>1 DEF Inv, TypeOK
<1>6. PastOK'
  BY <1>1, <1>2, <1>5, ConnectionAssumption DEF Inv, TypeOK, PastOK, row
<1>7. VersionNamesContent' /\ FlagOK'
  BY <1>1, <1>2, <1>5 DEF Inv, VersionNamesContent, FlagOK, row
<1>8. NoResurrection'
  BY <1>1, <1>5 DEF Inv, NoResurrection
<1>9. ResolvingOK'
  <2> SUFFICES ASSUME label \in {"searching", "creating"}
               PROVE  /\ \A c \in Credential : projects[c] = 0 => c \in empty[r]
                      /\ flag[r].version <= taken.version
                      /\ label = "creating" =>
                           /\ taken.token \in empty[r] \/ flag[r].version < taken.version
                           /\ taken.token \in Token => flag[r].version < taken.version
    BY <1>1, <1>2 DEF Inv, TypeOK, ResolvingOK, Goto, Resolving, Missing
  <2>1. /\ pc[r] \in Resolving /\ flag[r] # NoView /\ flag[r] \in Status
        /\ flag[r].version <= version /\ flag[r].version \in Nat /\ version \in Nat
    BY <1>2, ConnectionAssumption DEF Inv, TypeOK, ControlOK, PastOK, Resolving, Status
  <2>2. CASE label = "searching"
    BY <1>1, <2>1, <2>2 DEF Inv, ResolvingOK
  <2>3. CASE label = "creating"
    <3>1. /\ ~Replaced(flag[r]) /\ held[r] # NoCredential /\ held[r] \in Attempts
          /\ held[r].version <= version /\ held[r].version \in Nat
      BY <1>2, <2>3, ConnectionAssumption DEF Inv, TypeOK, ControlOK, PastOK, Missing, Attempts
    <3>2. /\ flag[r].version <= held[r].version
          /\ held[r].token \in empty[r] \/ flag[r].version < held[r].version
      BY <1>2, <2>3 DEF Inv, ResolvingOK, Resolving, Missing
    <3>3. CASE flag[r].version < version
      BY <1>1, <2>1, <3>3 DEF Inv, ResolvingOK
    <3>4. CASE flag[r].version = version
      <4>1. held[r].version = version /\ held[r].token \in empty[r]
        BY <2>1, <3>1, <3>2, <3>4
      <4>2. taken.token = held[r].token
        BY <1>1, <3>1, <4>1 DEF Inv, VersionNamesContent
      <4>3. Shows(override) # "replaced"
        BY <2>1, <3>1, <3>4 DEF Inv, FlagOK, Replaced
      <4>4. taken.token \notin Token
        BY <1>1, <4>3, ConnectionAssumption DEF Shows, Credential
      <4> QED
        BY <1>1, <2>1, <4>1, <4>2, <4>4, <3>4 DEF Inv, ResolvingOK
    <3> QED
      BY <2>1, <3>3, <3>4
  <2> QED
    BY <2>2, <2>3
<1> QED
  BY <1>3, <1>4, <1>6, <1>7, <1>8, <1>9 DEF Inv

LEMMA NextInv == Inv /\ [Next]_vars => Inv'
<1> SUFFICES ASSUME Inv, [Next]_vars PROVE Inv'
  OBVIOUS
<1>1. CASE UNCHANGED vars
  BY <1>1 DEF Inv, TypeOK, ControlOK, PastOK, VersionNamesContent, NoResurrection, Attempting,
              FlagOK, ResolvingOK, View, vars, row
<1>2. CASE Restart
  BY <1>2, RestartInv
<1>3. ASSUME NEW r \in Request, Begin(r) \/ Step(r) PROVE Inv'
  <2>1. CASE StatementFails(r) \/ TokenRefused(r) \/ CreateFails(r) \/ Leave(r)
    BY <2>1, AnswerInv DEF StatementFails, TokenRefused, CreateFails, Leave
  <2> QED
    BY <1>3, <2>1, BeginInv, LoadCatalogueInv, EnterInv, ReadStatusInv, WriteInv, ReadFlagInv,
       StartAttemptInv, SearchedInv, CreateInv, UseInv DEF Step
<1> QED
  BY <1>1, <1>2, <1>3 DEF Next

-----------------------------------------------------------------------------
(* The theorems *)

THEOREM Invariance == Spec => []Inv
BY InitInv, NextInv, PTL DEF Spec

\* Every variable keeps its type, and a version is 0 exactly without a row.
THEOREM TypeCorrect == Spec => []TypeOK
<1>1. Inv => TypeOK
  BY DEF Inv
<1> QED
  BY <1>1, Invariance, PTL

\* Two readers of one version of a connection have read the same.
THEOREM VersionsNameContents == Spec => []VersionNamesContent
<1>1. Inv => VersionNamesContent
  BY DEF Inv
<1> QED
  BY <1>1, Invariance, PTL

\* No attempt uses the server's token after a replacement or a disconnection, whatever
\* processes restart with or without the key.
THEOREM NothingResurrected == Spec => []NoResurrection
<1>1. Inv => NoResurrection
  BY DEF Inv
<1> QED
  BY <1>1, Invariance, PTL

\* A connection changes only by somebody who has seen what is replaced.
THEOREM NothingLost == Spec => NoLostUpdate
<1> DEFINE A == row' # row =>
                  /\ version' = version + 1
                  /\ \E r \in Request :
                       /\ pc[r] = "write" /\ pc'[r] # "write"
                       /\ seen[r] = View
<1>1. Inv /\ [Next]_vars => [A]_vars
  <2> SUFFICES ASSUME Inv, Next, row' # row PROVE A
    BY DEF vars
  <2>1. PICK r \in Request : Write(r) /\ Matches(seen[r].version)
    BY DEF Next, Step, Begin, LoadCatalogue, Enter, ReadStatus, Write, ReadFlag, StartAttempt,
           StatementFails, TokenRefused, Searched, SearchFails, Create, CreateFails, Use,
           Leave, Restart
  <2>2. pc[r] = "write" /\ pc'[r] # "write" /\ version' = version + 1
    BY <2>1 DEF Write, NextVersion, Continue, Answer, Goto, Inv, TypeOK
  <2> QED
    BY <2>1, <2>2, MatchIsCurrent
<1> QED
  BY <1>1, Invariance, PTL DEF Spec, NoLostUpdate

\* A project appears only by the creation of a request, with the credential it holds.
LEMMA NewProject ==
  ASSUME Inv, Next, NEW c \in Credential, projects'[c] # projects[c]
  PROVE  \E r \in Request : Create(r) /\ Provisions(r) /\ held[r].token = c
<1>1. PICK r \in Request : Create(r)
  BY DEF Next, Step, Begin, LoadCatalogue, Enter, ReadStatus, Write, ReadFlag, StartAttempt,
         StatementFails, TokenRefused, Searched, SearchFails, Create, CreateFails, Use,
         Leave, Restart
<1>2. held[r].token = c
  BY <1>1 DEF Create, Inv, TypeOK
<1>3. Provisions(r)
  BY <1>1 DEF Create, Continue, Answer, Goto, Provisions, Inv, TypeOK
<1> QED
  BY <1>1, <1>2, <1>3

\* A replacement token provisions a project only in a request whose flag is of an earlier
\* version: the save has overtaken it.
THEOREM OnlyOvertakenProvision == Spec => OnlyOvertakenRequestsProvision
<1> DEFINE A == \A t \in Token : projects'[t] # projects[t] =>
                  \E r \in Request : /\ Provisions(r) /\ held[r].token = t
                                     /\ flag[r].version < held[r].version
<1>1. Inv /\ [Next]_vars => [A]_vars
  <2> SUFFICES ASSUME Inv, Next, NEW t \in Token, projects'[t] # projects[t]
               PROVE  \E r \in Request : /\ Provisions(r) /\ held[r].token = t
                                         /\ flag[r].version < held[r].version
    OBVIOUS
  <2>1. PICK r \in Request : Create(r) /\ Provisions(r) /\ held[r].token = t
    BY NewProject DEF Credential
  <2>2. flag[r].version < held[r].version
    BY <2>1 DEF Create, Inv, ResolvingOK
  <2> QED
    BY <2>1, <2>2
<1> QED
  BY <1>1, Invariance, PTL DEF Spec, OnlyOvertakenRequestsProvision

\* A second project of the name is made only by a request that began before the first one
\* existed or that a save has overtaken.
THEOREM SecondProjectIsRaced == Spec => SecondProjectNeedsARace
<1> DEFINE A == \A c \in Credential : projects[c] > 0 /\ projects'[c] # projects[c] =>
                  \E r \in Request : /\ Provisions(r) /\ held[r].token = c
                                     /\ c \in empty[r] \/ flag[r].version < held[r].version
<1>1. Inv /\ [Next]_vars => [A]_vars
  <2> SUFFICES ASSUME Inv, Next, NEW c \in Credential, projects'[c] # projects[c]
               PROVE  \E r \in Request : /\ Provisions(r) /\ held[r].token = c
                                         /\ c \in empty[r] \/ flag[r].version < held[r].version
    OBVIOUS
  <2>1. PICK r \in Request : Create(r) /\ Provisions(r) /\ held[r].token = c
    BY NewProject
  <2>2. c \in empty[r] \/ flag[r].version < held[r].version
    BY <2>1 DEF Create, Inv, ResolvingOK, Missing
  <2> QED
    BY <2>1, <2>2
<1> QED
  BY <1>1, Invariance, PTL DEF Spec, SecondProjectNeedsARace

-----------------------------------------------------------------------------
(* The refinement of the register *)

\* The register's variables under the mapping.
Linked == {r \in Request : seen[r] # NoView /\ seen[r].version = version}
InUse  == [r \in Request |-> IF held[r] = NoCredential THEN NoCredential ELSE held[r].token]

\* Steps that at most end attempts.
LEMMA DropStep ==
  ASSUME Inv, UNCHANGED <<row, seen>>, \A r \in Request : held'[r] \in {held[r], NoCredential}
  PROVE  Register!Drop
<1>1. Linked' = Linked
  BY DEF Linked, row
<1> DEFINE S == {r \in Request : held'[r] = NoCredential}
<1>2. S \in SUBSET Request
  OBVIOUS
<1>3. InUse' = [r \in Request |-> IF r \in S THEN NoCredential ELSE InUse[r]]
  BY DEF InUse
<1> QED
  BY <1>1, <1>2, <1>3 DEF Register!Drop, Linked, InUse, row

LEMMA LookStep ==
  ASSUME Inv, NEW r \in Request, ReadStatus(r)
  PROVE  Register!Look(r)
<1>1. seen' = [seen EXCEPT ![r] = View] /\ UNCHANGED row /\ View # NoView
  BY ViewType DEF ReadStatus
<1>2. held[r] = NoCredential
  BY DEF ReadStatus, Inv, ControlOK, Bare
<1>3. UNCHANGED held
  BY <1>2 DEF ReadStatus, Answer, Inv, TypeOK
<1>4. View.version = version
  BY DEF View
<1>5. Linked' = Linked \cup {r}
  BY <1>1, <1>4 DEF Linked, Inv, TypeOK, row
<1> QED
  BY <1>1, <1>3, <1>5 DEF Register!Look, Linked, InUse, row

LEMMA ReplaceStep ==
  ASSUME Inv, NEW r \in Request, Write(r), Matches(seen[r].version)
  PROVE  Register!Replace(r)
<1>1. /\ version \in Nat /\ version' = version + 1 /\ override' \in Token \cup {Tombstone}
      /\ UNCHANGED <<seen, held>>
  BY WriteFacts
<1>2. r \in Linked
  BY MatchIsCurrent DEF Write, Linked, View
<1>3. Linked' = {}
  <2> SUFFICES ASSUME NEW s \in Request, seen[s] # NoView PROVE seen[s].version # version'
    BY <1>1 DEF Linked
  <2>1. seen[s].version <= version /\ seen[s].version \in Nat
    BY ConnectionAssumption DEF Inv, TypeOK, PastOK, Status
  <2> QED
    BY <1>1, <2>1
<1> QED
  BY <1>1, <1>2, <1>3 DEF Register!Replace, Linked, InUse

LEMMA TakeStep ==
  ASSUME Inv, NEW r \in Request, StartAttempt(r)
  PROVE  Register!Take(r)
<1>1. PICK taken \in Attempts :
        /\ taken # NoCredential /\ taken.token = Effective(override)
        /\ held' = [held EXCEPT ![r] = taken]
  BY TakenFacts
<1>2. override # Tombstone /\ UNCHANGED <<row, seen>>
  BY <1>1, ConnectionAssumption DEF StartAttempt, Attempts, Effective
<1>3. InUse' = [InUse EXCEPT ![r] = Effective(override)]
  BY <1>1 DEF InUse, Inv, TypeOK
<1> QED
  BY <1>2, <1>3 DEF Register!Take, Linked, InUse, Effective, row

LEMMA RegisterStep == Inv /\ [Next]_vars => [Register!Next]_(Register!vars)
<1> SUFFICES ASSUME Inv, [Next]_vars
             PROVE  Register!Next \/ UNCHANGED Register!vars
  OBVIOUS
<1>1. CASE UNCHANGED vars
  BY <1>1 DEF Register!vars, vars, row
<1>2. CASE Restart
  BY <1>2, DropStep DEF Restart, Register!Next
<1>3. ASSUME NEW r \in Request, Begin(r) \/ Step(r) PROVE Register!Next
  <2>1. CASE ReadStatus(r)
    BY <2>1, LookStep DEF Register!Next
  <2>2. CASE Write(r) /\ Matches(seen[r].version)
    BY <2>2, ReplaceStep DEF Register!Next
  <2>3. CASE StartAttempt(r)
    BY <2>3, TakeStep DEF Register!Next
  <2>4. CASE Write(r) /\ ~Matches(seen[r].version)
    BY <2>4, DropStep DEF Write, Answer, Inv, TypeOK, Register!Next
  <2>5. CASE Begin(r) \/ LoadCatalogue(r) \/ ReadFlag(r) \/ Use(r)
    BY <2>5, DropStep DEF Begin, LoadCatalogue, ReadFlag, Use, Register!Next
  <2>6. CASE \/ Enter(r) \/ StatementFails(r) \/ TokenRefused(r) \/ Searched(r)
             \/ SearchFails(r) \/ Create(r) \/ CreateFails(r) \/ Leave(r)
    <3>1. UNCHANGED <<row, seen>> /\ \A s \in Request : held'[s] \in {held[s], NoCredential}
      BY <2>6 DEF Enter, StatementFails, TokenRefused, Searched, SearchFails, Create,
                  CreateFails, Leave, Continue, Answer, Inv, TypeOK
    <3> QED
      BY <3>1, DropStep DEF Register!Next
  <2> QED
    BY <1>3, <2>1, <2>2, <2>3, <2>4, <2>5, <2>6 DEF Step
<1> QED
  BY <1>1, <1>2, <1>3 DEF Next

\* Compare-and-set on versions and the credential read anew for each attempt implement a
\* load-linked, store-conditional register of the account's credential.
THEOREM ConnectionIsARegister == Spec => ActsAsRegister
<1>1. Init => Register!Init
  BY DEF Init, Register!Init
<1> QED
  BY <1>1, RegisterStep, Invariance, PTL DEF Spec, ActsAsRegister, Register!Spec
=============================================================================
