------------------------- MODULE TodoistConnections -------------------------
(***************************************************************************)
(* One account's Todoist credential and its shopping project.              *)
(*                                                                         *)
(* The credential is the server-configured token of the catalogue, unless  *)
(* a row of lists_todoist_connections overrides it: with a replacement     *)
(* token, or with a null ciphertext, the tombstone of a disconnection.     *)
(* Rows are written by compare-and-set on their version.  Requests of one  *)
(* process interleave at every await; what they have read may be stale when *)
(* they use it.  The credential is read again before every provider        *)
(* attempt, by clients that live on after their request too.               *)
(* Accounts share nothing but the cached catalogue, so one account is      *)
(* enough.  The content of a token and its encryption are left out.  A      *)
(* process without the database has no management: it is one that is never *)
(* keyed and finds no row.  A database beside such a process is left out.  *)
(***************************************************************************)
EXTENDS Integers

CONSTANTS
  Request,      \* concurrent requests; each with a settings page of its own
  Token,        \* replacement tokens callers may save
  Server,       \* the server-configured token of the catalogue
  Tombstone,    \* a null ciphertext
  NoOverride,   \* no row for the account
  Entries,      \* what operators put into the catalogue for the account
  NoView, NoCredential,
  MaxVersion,   \* bound: writes of the row
  MaxProjects   \* bound: projects of the shopping name per credential

VARIABLES
  override, version,  \* the row: its content, and its version (0: no row)
  keyed,              \* this process has the encryption key
  cache,              \* its catalogue promise: unread, failed, or what the secret said
  projects,           \* at Todoist: projects of the shopping name in the credential's account
  pc, op,             \* where each request is and what it does
  seen,               \* what its settings page shows
  flag,               \* the status shoppingForTenant has read
  held,               \* the credential of the attempt under way, the version it is of
  empty               \* history: credentials without a project when it read its flag

row  == <<override, version>>
vars == <<row, keyed, cache, projects, pc, op, seen, flag, held, empty>>

Credential == Token \cup {Server}
Op == {"status", "disconnect", "shopping", "tasks"} \cup Token  \* a token: save it
Writes == Token \cup {"disconnect"}

ASSUME ConnectionAssumption ==
  /\ MaxVersion \in Nat /\ MaxProjects \in Nat
  /\ Entries \subseteq {"absent", "id", "name"} /\ Entries # {}
  /\ Server \notin Token /\ Tombstone \notin Credential /\ NoOverride \notin Credential
  /\ Tombstone # NoOverride
  /\ {"none", "status", "disconnect", "shopping", "tasks"} \cap Token = {}
  /\ NoView \notin [version : Nat, shows : {"server", "replaced", "disconnected"}]
  /\ NoCredential \notin [token : Credential, version : Nat]

\* What status() tells of the row.
Shows(o) == IF o = NoOverride THEN "server"
            ELSE IF o = Tombstone THEN "disconnected" ELSE "replaced"
View == [version |-> version, shows |-> Shows(override)]

Init == /\ override = NoOverride /\ version = 0
        /\ keyed \in BOOLEAN
        /\ cache = "unread"
        /\ projects \in [Credential -> 0..MaxProjects]
        /\ pc = [r \in Request |-> "idle"]
        /\ op = [r \in Request |-> "none"]
        /\ seen = [r \in Request |-> NoView]
        /\ flag = [r \in Request |-> NoView]
        /\ held = [r \in Request |-> NoCredential]
        /\ empty = [r \in Request |-> {}]

-----------------------------------------------------------------------------
(* Steps of a request *)

Goto(r, label) == pc' = [pc EXCEPT ![r] = label]
Continue(r, label) == Goto(r, label) /\ UNCHANGED <<op, flag, held, empty>>
Answer(r) == /\ Goto(r, "idle")
             /\ op' = [op EXCEPT ![r] = "none"]
             /\ held' = [held EXCEPT ![r] = NoCredential]
             /\ flag' = [flag EXCEPT ![r] = NoView]
             /\ empty' = [empty EXCEPT ![r] = {}]

Begin(r) ==
  /\ pc[r] = "idle"
  /\ \E o \in Op : /\ o \in Writes => seen[r] # NoView
                   /\ op' = [op EXCEPT ![r] = o]
  /\ Goto(r, "catalogue")
  /\ UNCHANGED <<row, keyed, cache, projects, seen, flag, held, empty>>

\* canManage: without the key no row is written.
MayManage(r) == op[r] \in Writes => keyed

\* The first request reads the secret, which operators may have edited; its promise
\* is kept by the process, rejected or not.
LoadCatalogue(r) ==
  /\ pc[r] = "catalogue" /\ cache = "unread" /\ MayManage(r)
  /\ cache' \in Entries \cup {"failed"}
  /\ UNCHANGED <<row, keyed, projects, pc, op, seen, flag, held, empty>>

\* has(), projectFor(), requireManagement(): refuse, or go on to the row.  A write is
\* refused before the catalogue is asked for.
Enter(r) ==
  /\ pc[r] = "catalogue"
  /\ \/ ~MayManage(r) /\ Answer(r)
     \/ MayManage(r) /\ cache \notin {"unread", "id", "name"} /\ Answer(r)
     \/ /\ MayManage(r) /\ cache \in {"id", "name"}
        /\ \/ op[r] = "status" /\ Continue(r, "status")
           \/ op[r] \in Writes /\ Continue(r, "write")
           \/ op[r] = "shopping" /\ Continue(r, "flag")
           \/ op[r] = "tasks" /\ Continue(r, "ready")
  /\ UNCHANGED <<row, keyed, cache, projects, seen>>

\* A statement on the row fails without effect, before an attempt too.
StatementFails(r) ==
  /\ pc[r] \in {"status", "write", "flag", "search", "create"} /\ Answer(r)
  /\ UNCHANGED <<row, keyed, cache, projects, seen>>

ReadStatus(r) ==
  /\ pc[r] = "status"
  /\ seen' = [seen EXCEPT ![r] = View]
  /\ Answer(r)
  /\ UNCHANGED <<row, keyed, cache, projects>>

\* Faulty variant of Matches: a first save is an upsert.
MatchesUpsert(expected) == expected \in {0, version}

\* Faulty variant of Matches: the update has no version in its WHERE clause.
MatchesAnyRow(expected) == expected # 0 => version > 0

\* INSERT ... ON CONFLICT DO NOTHING, or UPDATE ... WHERE version = expected.
Matches(expected) == IF expected = 0 THEN version = 0 ELSE version = expected

\* Faulty variant of NextVersion: a tombstone does not count.
NextVersionSaves(o) == IF o = "disconnect" /\ version > 0 THEN version ELSE version + 1

NextVersion(o) == version + 1

\* write(): one statement; its answer may be lost after it has taken effect.
Write(r) ==
  /\ pc[r] = "write"
  /\ \/ /\ Matches(seen[r].version) /\ version < MaxVersion
        /\ version' = NextVersion(op[r])
        /\ override' = IF op[r] = "disconnect" THEN Tombstone ELSE op[r]
        /\ \/ op[r] \in Token /\ Continue(r, "status")
           \/ Answer(r)
     \/ /\ ~Matches(seen[r].version)
        /\ Answer(r) /\ UNCHANGED row
  /\ UNCHANGED <<keyed, cache, projects, seen>>

-----------------------------------------------------------------------------
(* Provider attempts *)

\* Faulty variant of Effective: without a key the catalogue token is used.
EffectiveFallback(o) == IF o \in Token /\ keyed THEN o ELSE IF o = Tombstone THEN o ELSE Server

\* token(): the credential of a row; a tombstone, which is none, throws.
Effective(o) == IF o = NoOverride THEN Server ELSE o

\* Faulty variant of Usable: a null ciphertext is sent as a token.
UsableUnchecked(c) == c \in Token => keyed

Usable(c) == c \in Credential /\ (c \in Token => keyed)

\* Faulty variant of TakeToken: a client keeps its first credential.
TakeTokenOnce(r, next) ==
  /\ Usable(Effective(override)) /\ Goto(r, next)
  /\ held' = [held EXCEPT ![r] = IF @ = NoCredential
                                 THEN [token |-> Effective(override), version |-> version]
                                 ELSE @]

\* Before each attempt the client reads the row.
TakeToken(r, next) ==
  /\ Usable(Effective(override)) /\ Goto(r, next)
  /\ held' = [held EXCEPT ![r] = [token |-> Effective(override), version |-> version]]

\* Faulty variant of Replaced: the disconnection is taken for the replacement.
ReplacedMixedUp(status) == status.shows = "disconnected"

Replaced(status) == status.shows = "replaced"

ReadFlag(r) ==
  /\ pc[r] = "flag"
  /\ flag' = [flag EXCEPT ![r] = View]
  /\ empty' = [empty EXCEPT ![r] = {c \in Credential : projects[c] = 0}]
  /\ Goto(r, IF cache = "id" THEN "ready" ELSE "search")
  /\ UNCHANGED <<row, keyed, cache, projects, op, seen, held>>

StartAttempt(r) ==
  /\ \/ pc[r] = "search" /\ TakeToken(r, "searching")
     \/ pc[r] = "create" /\ TakeToken(r, "creating")
     \/ pc[r] = "ready" /\ TakeToken(r, "using")
  /\ UNCHANGED <<row, keyed, cache, projects, op, seen, flag, empty>>

\* TodoistNotConnectedError or ConfigurationError; a retained client stays.
TokenRefused(r) ==
  /\ ~Usable(Effective(override))
  /\ pc[r] \in {"search", "create"} /\ Answer(r)
  /\ UNCHANGED <<row, keyed, cache, projects, seen>>

\* Faulty variant of Searched: a project whose name differs in case is overlooked.
SearchedByCase(r) ==
  /\ pc[r] = "searching"
  /\ \/ projects[held[r].token] = 1 /\ Continue(r, "ready")
     \/ projects[held[r].token] <= 1 /\ ~Replaced(flag[r]) /\ Continue(r, "create")
     \/ projects[held[r].token] # 1 /\ Answer(r)
  /\ UNCHANGED <<row, keyed, cache, projects, seen>>

Searched(r) ==
  LET matches == projects[held[r].token]
  IN
  /\ pc[r] = "searching"
  /\ \/ matches = 1 /\ Continue(r, "ready")
     \/ matches = 0 /\ ~Replaced(flag[r]) /\ Continue(r, "create")
     \/ matches # 1 /\ (matches = 0 => Replaced(flag[r])) /\ Answer(r)
  /\ UNCHANGED <<row, keyed, cache, projects, seen>>

\* A read that failed is tried again, with a credential read again, or given up.
SearchFails(r) ==
  /\ pc[r] = "searching"
  /\ \/ Continue(r, "search")
     \/ Answer(r)
  /\ UNCHANGED <<row, keyed, cache, projects, seen>>

\* POST /projects acts; its answer arrives or is lost.
Create(r) ==
  /\ pc[r] = "creating" /\ projects[held[r].token] < MaxProjects
  /\ projects' = [projects EXCEPT ![held[r].token] = @ + 1]
  /\ \/ Continue(r, "ready")
     \/ Answer(r)
  /\ UNCHANGED <<row, keyed, cache, seen>>

CreateFails(r) ==
  /\ pc[r] = "creating" /\ Answer(r)
  /\ UNCHANGED <<row, keyed, cache, projects, seen>>

\* Whatever Todoist answers to a call on items or tasks, the client can go on.
Use(r) ==
  /\ pc[r] = "using" /\ Goto(r, "ready")
  /\ UNCHANGED <<row, keyed, cache, projects, op, seen, flag, held, empty>>

Leave(r) ==
  /\ pc[r] = "ready" /\ Answer(r)
  /\ UNCHANGED <<row, keyed, cache, projects, seen>>

\* A new process, perhaps with another key configuration.
Restart ==
  /\ op' = [r \in Request |-> "none"]
  /\ cache' = "unread" /\ keyed' \in BOOLEAN
  /\ pc' = [r \in Request |-> "idle"]
  /\ flag' = [r \in Request |-> NoView]
  /\ empty' = [r \in Request |-> {}]
  /\ held' = [r \in Request |-> NoCredential]
  /\ UNCHANGED <<row, projects, seen>>

Step(r) == \/ LoadCatalogue(r) \/ Enter(r) \/ StatementFails(r) \/ ReadStatus(r) \/ Write(r)
           \/ ReadFlag(r) \/ StartAttempt(r) \/ TokenRefused(r)
           \/ Searched(r) \/ SearchFails(r) \/ Create(r) \/ CreateFails(r)
           \/ Use(r) \/ Leave(r)

Next == (\E r \in Request : Begin(r) \/ Step(r)) \/ Restart

Spec == Init /\ [][Next]_vars
FairSpec == Spec /\ \A r \in Request : WF_vars(Step(r))

-----------------------------------------------------------------------------
(* Properties *)

Status == [version : 0..MaxVersion, shows : {"server", "replaced", "disconnected"}]

TypeOK ==
  /\ override \in Credential \cup {Tombstone, NoOverride} /\ override # Server
  /\ version \in 0..MaxVersion
  /\ (version = 0) = (override = NoOverride)
  /\ keyed \in BOOLEAN
  /\ cache \in Entries \cup {"unread", "failed"}
  /\ projects \in [Credential -> 0..MaxProjects]
  /\ pc \in [Request -> {"idle", "catalogue", "status", "write", "flag", "search",
                         "searching", "create", "creating", "ready", "using"}]
  /\ op \in [Request -> Op \cup {"none"}]
  /\ seen \in [Request -> Status \cup {NoView}] /\ flag \in [Request -> Status \cup {NoView}]
  /\ held \in [Request -> [token : Credential, version : 0..MaxVersion] \cup {NoCredential}]
  /\ empty \in [Request -> SUBSET Credential]

\* A version names one content: whoever has seen the current version, on a settings
\* page or as the credential of an attempt, has seen the current content, however
\* many saves and disconnections by others have raced.
VersionNamesContent ==
  \A r \in Request :
    /\ seen[r] # NoView /\ seen[r].version = version => seen[r].shows = Shows(override)
    /\ held[r] # NoCredential /\ held[r].version = version => held[r].token = Effective(override)

\* No attempt runs on the server-configured token once an override or a tombstone
\* exists, also after a restart without the key (only an attempt whose credential was
\* read before the first override may still hold it).
NoResurrection ==
  \A r \in Request : held[r] # NoCredential /\ held[r].token = Server => held[r].version = 0

\* The row changes only by the save or disconnection of somebody whose settings page
\* showed the content that is replaced, and each change counts.
NoLostUpdate ==
  [][row' # row =>
       /\ version' = version + 1
       /\ \E r \in Request :
            /\ pc[r] = "write" /\ pc'[r] # "write"
            /\ seen[r] = View]_vars

Attempting(r) == pc[r] \in {"searching", "creating", "using"}

\* A connection that stays as it is is the one every client ends up with: attempts
\* on an earlier credential die out, those of retained clients and retries included;
\* after a disconnection there are none at all.
CredentialsDrain ==
  \A o \in Token \cup {Tombstone} :
    <>[](override = o)
      => <>[](\A r \in Request : Attempting(r) => held[r].token = Effective(o))

\* Under a replacement that stays, provisioning comes to an end: only requests that
\* read the flag before the replacement was saved can still create a project.
ProvisioningStops ==
  \A t \in Token : <>[](override = t) => <>[](\A r \in Request : pc[r] # "creating")

Provisions(r) == pc[r] = "creating" /\ pc'[r] # "creating"

\* A replacement token provisions a project only for a request that a save has overtaken:
\* the token is of a later version than the flag that said there was no replacement.
OnlyOvertakenRequestsProvision ==
  [][\A t \in Token : projects'[t] # projects[t] =>
       \E r \in Request : /\ Provisions(r) /\ held[r].token = t
                          /\ flag[r].version < held[r].version]_vars

\* A second project of the name, after which every resolution is ambiguous, needs a race:
\* it is created by a request that began resolving before the first one existed, or that
\* a save has overtaken, so that it searched with one credential and created with another.
SecondProjectNeedsARace ==
  [][\A c \in Credential : projects[c] > 0 /\ projects'[c] # projects[c] =>
       \E r \in Request : /\ Provisions(r) /\ held[r].token = c
                          /\ c \in empty[r] \/ flag[r].version < held[r].version]_vars

\* The versioned row and the clients that read it anew act as one register: a page may
\* replace only the very content it shows, an attempt takes the content of its moment.
Register == INSTANCE CredentialRegister WITH
  content <- override,
  linked  <- {r \in Request : seen[r] # NoView /\ seen[r].version = version},
  inUse   <- [r \in Request |-> IF held[r] = NoCredential THEN NoCredential ELSE held[r].token]
ActsAsRegister == Register!Spec

\* What README and architecture.md say of replacement tokens: shopping resolves an
\* existing unique project and never creates one with a replacement credential.
ReplacementNeverProvisions ==
  [][\A t \in Token : projects'[t] = projects[t]]_vars
=============================================================================
