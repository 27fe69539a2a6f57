# Lists service: formal models

TLA+ models of the Lists service (`src/`), TLC configurations that check them on
small instances, and TLAPS proofs that hold for every instance. The repository is
the reference: every definition stands for the lines `PROJECT.json` names under
`map`.

To check a run: `tlc -workers 2 -config LoopEdits.cfg MCLoopStore` (`PROJECT.json`
names the module of each `.cfg`). To check the proofs of a module: `tlapm
LoopStoreProofs.tla`.

## 1. Inventory

The service is one Node process (REST, and an Alexa Lambda) in front of two
stores: its own PostgreSQL database, which owns Loops and tags, and Todoist, which
owns shopping items and task lists. It keeps no state between requests except a
cached connection catalogue, so all concurrency is between requests that
interleave at `await`, further processes of the service (two releases overlap
during an upgrade, seed and migration CLIs) and other clients of Todoist.

| Component | State | Operations that change it | Hard behaviour | Correct when |
|---|---|---|---|---|
| Loop store (`PostgresLoopRepository`, `LoopService`) | `loops`, `loop_related_records`, `loop_comments`, `loop_append_operations` | create, createSeeded, patch, save, closeLoop, appendReference, addComment | READ COMMITTED transactions that wait for each other's row, advisory and index locks; stale snapshots; retries after lost answers | atomic and fenced edits; closed is final; one effect per append; one Loop per seed; limits hold |
| Tags | `lists_tags`, `lists_tag_assignments` | create, assign, remove | ownership check and insert are two statements | an assignment joins a tag and an entity of one account |
| Todoist connections | `lists_todoist_connections`; cached catalogue | save, disconnect | compare-and-set with an insert and an update branch; catalogue promise cached, rejected or not; token re-read for every attempt | no lost update of a connection; a disconnection stays; only a request that a save overtakes provisions a project with a replacement token |
| Todoist client | attempts of one request | get, post, delete | time-outs, 429 and 5xx, ambiguous writes | reads are retried, writes are sent once |
| Project resolver | Todoist projects | resolveOrCreate | search, then create | a second project of the name only by a race |
| Shopping list | Todoist items | add, update, delete, complete, reopen, clearCompleted | list, then write; several writes that can stop half-way | each write right at one moment of its request: no guess, no needless duplicate, only completed items cleared |
| Task lists | Todoist projects and tasks | create, update, complete, delete, reorder, archive | complete all, then archive; check twice, then reorder | what a deletion lists it completes before it archives; no write outside the list |
| REST controller, session guard | none | every route | session revoked between guard and effect | no handler before the guard has answered |
| Alexa skill | dialogue confirmation | the shopping intents | confirmation, then clear | nothing destructive without confirmation |
| Migration runner | schema, `lists_schema_migrations` | apply one migration | two runners; a crash between statements | each migration once, in order, with its checksum |
| Release host tooling | proxy site, candidate and activation receipts | stage, activate, restore | a crash or a lost fence between steps | traffic is served by the recorded release or by the previous one |
| Seed CLI | none | createSeeded for a fixed list | repeated and concurrent runs | see the Loop store |
| Configuration, secrets, logging, PDF | none | none | none | parsing and formatting only |

How they interact: the REST controller calls `LoopService`, `TagService`,
`ShoppingListService` and `TaskListService`; the last two are built for each
request by `ApplicationFactories`, from the connection catalogue, the connection
store and a `TodoistClient` whose token is read again for every attempt. Tags name
Loops and Todoist tasks by identifier. The activation tooling locks the connection
table while it switches releases.

Everything hard to test is listed, at its line, under `hazards` in `PROJECT.json`,
with the properties that cover it, or the reason why none does.

## 2. Modules

| Module | What it models | Runs | Proofs |
|---|---|---|---|
| `LoopData`, `LoopLedger`, `LoopStore` | the service's own records and its only real concurrency control | `LoopEdits`, `LoopCalendar`, `LoopSeeds`, `LoopReturns` | `LoopStoreProofs`, `LoopLedgerProofs` |
| `CredentialRegister`, `TodoistConnections` | the credential of an account: store, catalogue, project resolution, long-lived clients | `Connections`, `ReplacementProvisions` | `TodoistConnectionsProofs` |
| `RemoteWrites`, `TodoistClient` | one call of the client: attempts, retries, lost and late answers | `ClientCalls` | `TodoistClientProofs` |
| `ShoppingList` | shopping operations, through REST and Alexa, among other users of the list | `Shopping` | `ShoppingListProofs` |
| `TaskLists` | task-list operations among other users of the projects | `TaskLists` | `TaskListsProofs` |
| `SchemaHistory`, `Migrations` | runners of the schema migrations | `Migrations` | `MigrationsProofs` |
| `RestRequests` | admission of REST requests, and the tag routes | `RestRequests`, `StaleReferences` | `RestRequestsProofs` |

Each line has an `MC` module with the values TLC uses. Four components have an abstract
specification of what they promise, stated without the mechanism that keeps the promise,
which the detailed one implements, checked by TLC and proved:

| Promise | Says | Mechanism it hides | Refinement |
|---|---|---|---|
| `LoopLedger` | every call takes effect at once, at most once, or not at all | transactions, locks, receipts, snapshots | `RefinesLedger` |
| `CredentialRegister` | one register; a page replaces only the very content it shows; an attempt takes the content of its moment | versions, two statements, a credential read for each attempt | `ActsAsRegister` |
| `RemoteWrites` | a write acts at most once, at a time of its own; its caller hears done, not done and never, or nothing | attempts, headers, time-outs, late arrivals, bodies | `ActsAsWrites` |
| `SchemaHistory` | one history of the schema, only ever continued | the lock, the order of checks, transactions, crashes | `OneHistory` |

The models meet at narrow
places, which is why they are checked apart: `TodoistClient` is the environment of
`ShoppingList` and `TaskLists` reduced to what its properties promise (a call acts
at most once; its answer may be lost); `TodoistConnections` says which credential
those calls run on; `RestRequests` says who may start them. What one model takes
from another is proved of that other: `ActsAsWrites` of the client is what lets a
write of `ShoppingList`, `TaskLists` or `TodoistConnections` be one step, which acts
or not, answered or not, or a step that comes after its caller has given up.

**Faulty variants.** For each property, `PROJECT.json` names a plausible mistake
(a dropped row lock, an account missing from a WHERE clause, a retry of writes, a
key left off) under which TLC finds the property violated. Each stands before the
definition it replaces as "Faulty variant of ...".

## 3. The Loop store

| Module | What it is |
|---|---|
| `LoopData` | rows, references, receipts, calls; the pure functions on rows (`persist`, the overlay of a patch, the additions of a seed); the checks `LoopService` makes first |
| `LoopLedger` | the abstract specification: every call takes effect in one step on the Loop as it then stands, at most once, or not at all |
| `LoopStore` | the code: transactions with their locks and statements, crashes, lost answers; its properties; the refinement of `LoopLedger` |
| `MCLoopStore` | values for TLC |
| `LoopStoreProofs` | proofs of what holds of one Loop: types, fence, version, closing, owner |
| `LoopLedgerProofs` | proofs of what holds across calls: references, seeds, receipts, acknowledgements, the refinement |

### State

`loops`, `comments`, `receipts` are the committed tables. A row of `loops` is one
record that includes its references (the code always reads them together in
`snapshot()` and writes both only under the row lock). Its scalar columns are one function
`text`. `pc`, `target`, `found`, `prior`, `staged` are one caller's transaction:
where it is, the Loop it works on, the receipt and the row it has read, and its
uncommitted writes. `seen` is the snapshot the caller last read, hence the
`expectedVersion` it sends. `reply` is the answer, `calls` counts calls.

Locks are functions of `pc`: `HoldsRow` (`SELECT ... FOR UPDATE` until the end of
the transaction), `HoldsOp` (`pg_advisory_xact_lock`), `HoldsSeed` (an uncommitted
entry of the unique index on account and seed key).

### Actions

| Action | Code |
|---|---|
| `Read` | `findById`, `list`, `get` |
| `Invoke`, `Reject` | entry into `LoopService`; refused inputs |
| `Precheck` | the read of `addComment` before its transaction |
| `InsertNew`, `InsertSeeded` | `create`; `createSeeded` up to `ON CONFLICT` |
| `TakeOpLock` | advisory lock, receipt, binding check of `appendReference` |
| `LockRow`, `ReadRow` | the two statements of `locked()` |
| `Patch`, `Save`, `CloseLoop`, `AppendReference`, `ExtendSeeded`, `AddComment` | what each operation decides and writes under the row lock |
| `Commit` | `COMMIT`; the answer arrives or is lost |
| `Crash` | any error, dead connection or dead process before `COMMIT`: rollback |

The writes of one operation are one step (`Stage`) because nobody can see them
before `COMMIT` and nobody else can write the row; a failure among them is
`Crash`. That a part of them cannot stay is therefore not a result of the model: it
rests on `transaction()`, which runs them on one client and rolls back on any error,
and on PostgreSQL. What happens between statements of *different* transactions is fully
interleaved. The two statements of `locked()` stay apart since the code makes a
point of it: `ReadRow` reads what is committed at that moment, after the wait.

`save` is an operation of the port that no route calls; its callers save an edited
copy of a snapshot they have read, which is how it is modelled. Neither it nor
`LoopService` checks the references of the copy, so `Acceptable` refuses none: that
they are well formed is part of what a `SaveCall` is.

### Abstractions

- Timestamps, authors and e-mail addresses are left out; no guard reads them.
- Text rules (length, dates, priorities) are left out; the rules that decide about
  control are kept: at least one field, references only with a version,
  well-formed references, confirmation.
- `payload_sha256` is a function of the event, so equality of event identifiers
  stands for both comparisons.
- A patch's `null` is a value like any other.
- The lock key is a hash; a collision would only make unrelated appends wait.
- The connection pool is left out: no call needs a second connection while it
  holds one.
- Loops are never deleted: no code does.

### What the runs check

| Run | Instance | Shows |
|---|---|---|
| `LoopEdits` | 2 callers, 4 calls, 1 Loop | `FreshnessFence`: equal versions mean equal content. `VersionCountsChanges`: one version per change, none without. `ClosedIsFinal`. `RefinesLedger`: the transactions implement the atomic ledger |
| `LoopCalendar` | 2 callers, 4 calls, 2 Loops, 2 accounts, 2 operations, 2 events | `ReceiptsSound`, `ReceiptKeyFree`, `AcknowledgedIsDurable`, `OneEffectPerOperation`, `OwnersOnly` |
| `LoopSeeds` | 2 callers, 4 calls, 3 identifiers, empty and seeded table | `TypeOK`, `StoredRefsWellFormed`, `OneLoopPerSeed` |
| `LoopReturns` | 3 callers, 3 calls, fair | `EveryCallReturns`; deadlock is checked in all runs |

**Bounds.** `MaxCalls` bounds the calls of a behaviour; crashes are unbounded
otherwise, since each ends a call. Two callers and four calls are enough for every
pair to race, for one of them to retry after the race and for a fourth call to
depend on the outcome; a lock has only one holder and one kind of waiter, so a
third caller adds only queue order, which `LoopReturns` has. `MaxRefs` is 1 or 2
in place of 100, so that the limit is reached. `l1` to `l3` are
all the Loops that the calls can name or create. Reads are taken only of a Loop
some fenced call names: other reads cannot influence anything. Callers are
interchangeable, which the first three runs use as symmetry (none checks
liveness).

**Calls** are few on purpose: in `LoopEdits` two disjoint and two identical edits,
references replaced with and without a version, two saves, confirmed and
unconfirmed closing, a comment; in `LoopCalendar` one operation repeated, fenced
and unfenced, rebound to another event and to another Loop, and used by another account, and the
edits (unlink, patch, close) it races with; in `LoopSeeds` one identity seeded with
different references, another account, duplicates, a comment by the wrong account.

**Fairness.** `FairSpec` assumes weak fairness of each caller's own transaction
steps (`Advance`). PostgreSQL runs a statement it has admitted to its end, and
grants a queued lock once its holder is gone; the holder's steps are fair too. Weak
fairness is enough because the calls of a behaviour are bounded: nobody can overtake a
waiter for ever. Nothing is assumed of `Invoke`, `Read` or `Crash`.

### What is proved

`LoopStoreProofs`, for every set of callers, Loops, calls and every limit:

- `TypeCorrect`: `Spec => []TypeOK`.
- `FenceHolds`: `Spec => []FreshnessFence`.
- `VersionCounts`, `ClosedStays`, `OwnersAlone`: `Spec => VersionCountsChanges`,
  `Spec => ClosedIsFinal`, `Spec => OwnersOnly`.
- `InvHolds`: `Spec => []Inv`, the invariant all of them follow from.

None of the properties is inductive. That a commit makes no snapshot lie - same version,
other content - needs that the row it writes is the committed row itself or has
the next version; that needs the row it has read to be the committed one still;
and that needs the exclusive row lock. `Inv` has one conjunct for each link:

- `ControlOK` - a call is only at steps its kind reaches, fenced calls have a snapshot;
- `LockOK` - one holder per row, of the row's account, whose `prior` is the committed row;
- `InsertOK` - the identifier of a pending insert is not in use;
- `StageOK` - staged rows are first rows or `Follows` the row read: the same row, or
  one version later with other content, or one version later and a comment; and
  nothing new is staged for a closed row (`Settled`).

There is one lemma per action; all bodies reduce to `RefuseInv` and `StageInv`,
and `CommitInv` is where the argument is made. The three action properties are then
facts about one step: `OnlyCommits` says that nothing else changes the database,
and `CommitCounts`, `CommitSettled` and `CommitOwned` read them off what `StageOK`
says of the row being committed. The assumptions are
`DataAssumption` and `StoreAssumption`: distinct NULLs, a positive limit, and a
starting table of rows with well-formed references and unique seeds.

`LoopLedgerProofs` builds on `Inv`, from the same assumptions:

- `RefsStayWellFormed`, `OneForEachSeed`, `ReceiptsHold`, `KeysAreFree`,
  `AcknowledgedLasts`: the invariants `StoredRefsWellFormed`, `OneLoopPerSeed`,
  `ReceiptsSound`, `ReceiptKeyFree` and `AcknowledgedIsDurable`;
- `AppendsOnce`: `Spec => OneEffectPerOperation`;
- `StoreImplementsLedger`: `Spec => RefinesLedger`, the store implements `LoopLedger`;
- `OpInvHolds`: `Spec => []OpInv`, the invariant they follow from.

A receipt is written once because the caller that writes it has held the operation's
advisory lock since it found none, so what it found is still so; an identity is
inserted once because whoever has inserted it, uncommitted, makes the others wait. A
commit is then one effect of the ledger, because what was staged is that effect on
the row that was read, and that row is still the committed one (`Inv`). The conjuncts:

- `OpOK` - an operation is one append's at a time, whose `found` is the receipt;
- `SeedOK` - an uncommitted identity is one caller's and not in the table; who found
  it works on the Loop that has it;
- `EffectOK` - what is staged is one `Change` of the ledger (`OneEffect`), fenced by the
  row that was read, or nothing (`NoEffect`: a replay, a repeated close, a seed with
  nothing to add, a save that changes nothing of a closed Loop);
- `RefsOK`, `CallOK` - references are well formed in the table and in every snapshot;
  a call was acceptable, and works on the Loop it names and has read;
- `AnswerOK` - what was acknowledged is so. It needs the others to say that commits
  only add: `CommitGrows`.

Each body of a transaction has a lemma that it stages one effect (`PatchEffect`,
`AppendEffect`, `SeedEffect`, ...), each kind of step one that `OpInv` survives it,
and `LedgerStep` maps every step: a commit to `Insert`, `Effect` or `Return`, an end
without one to `Return`, a read and a call's start to themselves, and every step
in between to none. The mapping is `Waiting`, the one of `LoopStore`.

## 4. Todoist connections

One account: its credential is the server-configured token of the catalogue unless
a row of `lists_todoist_connections` overrides it, with a replacement token or, as
a null ciphertext, with the tombstone of a disconnection. Accounts share only the
cached catalogue, so one is enough.

A process without a database has no `management` at all; it behaves as one that is
never keyed and finds no row: the catalogue token for every attempt, no replacement,
every write refused. What is not modelled is such a process beside a database in which
others save connections; the documents promise their tombstones and replacements of
releases with the database only.

| State | Code |
|---|---|
| `override`, `version` | the row, or none at version 0 |
| `keyed`, `cache` | `management.canManage`; `connectionsPromise`, kept even if rejected |
| `projects` | external: projects of the shopping name, per credential; any number at first |
| `seen` | the status a settings page shows, source of `expectedVersion` |
| `flag`, `held` | the status `shoppingForTenant` reads; the token of the attempt under way |
| `empty` | history: the credentials whose account had no project of the name when the flag was read |

| Action | Code |
|---|---|
| `Begin`, `Enter` | the routes; `has`, `requireManagement` (which asks `canManage` before the catalogue), `projectFor` |
| `LoadCatalogue` | `connections()`, `load()` |
| `ReadStatus`, `Write` | `status`, `save` and `disconnect` with the two statements of `write()` |
| `ReadFlag`, `Replaced` | `status().replaced` in `shoppingForTenant` |
| `StatementFails` | `get()` or `write()` throws, and nothing is written |
| `StartAttempt`, `TokenRefused` | `currentToken()` before each attempt of a client |
| `Searched`, `SearchFails`, `Create`, `CreateFails` | `resolveUnique`, `resolveOrCreate` |
| `Use`, `Leave` | calls of a client that outlives its request |
| `Restart` | a new process, with or without the key |

**Run `Connections`**: two requests, one replacement token, up to two writes of the
row and two projects per credential, accounts that already have none, one or two
projects of the name, a catalogue that has the account by project name, by project
ID or not at all. Two writes are enough for a page to become stale under a content
that looks the same (a token saved twice, a save after a disconnection) and for a
save between any two steps of a resolution. Two projects are one and one too many.

- `VersionNamesContent`, `NoResurrection`, `NoLostUpdate`: the row and its readers.
- `OnlyOvertakenRequestsProvision`: a replacement token provisions a project only for a
  request whose flag is of an earlier version than the credential it creates with.
- `SecondProjectNeedsARace`: a second project of the name, after which every resolution
  is ambiguous, is created only by a request that read its flag before the first one
  existed (two resolutions that overlap), or that a save has overtaken (it searched
  with one credential and created with another). Either kind of race does happen in
  the run; neither alternative of the property can be left out.
- `ActsAsRegister`: the row with its versions, the pages and the attempts implement
  `CredentialRegister`. Its `linked` are the requests whose page shows the current
  version; its `inUse` is the token of each attempt.
- Liveness: `CredentialsDrain` (an override that stays is the one every client ends up
  with) and `ProvisioningStops` (under a replacement that stays, nothing is created for
  ever). **Fairness** is weak fairness of each request's own steps: an attempt is
  aborted after ten seconds and statements after five; nothing is assumed of `Begin`
  or `Restart`.

**Run `ReplacementProvisions`** (violated). README.md:616-618,
`docs/architecture.md:266-267` and `docs/api.md:46-47` say that a replacement
credential never creates a project. The flag is read once
(`ApplicationFactories.ts:106`), the token for every attempt; a token saved in
between makes `resolveOrCreate` search with the replacement and create with it.
`OnlyOvertakenRequestsProvision` and `ProvisioningStops` are what holds instead.

**Proved** (any number of requests, tokens, versions, projects): `TypeCorrect`,
`VersionsNameContents`, `NothingResurrected`, `NothingLost`, `OnlyOvertakenProvision`,
`SecondProjectIsRaced` and the refinement `ConnectionIsARegister`. The invariant adds

- `ControlOK` - where a request is tells what it does: a writer has seen a page, an
  attempt has a credential, whoever is about to create has read an unreplaced flag;
- `PastOK` - nothing a request has seen is ahead of the row: an equal version names
  equal content only because versions are never reused;
- `FlagOK` - a flag of the current version tells of the current content;
- `ResolvingOK` - what a resolution knows. Credentials without a project had none when it
  read its flag, because projects only become more; so an empty search proves that the
  credential was empty then, unless the credential is of a later version than the flag.
  The step that needs all of it is the second read of the credential, between search
  and creation (`StartAttemptInv`): if the row is still at the flag's version, the
  credential read is the one searched with, and no replacement; if not, a save has
  overtaken the request, and stays ahead of its flag.

The refinement is then one lemma per kind of step: `LookStep`, `ReplaceStep` (a match
means a current page, `MatchIsCurrent`, and the new version unlinks all pages),
`TakeStep`, and `DropStep` for steps that at most end attempts.

## 5. The Todoist client

`TodoistClient` has callers with a call under way (`pc`, `method`, `key`,
`attempt`), Todoist's `effects`, and `late`, the writes that may act although
their callers have given up. `Send` is token and request; `ServedOk`,
`ServedTransient`, `ServedPermanent` and `LoseAnswer` are what may come back;
`Wake` is the end of a wait, `ReadBody` the parsing of the answer. A second call
with the same key is the caller's retry. That Todoist acts once per `X-Request-Id`
is assumed of it (external).

**Run `ClientCalls`**: two callers, two calls each, one key, the three attempts of
the code. `OneEffect`, `AnswersAreTrue`, `EveryCallEnds`, `ActsAsWrites`. Two calls and one key
give a retry by the same caller and a use of the key by both; writes have one
attempt, so more attempts add only reads. **Fairness** is weak fairness of each
caller's steps: requests are aborted after ten seconds, timers fire, and a body
that stops arriving is given up by Node's `fetch` (the abort timer of
`FetchHttpTransport` ends with the headers and does not cover it); nothing is
assumed of late writes.

**Proved** for any number of callers, calls, keys and attempts: `TypeCorrect`,
`WritesOnce`, `AnswersHold` and the refinement `ClientRefinesWrites`. `MessagesOK` (a
message is of a call already made, and only one is of each), `CallOK` (a write in
flight is its call's first attempt and has not acted; one whose body is being read
has, and is not on its way any more; what was posted of a call has the call's key)
and `AnswerOK` are the strengthening.

`RemoteWrites` has `waiting` (writes whose callers wait), `open` (writes that may still
act), `acted` and `word` (what each caller was told). Under the mapping a write is a
call without its attempt and header; it is open while it is being sent or late; and
a reply is "done" for an accepted answer or an unreadable one, "not done" for a refusal,
"unknown" for the rest. An abstract answer may coincide with the effect, as when a
request acts and its answer is lost in one step. `ActMapped` is the lemma that a
message acts exactly when the write it stands for is not done: it needs that a message
is told apart by caller and call (`StrippedInjective`) and that a write still to be sent
is none that was posted (`UnsentIsNew`). Reads are stutters (`ReadStutters`).

## 6. Shopping list and task lists

Both are series of HTTP calls on data that other people and programs change, and
nothing the code writes is conditional. So the model gives every request a list of
calls, lets everything happen between any two of them (`Others`), lets every call
fail and every answer be lost, and asks what can be said all the same. A write may be
out of date when it acts. But it must have been right at *one moment of its request*:
never because of what was so before the request, or of facts that held at different
moments. Nothing is exempt because others have touched it. The moments are history:

| History | Of a request |
|---|---|
| `ShoppingList`: `once` | the tasks its write has been right for (`Right`) at some moment since it began: the only match of the words, completed on the list, open on the list, or anything while nothing of the content to add was there |
| `ShoppingList`: `owed` | for a clear: the tasks completed when it began, or when it listed, and ever since |
| `TaskLists`: `here` | the tasks that have been in its list at some moment since it last checked the list |
| `TaskLists`: `owed` | for a deletion: the tasks it listed and has not itself completed yet |
| `TaskLists`: `whole` | for a reorder: its IDs have been all the active tasks at some moment since it last checked the list |

`Remember` keeps them, as the last conjunct of every action.

| `ShoppingList` | Code |
|---|---|
| `Begin`, `ByWords`, `ByID` | REST item routes; Alexa intents, which act by words |
| `Decide`, `Missing`, `Unique`, `Targets` | one listing, then `add`, `updateById`, `findUnique`, `clearCompleted` |
| `Write`, `WriteFails`, `Acts`, `Continue` | one write to Todoist, then the next of a clear, or the answer |

| `TaskLists` | Code |
|---|---|
| `ReadList`, `ReadTask`, `ReadTasks` | `requireList`, `requireTask`, `listActiveTasks`, each a call |
| `Write`, `Acts` | the POST or DELETE; a reorder is one command |
| `Proceed`, `MayArchive` | `deleteTaskList`: complete, next task, archive, refused for the Inbox |

**Run `Shopping`**: two requests, two items, "milk" and "oat milk" (the one within
the other), items on the list and elsewhere, active, completed, and completed
before the look-back window. Two items are enough for an ambiguity and for a clear
to stop half-way; two requests because only what happens between the steps of one
counts, whoever does it. **Run `TaskLists`**: two requests, two tasks, the Inbox and
another list. Neither run assumes fairness. Items, tasks and requests are
interchangeable, hence symmetry.

- `VoiceNeverGuesses`, `ClearSparesOpenItems`, `EditsStayOnTheList`,
  `DuplicatesNeedOverlap`: what a write acts on is in `once`. So a task that was renamed,
  reopened, completed or moved before the request looked is never hit, one that changed
  between the look and the write may be, and two adds duplicate only if there was a moment
  within each at which the item was missing.
- `ClearedIsClear`: a clear that reports success owes nothing that is still completed
  in the list, in spite of failures between its deletions.
- `WritesStayInTheList`: what a write acts on is in `here`; a deletion checks anew for
  every task, so one that leaves the list while others are completed is spared.
- `NothingActiveIsArchived`: an archived list is not the Inbox, and `owed` is empty. A
  task that is archived active came after the listing, or was reopened after the deletion
  had completed it: the code does not exclude that, and no property does.
- `ReorderIsWhole`: `whole` when the command acts.

What is *not* true, and no document says it is: requests that overlap can create
duplicates, clear a reopened item, archive a task that arrived during the
deletion; and deleting the Inbox completes all its tasks before `archiveTaskList`
refuses it (`TaskListService.ts:96-100`).

**Proved** for any sets of requests, tasks, contents and lists: all five
properties of `ShoppingList` and all three of `TaskLists`, and `TypeCorrect`.
`RememberedOK` says that what is right now is in `once`, whatever `Others` do; so what a
request decides on, being right when it decides (`UniqueFacts` for the words), is there
and stays there. That is `DecidedOK`: a request about to write has only such targets, and
a clear still has all that it owes among them. `ReadOK` is its counterpart for task lists:
past the check of the list all that is in it is in `here`; past the check of a task that
task is; a deletion that has listed owes only what it still names; a reorder about to
write was whole and names only tasks in `here`. Both are stable under `Others` because
histories only grow, and debts only shrink, until the next check (`RememberFacts`).

Contents are equal when they are equal trimmed, in lower case and with single
spaces, so a member of `Content` stands for all its spellings. A listing is one read,
as it is for lists of up to 200 tasks, a page of the code; longer ones are read page
by page, and what a request then knows is of as many moments. Comments, order values and
texts of tasks are left out; `note` stands for `updateTask` and `createComment`, whose
checks are the same.

## 7. Migrations

`record` is `lists_schema_migrations`, `ran` the schema (which bytes each file was
applied with), `lock` the session that holds the advisory lock; `source` is the
checksums of a runner's files, shorter for an older release, other if somebody has
edited one. `TryLock`, `Read`, `Adopt` and `Run` are the statements of `main`;
`Run` is a whole transaction, of which nothing stays unless it commits; `Fail` is an
error, a rollback or a crash at any point, `End` the end of the session with its lock.

**Run `Migrations`**: two runners, three files of which the earlier runner may have
applied up to two, two contents per file. Two runners and restarts without limit
give every succession of releases; a third file gives one after the adopted ones.
`RecordsTellTheSchema`, `GateComesFirst`, `LockIsReleased`, `OneHistory`. **Fairness**: a runner's
statements are answered, or its connection breaks; no fairness of `Start` or `Fail`.
`migrate.ts` sets no statement timeout: that DDL which waits for the locks of the running
service ends is this assumption, and is due to the service's transactions being short.

**Proved** for any number of runners, files and contents: `TypeCorrect`,
`RecordsAreTrue`, `GateFirst` and the refinement `RunnersWriteOneHistory`. The invariant
adds `Knows(r)`: a runner at its n-th file knows the n - 1 before it to be the recorded
ones; that stays true while it holds the lock, since others write only with the lock.
`SchemaHistory` has the same `record` and `ran` and none of the runners: a file takes
effect and is recorded at once when every earlier one is known by its checksum
(`RunStep`), or an accepted checksum is filled in (`AdoptStep`), and nothing else ever
changes; `KnownAt` reads the first condition off `Knows`.

## 8. REST requests and tags

A request is authenticated (`Begin`), resolved at Auth by the session guard
(`Guard`, on JWTs only), and routed by the kind of its principal (`TakeRoute`); tag
routes go on through the provider check (`Verify`), the ownership check
(`CheckOwner`) and the statement (`Write`), or read references and hydrate them.
`Others` is what happens meanwhile: memberships change, tasks and items appear,
move and disappear, lists are closed. `admitted` and `seen` are history: Auth has
vouched for the user, the entity has been listed, at some moment of the request.
The static token skips the guard, as in the code; `/health/ready` is public to the
guard and not to the authenticator.

**Run `RestRequests`**: two requests; one account with a task in a list,
and a tag and an item of another account that the first may name; each kind of
principal with the routes that tell them apart (`MCAsks`).
`OnlyAdmittedRequestsAct`, `AssignmentsStayInTheTenant`. Two requests of one
account are enough for an assignment and a removal to race; a foreign tag and a
foreign entity stand for all.

**Run `StaleReferences`** (violated). `docs/api.md:92` says of explorations that
stale provider references are omitted. A missing task is; a missing list is not:
`listTasks` (`RestApiController.ts:569`) throws `TaskListNotFoundError` and the
exploration fails with it for as long as the reference is stored.

**Proved** for any sets of requests, accounts, tags and entities: `TypeCorrect`,
`OnlyAdmitted`, `AssignmentsStay`, from `AdmissionOK` (beyond the guard a
request's session was vouched for) and `VerifiedOK` (about to write, the entity is
of the account and was listed, the tag is the account's).

## 9. What is only model-checked

- Liveness: `EveryCallReturns`, `CredentialsDrain`, `ProvisioningStops`,
  `EveryCallEnds`, `LockIsReleased`. The prover has no reach there.
  The refinements are of safety: the abstract specifications promise no progress.
- The two violated runs are counterexamples and need no proof.

The other way round, `TypeOK` of `TodoistClient`, `ShoppingList`, `TaskLists`,
`Migrations` and `RestRequests` is not evaluated by TLC: `TypeCorrect` proves it of every
instance, and the runs are kept for what says more.

The proofs rest on the named assumptions of the modules (distinct NULLs and model
values, a positive limit, one finite set of items, starting tables that are well
formed) and on nothing else.

## 10. What is not modelled

- **Release host tooling** (`deploy/ec2`): sequential, root-operated scripts whose
  state is that of systemd, Apache, Docker and the file system. `src/` says how they are
  called, not what they do when interrupted; a model would mostly be of them. Its
  hazard is listed and has no property: an activation that dies half-way.
- **Reads that decide nothing**: search, listings, tag lists, PDF, speech.
- **Creating a task list**: one POST without a check before it.
- **Parsing, CORS, response formats, configuration, secrets, logging**: sequential
  functions of their input, covered by the tests.
- **Timestamps and their order**, and the **connection pool**: see section 3.
- **Token contents and encryption**: a token is a value, decryption gives it back.
- `guardHttpHandler` of the session guard, which this service does not use.
