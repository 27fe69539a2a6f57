---------------------------- MODULE RestRequests ----------------------------
(***************************************************************************)
(* Requests at the REST interface: authentication, the account session     *)
(* guard, the routes open to each kind of principal, and behind them the    *)
(* tag catalogue and its assignments.  A request reads the Auth service,    *)
(* the entity's provider and the tables one after the other; sessions are  *)
(* revoked, entities come and go, other requests write in between.          *)
(* Tokens that do not verify, public routes, bodies that do not parse and   *)
(* scopes that do not fit end a request at once and are left out.  What the *)
(* routes other than tags do is in the other modules: here they "serve".    *)
(***************************************************************************)
EXTENDS FiniteSets

CONSTANTS
  Request, Account,
  Principal,  \* pairs <<method, account>> of the credentials in use
  Asks,       \* pairs of a principal and a route it asks for
  Tag,        \* tag IDs: one per account and normalised name
  Ref,        \* what can be tagged: a Loop, a task as a member of one list, an item
  List,       \* task lists
  Owner,      \* the account of a tag, or of an entity
  Kind,       \* "loop", "task" or "item", of a reference
  ListOf,     \* the list of a task reference
  Nobody, Nothing

VARIABLES
  session,    \* Auth: what it says of the token of an account's user
  live,       \* entities their provider lists, at their place
  lists,      \* lists the provider finds
  tags, assigned,  \* lists_tags, and lists_tag_assignments as pairs
  pc, who, route, tag, ref,  \* each request: its principal and what it asks for
  found,      \* references an exploration has read
  reply,      \* the answer the last step gave, if it gave one
  admitted,   \* history: Auth has vouched for the user at some moment of it
  seen        \* history: the entity it names has been listed at some moment of it

provider == <<session, live, lists>>
tables   == <<tags, assigned>>
input    == <<who, route, tag, ref>>
vars     == <<provider, tables, pc, input, found, reply, admitted, seen>>

\* "dispatch": the operations on task lists open to email agents; "context", "append":
\* Loop reads, and the association of an event; "authorizations" is always refused.
TagRoute == {"create", "assign", "remove", "explore"}
Route == {"ready", "items", "lists", "dispatch", "loops", "context", "append",
          "connection", "authorizations"} \cup TagRoute

ASSUME RestAssumption ==
  /\ Principal \subseteq {"user", "email", "calendar", "automation"} \X Account
  /\ Asks \subseteq Principal \X Route
  /\ Owner \in [Tag \cup Ref -> Account] /\ Nobody \notin Principal
  /\ Kind \in [Ref -> {"loop", "task", "item"}]
  /\ ListOf \in [{t \in Ref : Kind[t] = "task"} -> List]
  /\ Nothing \notin Tag \cup Ref \cup Route

Tasks == {t \in Ref : Kind[t] = "task"}

TypeOK ==
  /\ session \in [Account -> {"admin", "member", "superseded"}]
  /\ live \subseteq Ref /\ lists \subseteq List
  /\ \A t \in Tasks \cap live : ListOf[t] \in lists
  /\ tags \subseteq Tag /\ assigned \subseteq tags \X Ref
  /\ pc \in [Request -> {"idle", "guard", "route", "serve", "verify", "own", "write",
                         "references", "hydrate"}]
  /\ who \in [Request -> Principal \cup {Nobody}]
  /\ route \in [Request -> Route \cup {Nothing}]
  /\ tag \in [Request -> Tag \cup {Nothing}] /\ ref \in [Request -> Ref \cup {Nothing}]
  /\ found \in [Request -> SUBSET Ref]
  /\ reply \in {"none", "done", "refused", "list not found", "failed"}
  /\ admitted \in [Request -> BOOLEAN] /\ seen \in [Request -> BOOLEAN]

Init == /\ session = [a \in Account |-> "admin"]
        /\ live \in SUBSET Ref
        /\ lists = List
        /\ tags \in SUBSET Tag /\ assigned = {}
        /\ pc = [r \in Request |-> "idle"]
        /\ who = [r \in Request |-> Nobody]
        /\ route = [r \in Request |-> Nothing]
        /\ tag = [r \in Request |-> Nothing] /\ ref = [r \in Request |-> Nothing]
        /\ found = [r \in Request |-> {}]
        /\ reply = "none"
        /\ admitted = [r \in Request |-> FALSE] /\ seen = [r \in Request |-> FALSE]

Method(r)  == who[r][1]
Tenant(r)  == who[r][2]

-----------------------------------------------------------------------------
(* Admission *)

Goto(r, label) == /\ pc' = [pc EXCEPT ![r] = label] /\ reply' = "none"
                  /\ UNCHANGED <<input, found, admitted, seen>>

\* The request is over; what it held is forgotten.
Answer(r, how) == /\ pc' = [pc EXCEPT ![r] = "idle"]
                  /\ who' = [who EXCEPT ![r] = Nobody]
                  /\ route' = [route EXCEPT ![r] = Nothing]
                  /\ tag' = [tag EXCEPT ![r] = Nothing]
                  /\ ref' = [ref EXCEPT ![r] = Nothing]
                  /\ found' = [found EXCEPT ![r] = {}]
                  /\ reply' = how
                  /\ admitted' = [admitted EXCEPT ![r] = FALSE]
                  /\ seen' = [seen EXCEPT ![r] = FALSE]

\* Faulty variant of Guarded: delegated tokens are not resolved at Auth.
GuardedUsers(p, x) == p[1] = "user" /\ x # "ready"

\* The guard resolves every JWT session, except on paths it holds to be public.
Guarded(p, x) == p[1] # "automation" /\ x # "ready"

\* authenticate(): the static token, bound to the deployment's account, or a JWT.
Begin(r) ==
  /\ pc[r] = "idle"
  /\ \E p \in Principal, x \in Route :
       /\ <<p, x>> \in Asks
       /\ who' = [who EXCEPT ![r] = p] /\ route' = [route EXCEPT ![r] = x]
       /\ pc' = [pc EXCEPT ![r] = IF Guarded(p, x) THEN "guard" ELSE "route"]
       /\ IF x \in TagRoute \ {"create"}
          THEN \E t \in Tag, e \in Ref : tag' = [tag EXCEPT ![r] = t] /\ ref' = [ref EXCEPT ![r] = e]
          ELSE UNCHANGED <<tag, ref>>
       /\ admitted' = [admitted EXCEPT ![r] = session[p[2]] = "admin"]
  /\ seen' = [seen EXCEPT ![r] = ref'[r] \in live]
  /\ reply' = "none"
  /\ UNCHANGED <<provider, tables, found>>

\* authorize(), validateSession(): the current membership, and of an administrator.
Vouched(a) == session[a] = "admin"

Guard(r) ==
  /\ pc[r] = "guard"
  /\ IF Vouched(Tenant(r)) THEN Goto(r, "route") ELSE Answer(r, "refused")
  /\ UNCHANGED <<provider, tables>>

CalendarPermits == {"context", "append"}
EmailPermits == {"dispatch"}

\* The routes a principal gets through to.
Permits(m, x) ==
  CASE m = "user" -> x \notin {"append", "authorizations"}
    [] m = "calendar" -> x \in CalendarPermits
    [] m = "email" -> x \in EmailPermits
    [] m = "automation" -> x \in {"items", "ready"}

TakeRoute(r) ==
  /\ pc[r] = "route"
  /\ IF ~Permits(Method(r), route[r]) THEN Answer(r, "refused")
     ELSE Goto(r, CASE route[r] \in {"assign", "remove"} -> "verify"
                    [] route[r] = "create" -> "write"
                    [] route[r] \notin TagRoute -> "serve"
                    [] OTHER -> "references")
  /\ UNCHANGED <<provider, tables>>

Serve(r) == /\ pc[r] = "serve" /\ Answer(r, "done")
            /\ UNCHANGED <<provider, tables>>

-----------------------------------------------------------------------------
(* Tags *)

\* Faulty variant of Taggable: any account's entity will do.
TaggableAny(a, e) == e \in live

\* assertTaggableEntity(): the tenant's own connection lists it.
Taggable(a, e) == e \in live /\ Owner[e] = a

Verify(r) ==
  /\ pc[r] = "verify"
  /\ IF ~Taggable(Tenant(r), ref[r]) THEN Answer(r, "refused")
     ELSE Goto(r, IF route[r] = "assign" THEN "own" ELSE "write")
  /\ UNCHANGED <<provider, tables>>

Mine(r) == tag[r] \in tags /\ Owner[tag[r]] = Tenant(r)

CheckOwner(r) ==
  /\ pc[r] = "own"
  /\ IF Mine(r) THEN Goto(r, "write") ELSE Answer(r, "refused")
  /\ UNCHANGED <<provider, tables>>

\* One statement: the upsert of a tag, the insert or the delete of an assignment; the
\* answer may be lost.
Write(r) ==
  /\ pc[r] = "write"
  /\ \/ /\ route[r] = "create" /\ \E t \in Tag : Owner[t] = Tenant(r) /\ tags' = tags \cup {t}
        /\ UNCHANGED assigned
     \/ route[r] = "assign" /\ assigned' = assigned \cup {<<tag[r], ref[r]>>} /\ UNCHANGED tags
     \/ /\ route[r] = "remove" /\ UNCHANGED tags
        /\ assigned' = IF Owner[tag[r]] = Tenant(r) THEN assigned \ {<<tag[r], ref[r]>>}
                       ELSE assigned
  /\ \E how \in {"done", "failed"} : Answer(r, how)
  /\ UNCHANGED provider

\* explore(): the tenant's references of the kind, which here is that of `ref`.
ReadReferences(r) ==
  /\ pc[r] = "references"
  /\ pc' = [pc EXCEPT ![r] = "hydrate"]
  /\ found' = [found EXCEPT ![r] = {e \in Ref : /\ <<tag[r], e>> \in assigned
                                                /\ Owner[tag[r]] = Tenant(r)
                                                /\ Kind[e] = Kind[ref[r]]}]
  /\ reply' = "none"
  /\ UNCHANGED <<provider, tables, input, admitted, seen>>

\* Their labels are read; listTasks() throws when the list of a task is not found.
Hydrate(r) ==
  /\ pc[r] = "hydrate"
  /\ Answer(r, IF \E e \in found[r] \cap Tasks : ListOf[e] \notin lists
               THEN "list not found" ELSE "done")
  /\ UNCHANGED <<provider, tables>>

\* Auth, the provider or the database does not answer.
Fails(r) == /\ pc[r] \notin {"idle", "route"} /\ Answer(r, "failed")
            /\ UNCHANGED <<provider, tables>>

-----------------------------------------------------------------------------
(* The services around *)

Watch == /\ admitted' = [r \in Request |-> admitted[r] \/ (/\ pc[r] # "idle"
                                                           /\ session'[Tenant(r)] = "admin")]
         /\ seen' = [r \in Request |-> seen[r] \/ ref[r] \in live']
         /\ reply' = "none"

\* A newer membership replaces the token for good; the role may change back.
Revoke(a) ==
  /\ \E r \in Principal : r[2] = a
  /\ session[a] # "superseded"
  /\ \E s \in {"admin", "member", "superseded"} : session' = [session EXCEPT ![a] = s]
  /\ UNCHANGED <<live, lists>>

\* Entities appear; tasks and items disappear, move, or age out of the window; Loops stay.
Appear(e)    == /\ e \in Tasks => ListOf[e] \in lists
                /\ live' = live \cup {e} /\ UNCHANGED <<session, lists>>
Disappear(e) == Kind[e] # "loop" /\ live' = live \ {e} /\ UNCHANGED <<session, lists>>
CloseList(l) == /\ lists' = lists \ {l}
                /\ live' = {e \in live : e \in Tasks => ListOf[e] # l} /\ UNCHANGED session

Others == /\ \/ \E a \in Account : Revoke(a)
             \/ \E e \in Ref : Appear(e) \/ Disappear(e)
             \/ \E l \in lists : CloseList(l)
          /\ Watch
          /\ UNCHANGED <<tables, pc, input, found>>

Next == \/ \E r \in Request : \/ Begin(r) \/ Guard(r) \/ TakeRoute(r) \/ Serve(r)
                              \/ Verify(r) \/ CheckOwner(r) \/ Write(r)
                              \/ ReadReferences(r) \/ Hydrate(r) \/ Fails(r)
        \/ Others

Spec == Init /\ [][Next]_vars

-----------------------------------------------------------------------------
(* Properties *)

\* A request that does anything was admitted to it: by the static token, on the shopping
\* list only; or by a session that Auth vouched for at some moment of the request, even
\* if it has been revoked since, and a delegated one only within its delegation.
OnlyAdmittedRequestsAct ==
  [][\A r \in Request :
       pc[r] \in {"serve", "write"} /\ pc'[r] = "idle" /\ reply' = "done" =>
         \/ route[r] = "ready"
         \/ route[r] = "items" /\ Method(r) = "automation"
         \/ /\ admitted[r] /\ Method(r) # "automation"
            /\ Method(r) = "email" => route[r] = "dispatch"
            /\ Method(r) = "calendar" => route[r] \in {"context", "append"}]_vars

\* Assignments stay in the tenant: each joins a tag of an account to an entity of the
\* same account, and is made, or removed, only while or after the entity was listed by
\* the provider during the very request, whatever happened to it since.
AssignmentsStayInTheTenant ==
  [][\A t \in Tag, e \in Ref : (<<t, e>> \in assigned) # (<<t, e>> \in assigned') =>
       /\ Owner[t] = Owner[e]
       /\ \E r \in Request : /\ pc[r] = "write" /\ pc'[r] # "write" /\ ref[r] = e
                             /\ Method(r) = "user" /\ Tenant(r) = Owner[e]
                             /\ seen[r]]_vars

\* What api.md says of explorations: stale provider references are omitted; they do not
\* make the exploration fail.
StaleReferencesAreOmitted == reply # "list not found"
=============================================================================
