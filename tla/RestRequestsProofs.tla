------------------------- MODULE RestRequestsProofs -------------------------
(***************************************************************************)
(* Proofs about RestRequests, for any accounts, credentials, tags and      *)
(* entities.                                                               *)
(***************************************************************************)
EXTENDS RestRequests, TLAPS

\* The principal of a request, what it asks for, and the steps this leads to.
ControlOK(r) ==
  /\ pc[r] = "idle" => route[r] = Nothing /\ tag[r] = Nothing /\ ref[r] = Nothing
  /\ pc[r] # "idle" => who[r] \in Principal /\ route[r] \in Route
  /\ route[r] \in {"assign", "remove", "explore"} => tag[r] \in Tag /\ ref[r] \in Ref
  /\ pc[r] = "serve" => route[r] \notin TagRoute
  /\ pc[r] = "verify" => route[r] \in {"assign", "remove"}
  /\ pc[r] = "own" => route[r] = "assign"
  /\ pc[r] = "write" => route[r] \in {"create", "assign", "remove"}
  /\ pc[r] \in {"references", "hydrate"} => route[r] = "explore"

\* Past the guard a request is vouched for, past the routing it is allowed what it does.
AdmissionOK(r) ==
  /\ pc[r] # "idle" /\ session[Tenant(r)] = "admin" => admitted[r]
  /\ pc[r] \notin {"idle", "guard"} => admitted[r] \/ ~Guarded(who[r], route[r])
  /\ pc[r] \notin {"idle", "guard", "route"} => Permits(Method(r), route[r])

\* What is about to be written has been verified.
VerifiedOK(r) ==
  /\ ref[r] \in live => seen[r]
  /\ pc[r] \in {"own", "write"} /\ route[r] # "create" => seen[r] /\ Owner[ref[r]] = Tenant(r)
  /\ pc[r] = "write" /\ route[r] = "assign" => tag[r] \in tags /\ Owner[tag[r]] = Tenant(r)

Inv == TypeOK /\ \A r \in Request : ControlOK(r) /\ AdmissionOK(r) /\ VerifiedOK(r)

-----------------------------------------------------------------------------
(* Steps *)

LEMMA InitInv == Init => Inv
<1> SUFFICES ASSUME Init PROVE Inv
  OBVIOUS
<1> USE RestAssumption
<1>1. TypeOK
  BY DEF Init, TypeOK, Tasks
<1>2. \A r \in Request : ControlOK(r) /\ AdmissionOK(r) /\ VerifiedOK(r)
  BY DEF Init, ControlOK, AdmissionOK, VerifiedOK, Route, TagRoute
<1> QED
  BY <1>1, <1>2 DEF Inv

\* A request goes to its next step, with nothing else changed.
LEMMA GotoInv ==
  ASSUME Inv, NEW r \in Request, pc[r] # "idle",
         NEW label \in {"route", "serve", "verify", "own", "write", "references", "hydrate"},
         pc' = [pc EXCEPT ![r] = label], UNCHANGED <<provider, tables, input, admitted, seen>>,
         found' \in [Request -> SUBSET Ref],
         reply' \in {"none", "done", "refused", "list not found", "failed"},
         ControlOK(r)', AdmissionOK(r)', VerifiedOK(r)'
  PROVE  Inv'
<1>1. TypeOK'
  BY DEF Inv, TypeOK, provider, tables, input
<1>2. ASSUME NEW d \in Request, d # r PROVE ControlOK(d)' /\ AdmissionOK(d)' /\ VerifiedOK(d)'
  <2>1. pc'[d] = pc[d] /\ UNCHANGED <<session, live, tags, who, route, tag, ref, admitted, seen>>
    BY <1>2 DEF Inv, TypeOK, provider, tables, input
  <2> QED
    BY <2>1 DEF Inv, ControlOK, AdmissionOK, VerifiedOK, Method, Tenant
<1> QED
  BY <1>1, <1>2 DEF Inv

\* The answer ends the request, and a write may have gone before.
LEMMA AnswerInv ==
  ASSUME Inv, NEW r \in Request,
         NEW how \in {"done", "refused", "list not found", "failed"}, Answer(r, how),
         UNCHANGED provider, tags \subseteq tags', tags' \subseteq Tag,
         assigned' \subseteq tags' \X Ref
  PROVE  Inv'
<1> USE RestAssumption
<1>1. TypeOK'
  BY DEF Inv, TypeOK, Answer, provider, Tasks
<1>2. ControlOK(r)' /\ AdmissionOK(r)' /\ VerifiedOK(r)'
  <2>1. /\ pc'[r] = "idle" /\ route'[r] = Nothing /\ tag'[r] = Nothing /\ ref'[r] = Nothing
        /\ UNCHANGED live
    BY DEF Inv, TypeOK, Answer, provider
  <2>2. Nothing \notin live /\ Nothing \notin Route
    BY DEF Inv, TypeOK
  <2> QED
    BY <2>1, <2>2 DEF ControlOK, AdmissionOK, VerifiedOK, Route, TagRoute
<1>3. ASSUME NEW d \in Request, d # r PROVE ControlOK(d)' /\ AdmissionOK(d)' /\ VerifiedOK(d)'
  <2>1. /\ pc'[d] = pc[d] /\ who'[d] = who[d] /\ route'[d] = route[d] /\ tag'[d] = tag[d]
        /\ ref'[d] = ref[d] /\ admitted'[d] = admitted[d] /\ seen'[d] = seen[d]
        /\ UNCHANGED <<session, live>>
    BY <1>3 DEF Inv, TypeOK, Answer, provider
  <2>2. ControlOK(d)'
    BY <2>1 DEF Inv, ControlOK
  <2>3. AdmissionOK(d)'
    BY <2>1 DEF Inv, AdmissionOK, Method, Tenant
  <2>4. VerifiedOK(d)'
    BY <2>1 DEF Inv, VerifiedOK, Tenant
  <2> QED
    BY <2>2, <2>3, <2>4
<1> QED
  BY <1>1, <1>2, <1>3 DEF Inv

LEMMA BeginInv ==
  ASSUME Inv, NEW r \in Request, Begin(r)
  PROVE  Inv'
<1> USE RestAssumption
<1>1. PICK p \in Principal, x \in Route :
        /\ who' = [who EXCEPT ![r] = p] /\ route' = [route EXCEPT ![r] = x]
        /\ pc' = [pc EXCEPT ![r] = IF Guarded(p, x) THEN "guard" ELSE "route"]
        /\ IF x \in TagRoute \ {"create"}
           THEN \E t \in Tag, e \in Ref : tag' = [tag EXCEPT ![r] = t] /\ ref' = [ref EXCEPT ![r] = e]
           ELSE UNCHANGED <<tag, ref>>
        /\ admitted' = [admitted EXCEPT ![r] = session[p[2]] = "admin"]
  BY DEF Begin
<1>2. /\ seen' = [seen EXCEPT ![r] = ref'[r] \in live]
      /\ UNCHANGED <<session, live, lists, tags, assigned, found>> /\ reply' = "none"
  BY DEF Begin, provider, tables
<1>3. /\ tag' \in [Request -> Tag \cup {Nothing}] /\ ref' \in [Request -> Ref \cup {Nothing}]
      /\ x \in TagRoute \ {"create"} => tag'[r] \in Tag /\ ref'[r] \in Ref
      /\ \A d \in Request \ {r} : tag'[d] = tag[d] /\ ref'[d] = ref[d]
  <2>1. CASE x \in TagRoute \ {"create"}
    <3>1. PICK t \in Tag, e \in Ref : tag' = [tag EXCEPT ![r] = t] /\ ref' = [ref EXCEPT ![r] = e]
      BY <1>1, <2>1
    <3> QED
      BY <3>1 DEF Inv, TypeOK
  <2>2. CASE x \notin TagRoute \ {"create"}
    BY <1>1, <2>2 DEF Inv, TypeOK
  <2> QED
    BY <2>1, <2>2
<1>4. (session[p[2]] = "admin") \in BOOLEAN /\ (ref'[r] \in live) \in BOOLEAN
  OBVIOUS
<1>5. admitted' \in [Request -> BOOLEAN] /\ seen' \in [Request -> BOOLEAN]
  BY <1>1, <1>2, <1>4 DEF Inv, TypeOK
<1>6. TypeOK'
  BY <1>1, <1>2, <1>3, <1>5 DEF Inv, TypeOK
<1>7. /\ pc'[r] \in {"guard", "route"} /\ who'[r] = p /\ route'[r] = x
      /\ pc'[r] = "route" => ~Guarded(p, x)
      /\ session'[p[2]] = "admin" => admitted'[r]
      /\ ref'[r] \in live' => seen'[r]
  BY <1>1, <1>2 DEF Inv, TypeOK
<1>8. ControlOK(r)' /\ AdmissionOK(r)' /\ VerifiedOK(r)'
  BY <1>3, <1>7 DEF ControlOK, AdmissionOK, VerifiedOK, TagRoute, Tenant
<1>9. ASSUME NEW d \in Request, d # r PROVE ControlOK(d)' /\ AdmissionOK(d)' /\ VerifiedOK(d)'
  <2>1. /\ pc'[d] = pc[d] /\ who'[d] = who[d] /\ route'[d] = route[d] /\ tag'[d] = tag[d]
        /\ ref'[d] = ref[d] /\ admitted'[d] = admitted[d] /\ seen'[d] = seen[d]
        /\ UNCHANGED <<session, live, tags>>
    BY <1>1, <1>2, <1>3, <1>9 DEF Inv, TypeOK
  <2> QED
    BY <2>1 DEF Inv, ControlOK, AdmissionOK, VerifiedOK, Method, Tenant
<1> QED
  BY <1>6, <1>8, <1>9 DEF Inv

LEMMA QuitInv ==
  ASSUME Inv, NEW r \in Request,
         NEW how \in {"done", "refused", "list not found", "failed"}, Answer(r, how),
         UNCHANGED <<provider, tables>>
  PROVE  Inv'
BY AnswerInv DEF Inv, TypeOK, tables

\* Going on, what is known of a request stays; what it newly needs is to be shown.
LEMMA NextStepInv ==
  ASSUME Inv, NEW r \in Request, pc[r] # "idle",
         NEW label \in {"route", "serve", "verify", "own", "write", "references", "hydrate"},
         pc' = [pc EXCEPT ![r] = label], UNCHANGED <<provider, tables, input, admitted, seen>>,
         found' \in [Request -> SUBSET Ref], reply' = "none",
         admitted[r] \/ ~Guarded(who[r], route[r]),
         label # "route" => Permits(Method(r), route[r]),
         label = "serve" => route[r] \notin TagRoute,
         label = "verify" => route[r] \in {"assign", "remove"},
         label = "own" => route[r] = "assign",
         label = "write" => route[r] \in {"create", "assign", "remove"},
         label \in {"references", "hydrate"} => route[r] = "explore",
         label \in {"own", "write"} /\ route[r] # "create" => seen[r] /\ Owner[ref[r]] = Tenant(r),
         label = "write" /\ route[r] = "assign" => tag[r] \in tags /\ Owner[tag[r]] = Tenant(r)
  PROVE  Inv'
<1>1. /\ pc'[r] = label
      /\ UNCHANGED <<session, live, tags, who, route, tag, ref, admitted, seen>>
  BY DEF Inv, TypeOK, provider, tables, input
<1>2. ControlOK(r)'
  BY <1>1 DEF Inv, ControlOK
<1>3. AdmissionOK(r)'
  BY <1>1 DEF Inv, AdmissionOK, Method, Tenant
<1>4. VerifiedOK(r)'
  BY <1>1 DEF Inv, VerifiedOK, Tenant
<1> QED
  BY <1>2, <1>3, <1>4, GotoInv

LEMMA GuardInv ==
  ASSUME Inv, NEW r \in Request, Guard(r)
  PROVE  Inv'
<1>1. CASE Vouched(Tenant(r))
  <2>1. admitted[r] /\ pc[r] # "idle"
    BY <1>1 DEF Guard, Vouched, Inv, AdmissionOK
  <2> QED
    BY <1>1, <2>1, NextStepInv DEF Guard, Goto, Inv, TypeOK
<1>2. CASE ~Vouched(Tenant(r))
  BY <1>2, QuitInv DEF Guard
<1> QED
  BY <1>1, <1>2

LEMMA TakeRouteInv ==
  ASSUME Inv, NEW r \in Request, TakeRoute(r)
  PROVE  Inv'
<1>1. pc[r] = "route" /\ UNCHANGED <<provider, tables>>
  BY DEF TakeRoute
<1>2. CASE ~Permits(Method(r), route[r])
  BY <1>2, QuitInv DEF TakeRoute
<1>3. CASE Permits(Method(r), route[r])
  <2> DEFINE label == CASE route[r] \in {"assign", "remove"} -> "verify"
                        [] route[r] = "create" -> "write"
                        [] route[r] \notin TagRoute -> "serve"
                        [] OTHER -> "references"
  <2>1. Goto(r, label)
    BY <1>3 DEF TakeRoute
  <2>2. /\ label \in {"verify", "write", "serve", "references"}
        /\ label = "verify" => route[r] \in {"assign", "remove"}
        /\ label = "write" => route[r] = "create"
        /\ label = "serve" => route[r] \notin TagRoute
        /\ label = "references" => route[r] = "explore"
    BY DEF TagRoute
  <2>3. admitted[r] \/ ~Guarded(who[r], route[r])
    BY <1>1 DEF Inv, AdmissionOK
  <2> HIDE DEF label
  <2> QED
    BY <1>1, <1>3, <2>1, <2>2, <2>3, NextStepInv DEF Goto, Inv, TypeOK
<1> QED
  BY <1>2, <1>3

\* What the guard and the routing have let through stays so.
LEMMA PastRouting ==
  ASSUME Inv, NEW r \in Request, pc[r] \notin {"idle", "guard", "route"}
  PROVE  (admitted[r] \/ ~Guarded(who[r], route[r])) /\ Permits(Method(r), route[r])
BY DEF Inv, AdmissionOK

LEMMA VerifyInv ==
  ASSUME Inv, NEW r \in Request, Verify(r)
  PROVE  Inv'
<1>1. CASE ~Taggable(Tenant(r), ref[r])
  BY <1>1, QuitInv DEF Verify
<1>2. CASE Taggable(Tenant(r), ref[r])
  <2>1. seen[r] /\ Owner[ref[r]] = Tenant(r)
    BY <1>2 DEF Taggable, Inv, VerifiedOK
  <2>2. route[r] \in {"assign", "remove"} /\ pc[r] = "verify"
    BY DEF Verify, Inv, ControlOK
  <2> QED
    BY <1>2, <2>1, <2>2, PastRouting, NextStepInv DEF Verify, Goto, Inv, TypeOK
<1> QED
  BY <1>1, <1>2

LEMMA CheckOwnerInv ==
  ASSUME Inv, NEW r \in Request, CheckOwner(r)
  PROVE  Inv'
<1>1. CASE ~Mine(r)
  BY <1>1, QuitInv DEF CheckOwner
<1>2. CASE Mine(r)
  <2>1. /\ pc[r] = "own" /\ route[r] = "assign" /\ seen[r] /\ Owner[ref[r]] = Tenant(r)
        /\ tag[r] \in tags /\ Owner[tag[r]] = Tenant(r)
    BY <1>2 DEF CheckOwner, Mine, Inv, ControlOK, VerifiedOK
  <2> QED
    BY <1>2, <2>1, PastRouting, NextStepInv DEF CheckOwner, Goto, Inv, TypeOK
<1> QED
  BY <1>1, <1>2

LEMMA ReadReferencesInv ==
  ASSUME Inv, NEW r \in Request, ReadReferences(r)
  PROVE  Inv'
<1>1. found' \in [Request -> SUBSET Ref]
  BY DEF ReadReferences, Inv, TypeOK
<1>2. route[r] = "explore"
  BY DEF ReadReferences, Inv, ControlOK
<1> QED
  BY <1>1, <1>2, PastRouting, NextStepInv DEF ReadReferences

LEMMA WriteInv ==
  ASSUME Inv, NEW r \in Request, Write(r)
  PROVE  Inv'
<1>1. PICK how \in {"done", "failed"} : Answer(r, how)
  BY DEF Write
<1>2. route[r] = "assign" => tag[r] \in tags /\ ref[r] \in Ref
  BY DEF Write, Inv, ControlOK, VerifiedOK
<1>3. tags \subseteq tags' /\ tags' \subseteq Tag /\ assigned' \subseteq tags' \X Ref
  <2>1. tags \subseteq Tag /\ assigned \subseteq tags \X Ref
    BY DEF Inv, TypeOK
  <2>2. CASE route[r] = "create"
    BY <2>1, <2>2 DEF Write
  <2>3. CASE route[r] = "assign"
    BY <1>2, <2>1, <2>3 DEF Write
  <2>4. CASE route[r] = "remove"
    BY <2>1, <2>4 DEF Write
  <2> QED
    BY <2>2, <2>3, <2>4 DEF Write
<1> QED
  BY <1>1, <1>3, AnswerInv DEF Write

\* Around the requests: the histories keep up with what is vouched for and listed.
LEMMA OthersInv ==
  ASSUME Inv, Others
  PROVE  Inv'
<1> USE RestAssumption
<1>1. UNCHANGED <<tags, assigned, pc, who, route, tag, ref, found>> /\ Watch
  BY DEF Others, tables, input
<1>2. /\ session' \in [Account -> {"admin", "member", "superseded"}]
      /\ live' \subseteq Ref /\ lists' \subseteq List
      /\ \A t \in Tasks \cap live' : ListOf[t] \in lists'
  <2>1. CASE \E a \in Account : Revoke(a)
    <3>1. PICK a \in Account, s \in {"admin", "member", "superseded"} :
            session' = [session EXCEPT ![a] = s] /\ UNCHANGED <<live, lists>>
      BY <2>1 DEF Revoke
    <3> QED
      BY <3>1 DEF Inv, TypeOK
  <2>2. CASE \E e \in Ref : Appear(e) \/ Disappear(e)
    <3>1. PICK e \in Ref : Appear(e) \/ Disappear(e)
      BY <2>2
    <3>2. CASE Appear(e)
      BY <3>2 DEF Appear, Inv, TypeOK
    <3>3. CASE Disappear(e)
      BY <3>3 DEF Disappear, Inv, TypeOK
    <3> QED
      BY <3>1, <3>2, <3>3
  <2>3. CASE \E l \in lists : CloseList(l)
    <3>1. PICK l \in lists : CloseList(l)
      BY <2>3
    <3>2. /\ UNCHANGED session /\ lists' = lists \ {l} /\ live' \subseteq live
          /\ \A e \in live' : e \in Tasks => ListOf[e] # l
      BY <3>1 DEF CloseList
    <3>3. \A t \in Tasks \cap live' : ListOf[t] \in lists'
      BY <3>2 DEF Inv, TypeOK
    <3> QED
      BY <3>2, <3>3 DEF Inv, TypeOK
  <2> QED
    BY <2>1, <2>2, <2>3 DEF Others
<1>3. /\ admitted' \in [Request -> BOOLEAN] /\ seen' \in [Request -> BOOLEAN]
      /\ reply' = "none"
      /\ \A r \in Request : /\ admitted[r] => admitted'[r]
                            /\ pc[r] # "idle" /\ session'[Tenant(r)] = "admin" => admitted'[r]
                            /\ seen[r] => seen'[r]
                            /\ ref[r] \in live' => seen'[r]
  BY <1>1 DEF Watch, Inv, TypeOK
<1>4. TypeOK'
  BY <1>1, <1>2, <1>3 DEF Inv, TypeOK
<1>5. ASSUME NEW r \in Request PROVE ControlOK(r)' /\ AdmissionOK(r)' /\ VerifiedOK(r)'
  <2>1. ControlOK(r)'
    BY <1>1 DEF Inv, ControlOK
  <2>2. AdmissionOK(r)'
    BY <1>1, <1>3 DEF Inv, AdmissionOK, Method, Tenant
  <2>3. VerifiedOK(r)'
    BY <1>1, <1>3 DEF Inv, VerifiedOK, Tenant
  <2> QED
    BY <2>1, <2>2, <2>3
<1> QED
  BY <1>4, <1>5 DEF Inv

LEMMA NextInv == Inv /\ [Next]_vars => Inv'
<1> SUFFICES ASSUME Inv, [Next]_vars PROVE Inv'
  OBVIOUS
<1>1. CASE UNCHANGED vars
  BY <1>1 DEF Inv, TypeOK, ControlOK, AdmissionOK, VerifiedOK, Method, Tenant, vars, provider,
              tables, input
<1>2. ASSUME NEW r \in Request, Serve(r) \/ Hydrate(r) \/ Fails(r) PROVE Inv'
  BY <1>2, QuitInv DEF Serve, Hydrate, Fails
<1>3. ASSUME NEW r \in Request,
             \/ Begin(r) \/ Guard(r) \/ TakeRoute(r) \/ Verify(r) \/ CheckOwner(r)
             \/ Write(r) \/ ReadReferences(r)
      PROVE  Inv'
  BY <1>3, BeginInv, GuardInv, TakeRouteInv, VerifyInv, CheckOwnerInv, WriteInv,
     ReadReferencesInv
<1>4. CASE Others
  BY <1>4, OthersInv
<1> QED
  BY <1>1, <1>2, <1>3, <1>4 DEF Next

-----------------------------------------------------------------------------
(* The theorems *)

THEOREM Invariance == Spec => []Inv
BY InitInv, NextInv, PTL DEF Spec

\* Every variable keeps its type, and assignments join tags and entities there are.
THEOREM TypeCorrect == Spec => []TypeOK
<1>1. Inv => TypeOK
  BY DEF Inv
<1> QED
  BY <1>1, Invariance, PTL

\* Nothing is done for a request before it is vouched for and within its delegation.
THEOREM OnlyAdmitted == Spec => OnlyAdmittedRequestsAct
<1>1. Inv /\ [Next]_vars =>
        [\A r \in Request :
           pc[r] \in {"serve", "write"} /\ pc'[r] = "idle" /\ reply' = "done" =>
             \/ route[r] = "ready"
             \/ route[r] = "items" /\ Method(r) = "automation"
             \/ /\ admitted[r] /\ Method(r) # "automation"
                /\ Method(r) = "email" => route[r] = "dispatch"
                /\ Method(r) = "calendar" => route[r] \in {"context", "append"}]_vars
  <2> SUFFICES ASSUME Inv, NEW r \in Request, pc[r] \in {"serve", "write"}
               PROVE  \/ route[r] = "ready"
                      \/ route[r] = "items" /\ Method(r) = "automation"
                      \/ /\ admitted[r] /\ Method(r) # "automation"
                         /\ Method(r) = "email" => route[r] = "dispatch"
                         /\ Method(r) = "calendar" => route[r] \in {"context", "append"}
    OBVIOUS
  <2>1. Method(r) \in {"user", "email", "calendar", "automation"}
    BY RestAssumption DEF Inv, ControlOK, Method
  <2> QED
    BY <2>1, PastRouting DEF Permits, Guarded, Method, EmailPermits, CalendarPermits
<1> QED
  BY <1>1, Invariance, PTL DEF Spec, OnlyAdmittedRequestsAct

\* Assignments change for a user of the account of both tag and entity, and only after
\* the provider listed the entity during the request.
THEOREM AssignmentsStay == Spec => AssignmentsStayInTheTenant
<1>1. Inv /\ [Next]_vars =>
        [\A t \in Tag, e \in Ref : (<<t, e>> \in assigned) # (<<t, e>> \in assigned') =>
           /\ Owner[t] = Owner[e]
           /\ \E r \in Request : /\ pc[r] = "write" /\ pc'[r] # "write" /\ ref[r] = e
                                 /\ Method(r) = "user" /\ Tenant(r) = Owner[e]
                                 /\ seen[r]]_vars
  <2> SUFFICES ASSUME Inv, Next, NEW t \in Tag, NEW e \in Ref,
                      (<<t, e>> \in assigned) # (<<t, e>> \in assigned')
               PROVE  /\ Owner[t] = Owner[e]
                      /\ \E r \in Request : /\ pc[r] = "write" /\ pc'[r] # "write" /\ ref[r] = e
                                            /\ Method(r) = "user" /\ Tenant(r) = Owner[e]
                                            /\ seen[r]
    BY DEF vars, tables
  <2>1. PICK r \in Request : Write(r)
    BY DEF Next, Begin, Guard, TakeRoute, Serve, Verify, CheckOwner, ReadReferences, Hydrate,
           Fails, Others, tables
  <2>2. /\ pc[r] = "write" /\ route[r] \in {"assign", "remove"} /\ tag[r] = t /\ ref[r] = e
        /\ route[r] = "remove" => Owner[tag[r]] = Tenant(r)
    BY <2>1 DEF Write
  <2>3. Owner[t] = Tenant(r) /\ Owner[e] = Tenant(r) /\ seen[r]
    BY <2>2 DEF Inv, VerifiedOK
  <2>4. pc'[r] # "write"
    BY <2>1 DEF Write, Answer, Inv, TypeOK
  <2>5. Method(r) = "user"
    <3>1. Method(r) \in {"user", "email", "calendar", "automation"}
      BY <2>2, RestAssumption DEF Inv, ControlOK, Method
    <3> QED
      BY <2>2, <3>1, PastRouting DEF Permits, EmailPermits, CalendarPermits
  <2> QED
    BY <2>2, <2>3, <2>4, <2>5
<1> QED
  BY <1>1, Invariance, PTL DEF Spec, AssignmentsStayInTheTenant
=============================================================================
