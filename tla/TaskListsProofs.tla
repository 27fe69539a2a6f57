--------------------------- MODULE TaskListsProofs ---------------------------
(***************************************************************************)
(* Proofs about TaskLists, for any requests, lists and tasks.              *)
(***************************************************************************)
EXTENDS TaskLists, TLAPS

\* A request is at a step of its operation, with the parameters it needs there.
ControlOK(r) ==
  /\ pc[r] = "idle" => op[r] = "create" /\ target[r] = NoTask /\ named[r] = {} /\ ~listed[r]
  /\ op[r] \in OnTask => target[r] # NoTask
  /\ op[r] \in {"create", "reorder"} => target[r] = NoTask
  /\ pc[r] = "tasks" => op[r] = "reorder" \/ (op[r] = "drop" /\ ~listed[r])
  /\ pc[r] = "task" => op[r] \in OnTask \cup {"drop"}
  /\ pc[r] \in {"task", "write"} /\ op[r] \in {"reorder", "drop"} => listed[r]
  /\ pc[r] = "task" /\ op[r] = "drop" => target[r] \in named[r]
  /\ pc[r] = "write" /\ op[r] = "drop" =>
       target[r] \in named[r] \/ (target[r] = NoTask /\ named[r] = {} /\ list[r] # Inbox)

\* What a request has read since it checked the list is remembered; a deletion still names
\* all that it owes.
ReadOK(r) ==
  /\ pc[r] \notin {"idle", "list"} => In(list[r]) \subseteq here[r]
  /\ pc[r] = "write" /\ target[r] # NoTask => target[r] \in here[r]
  /\ pc[r] = "write" /\ op[r] = "reorder" => whole[r] /\ named[r] \subseteq here[r]
  /\ op[r] = "drop" /\ listed[r] => owed[r] \subseteq named[r]

Inv == TypeOK /\ \A r \in Request : ControlOK(r) /\ ReadOK(r)

-----------------------------------------------------------------------------
(* Steps *)

LEMMA InitInv == Init => Inv
BY TaskListsAssumption DEF Init, Inv, TypeOK, ControlOK, ReadOK, Op, OnTask

LEMMA InAndActive ==
  ASSUME NEW l \in List
  PROVE  In(l) \subseteq Task /\ Active(l) \subseteq In(l)
<1>1. [list |-> l, status |-> "active"] \in Stored
  BY DEF Stored
<1> QED
  BY <1>1, TaskListsAssumption DEF In, Active, Exists

\* The histories keep their types; what was in the list only adds up until the next check,
\* and what a deletion owes shrinks by what it writes to, but for the listing.
LEMMA RememberFacts ==
  ASSUME TypeOK, Remember
  PROVE  /\ here' \in [Request -> SUBSET Task]
         /\ owed' \in [Request -> SUBSET Task]
         /\ whole' \in [Request -> BOOLEAN]
         /\ \A r \in Request :
              /\ pc'[r] \notin {"idle", "list"} =>
                   here[r] \subseteq here'[r] /\ In(list[r])' \subseteq here'[r]
              /\ op'[r] = "drop" => owed'[r] = IF pc[r] = "tasks" THEN Active(list[r])'
                                              ELSE owed[r] \ hit'[r]
              /\ pc'[r] \notin {"idle", "list"} /\ op'[r] = "reorder" =>
                   whole'[r] = (whole[r] \/ (named[r] = Active(list[r]))')
<1>1. \A r \in Request : /\ In(list[r])' \subseteq Task /\ Active(list[r])' \subseteq Task
                         /\ here[r] \subseteq Task /\ owed[r] \subseteq Task
  BY DEF In, Active, TypeOK
<1>2. /\ here' = [r \in Request |-> IF pc'[r] \in {"idle", "list"} THEN {}
                                    ELSE here[r] \cup In(list[r])']
      /\ owed' = [r \in Request |-> IF op'[r] # "drop" THEN {}
                                    ELSE IF pc[r] = "tasks" THEN Active(list[r])'
                                    ELSE owed[r] \ hit'[r]]
      /\ whole' = [r \in Request |-> /\ pc'[r] \notin {"idle", "list"} /\ op'[r] = "reorder"
                                     /\ whole[r] \/ (named[r] = Active(list[r]))']
  BY DEF Remember
<1>3. \A r \in Request :
        /\ (IF pc'[r] \in {"idle", "list"} THEN {} ELSE here[r] \cup In(list[r])') \in SUBSET Task
        /\ (IF op'[r] # "drop" THEN {} ELSE IF pc[r] = "tasks" THEN Active(list[r])'
            ELSE owed[r] \ hit'[r]) \in SUBSET Task
  BY <1>1
<1>4. here' \in [Request -> SUBSET Task] /\ owed' \in [Request -> SUBSET Task]
  BY <1>2, <1>3
<1>5. whole' \in [Request -> BOOLEAN]
  BY <1>2
<1> QED
  BY <1>2, <1>4, <1>5

\* A request that others leave alone has read what it had, and owes no more.
LEMMA ReadKept ==
  ASSUME TypeOK, Remember, NEW r \in Request, ControlOK(r), ReadOK(r), pc'[r] = pc[r],
         op'[r] = op[r], list'[r] = list[r], target'[r] = target[r], named'[r] = named[r],
         listed'[r] = listed[r]
  PROVE  ReadOK(r)'
<1>1. /\ pc[r] \notin {"idle", "list"} =>
           here[r] \subseteq here'[r] /\ In(list[r])' \subseteq here'[r]
      /\ op[r] = "drop" => owed'[r] = IF pc[r] = "tasks" THEN Active(list[r])'
                                      ELSE owed[r] \ hit'[r]
      /\ pc[r] = "write" /\ op[r] = "reorder" /\ whole[r] => whole'[r]
  BY RememberFacts
<1>2. op[r] = "drop" /\ listed[r] => owed'[r] \subseteq owed[r]
  BY <1>1 DEF ControlOK
<1> QED
  BY <1>1, <1>2 DEF ReadOK

\* What a step of one request must show for the invariant; the others' is then kept.
LEMMA StepInv ==
  ASSUME Inv, TypeOK', Remember, NEW r \in Request, ControlOK(r)', ReadOK(r)',
         \A d \in Request \ {r} :
           /\ pc'[d] = pc[d] /\ op'[d] = op[d] /\ list'[d] = list[d]
           /\ target'[d] = target[d] /\ named'[d] = named[d] /\ listed'[d] = listed[d]
  PROVE  Inv'
<1> SUFFICES ASSUME NEW d \in Request, d # r PROVE ControlOK(d)' /\ ReadOK(d)'
  BY DEF Inv
<1>1. ControlOK(d)'
  BY DEF Inv, ControlOK
<1>2. ReadOK(d)'
  BY ReadKept DEF Inv
<1> QED
  BY <1>1, <1>2

LEMMA BeginInv ==
  ASSUME Inv, NEW r \in Request, Begin(r)
  PROVE  Inv'
<1> USE TaskListsAssumption
<1>1. PICK o \in Op, l \in List :
        /\ op' = [op EXCEPT ![r] = o] /\ list' = [list EXCEPT ![r] = l]
        /\ IF o \in OnTask THEN \E t \in Task : target' = [target EXCEPT ![r] = t]
           ELSE UNCHANGED target
        /\ IF o = "reorder" THEN \E S \in SUBSET Task : named' = [named EXCEPT ![r] = S]
           ELSE UNCHANGED named
  BY DEF Begin
<1>2. /\ pc' = [pc EXCEPT ![r] = "list"] /\ UNCHANGED <<task, archived, listed>>
      /\ hit' = [hit EXCEPT ![r] = {}]
      /\ target[r] = NoTask /\ named[r] = {} /\ ~listed[r] /\ Remember
  BY DEF Inv, ControlOK, Begin, Goto
<1>3. TypeOK'
  BY <1>1, <1>2, RememberFacts DEF Inv, TypeOK
<1>4. ControlOK(r)'
  BY <1>1, <1>2 DEF Inv, TypeOK, ControlOK, Op, OnTask
<1>5. ReadOK(r)'
  BY <1>2 DEF Inv, TypeOK, ReadOK
<1> QED
  BY <1>1, <1>2, <1>3, <1>4, <1>5, StepInv DEF Inv, TypeOK

\* An answer ends a request, whatever its last call has done to the tasks.
LEMMA AnswerInv ==
  ASSUME Inv, NEW r \in Request, Answer(r),
         task' \in [Task -> Stored \cup {Unused, Deleted}], archived' \subseteq List \ {Inbox},
         hit' \in [Request -> SUBSET Task], Remember
  PROVE  Inv'
<1> USE TaskListsAssumption
<1>1. TypeOK'
  BY RememberFacts DEF Inv, TypeOK, Answer, Goto, Op
<1>2. ControlOK(r)'
  BY DEF Inv, TypeOK, ControlOK, Answer, Goto, OnTask
<1>3. ReadOK(r)'
  BY DEF Inv, TypeOK, ReadOK, Answer, Goto
<1> QED
  BY <1>1, <1>2, <1>3, StepInv DEF Inv, TypeOK, Answer, Goto

LEMMA FailsInv ==
  ASSUME Inv, NEW r \in Request, Fails(r)
  PROVE  Inv'
BY AnswerInv DEF Fails, Inv, TypeOK

LEMMA ReadListInv ==
  ASSUME Inv, NEW r \in Request, ReadList(r)
  PROVE  Inv'
<1> USE TaskListsAssumption
<1>1. UNCHANGED <<task, archived, op, list, named, listed, hit>> /\ pc[r] = "list" /\ Remember
  BY DEF ReadList
<1>2. PICK label \in {"write", "task", "tasks"} : pc' = [pc EXCEPT ![r] = label]
  BY DEF ReadList, Goto
<1>3. target' \in [Request -> Task \cup {NoTask}]
      /\ \A d \in Request \ {r} : target'[d] = target[d]
  BY DEF Inv, TypeOK, ReadList
<1>4. /\ label = "write" =>
           \/ op[r] = "create" /\ target'[r] = target[r]
           \/ op[r] = "drop" /\ listed[r] /\ named[r] = {} /\ target'[r] = NoTask
              /\ list[r] # Inbox
      /\ label = "task" => \/ op[r] \in OnTask /\ target'[r] = target[r]
                           \/ op[r] = "drop" /\ listed[r] /\ target'[r] \in named[r]
      /\ label = "tasks" => /\ op[r] = "reorder" \/ (op[r] = "drop" /\ ~listed[r])
                            /\ target'[r] = target[r]
  BY <1>2 DEF Inv, TypeOK, ReadList, Goto, MayArchive
<1>5. TypeOK'
  <2>1. pc'[r] \in {"task", "write"} =>
          (target'[r] = NoTask) =
            (op'[r] \in {"create", "reorder"} \/ (op'[r] = "drop" /\ named'[r] = {}))
    <3>1. named[r] \subseteq Task /\ pc'[r] = label
      BY <1>2 DEF Inv, TypeOK
    <3>2. CASE label = "write"
      BY <1>1, <1>4, <3>1, <3>2 DEF Inv, ControlOK
    <3>3. CASE label = "task"
      BY <1>1, <1>4, <3>1, <3>3 DEF Inv, ControlOK, OnTask
    <3> QED
      BY <3>1, <3>2, <3>3
  <2>2. /\ pc' \in [Request -> {"idle", "list", "tasks", "task", "write"}]
        /\ \A d \in Request \ {r} : pc'[d] = pc[d]
    BY <1>2 DEF Inv, TypeOK
  <2> QED
    BY <1>1, <1>3, <2>1, <2>2, RememberFacts DEF Inv, TypeOK
<1>6. ControlOK(r)'
  BY <1>1, <1>2, <1>3, <1>4 DEF Inv, TypeOK, ControlOK, OnTask
<1>7. ReadOK(r)'
  <2>1. pc'[r] = label /\ In(list[r])' \subseteq here'[r]
    BY <1>1, <1>2, RememberFacts DEF Inv, TypeOK
  <2>2. label = "write" => target'[r] = NoTask /\ op[r] # "reorder"
    BY <1>1, <1>4 DEF Inv, ControlOK
  <2>3. op[r] = "drop" /\ listed[r] => owed'[r] \subseteq owed[r]
    BY <1>1, RememberFacts DEF Inv
  <2> QED
    BY <1>1, <2>1, <2>2, <2>3 DEF Inv, ReadOK
<1> QED
  BY <1>1, <1>2, <1>3, <1>5, <1>6, <1>7, StepInv DEF Inv, TypeOK

LEMMA ReadTasksInv ==
  ASSUME Inv, NEW r \in Request, ReadTasks(r)
  PROVE  Inv'
<1> USE TaskListsAssumption
<1>1. /\ UNCHANGED <<task, archived, op, list, target, hit>> /\ pc[r] = "tasks"
      /\ listed' = [listed EXCEPT ![r] = TRUE] /\ Remember
  BY DEF ReadTasks
<1>2. /\ Active(list[r])' = Active(list[r]) /\ In(list[r])' = In(list[r])
      /\ Active(list[r]) \subseteq In(list[r]) /\ Active(list[r]) \subseteq Task
  BY <1>1, InAndActive DEF Active, In, Exists, Inv, TypeOK
<1>3. CASE op[r] = "drop"
  <2>1. named' = [named EXCEPT ![r] = Active(list[r])] /\ pc' = [pc EXCEPT ![r] = "list"]
    BY <1>3 DEF ReadTasks, Goto
  <2>2. TypeOK'
    BY <1>1, <1>2, <2>1, RememberFacts DEF Inv, TypeOK
  <2>3. ControlOK(r)'
    BY <1>1, <1>2, <1>3, <2>1 DEF Inv, TypeOK, ControlOK, OnTask
  <2>4. ReadOK(r)'
    <3>1. owed'[r] = Active(list[r]) /\ named'[r] = Active(list[r]) /\ pc'[r] = "list"
      BY <1>1, <1>2, <1>3, <2>1, RememberFacts DEF Inv, TypeOK
    <3> QED
      BY <3>1 DEF ReadOK
  <2> QED
    BY <1>1, <2>1, <2>2, <2>3, <2>4, StepInv DEF Inv, TypeOK
<1>4. CASE op[r] = "reorder"
  <2>1. /\ named' = named /\ named[r] = Active(list[r])
        /\ pc' = [pc EXCEPT ![r] = IF listed[r] THEN "write" ELSE "list"]
    BY <1>4 DEF ReadTasks, Goto, Permutes
  <2>2. TypeOK'
    BY <1>1, <1>4, <2>1, RememberFacts DEF Inv, TypeOK, ControlOK
  <2>3. ControlOK(r)'
    BY <1>1, <1>4, <2>1 DEF Inv, TypeOK, ControlOK, OnTask
  <2>4. ReadOK(r)'
    <3>1. /\ pc'[r] \in {"list", "write"} /\ op'[r] = "reorder" /\ named'[r] = named[r]
          /\ list'[r] = list[r] /\ target'[r] = NoTask
      BY <1>1, <1>4, <2>1 DEF Inv, TypeOK, ControlOK
    <3>2. pc'[r] = "write" => In(list[r])' \subseteq here'[r] /\ whole'[r]
      BY <1>1, <1>2, <2>1, <3>1, RememberFacts DEF Inv
    <3> QED
      BY <1>2, <2>1, <3>1, <3>2 DEF ReadOK
  <2> QED
    BY <1>1, <2>1, <2>2, <2>3, <2>4, StepInv DEF Inv, TypeOK
<1> QED
  BY <1>3, <1>4 DEF ReadTasks

LEMMA ReadTaskInv ==
  ASSUME Inv, NEW r \in Request, ReadTask(r)
  PROVE  Inv'
<1>1. /\ pc' = [pc EXCEPT ![r] = "write"] /\ pc[r] = "task"
      /\ UNCHANGED <<task, archived, op, list, target, named, listed, hit>>
      /\ Exists(target[r]) /\ task[target[r]].list = list[r] /\ Remember
  BY DEF ReadTask, Goto, InList
<1>2. TypeOK'
  BY <1>1, RememberFacts DEF Inv, TypeOK
<1>3. ControlOK(r)'
  BY <1>1 DEF Inv, TypeOK, ControlOK, OnTask
<1>4. ReadOK(r)'
  <2>1. target[r] \in In(list[r]) \/ target[r] = NoTask
    BY <1>1 DEF In, Inv, TypeOK
  <2>2. In(list[r])' = In(list[r])
    BY <1>1 DEF In, Exists
  <2>3. In(list[r])' \subseteq here'[r] /\ pc'[r] = "write"
    BY <1>1, RememberFacts DEF Inv, TypeOK
  <2>4. op[r] = "drop" => owed'[r] \subseteq owed[r]
    BY <1>1, RememberFacts DEF Inv
  <2>5. op[r] # "reorder"
    BY <1>1 DEF Inv, ControlOK, OnTask
  <2> QED
    BY <1>1, <2>1, <2>2, <2>3, <2>4, <2>5 DEF Inv, ReadOK
<1> QED
  BY <1>1, <1>2, <1>3, <1>4, StepInv DEF Inv, TypeOK

LEMMA ChangeType ==
  ASSUME TypeOK, NEW t \in Task, NEW new \in Stored \cup {Unused, Deleted}, Change(t, new)
  PROVE  task' \in [Task -> Stored \cup {Unused, Deleted}]
BY DEF TypeOK, Change

\* What a write does to the tasks, and what it has written to.
LEMMA ActsFacts ==
  ASSUME Inv, NEW r \in Request, pc[r] = "write", Acts(r)
  PROVE  /\ task' \in [Task -> Stored \cup {Unused, Deleted}]
         /\ archived' \subseteq List \ {Inbox}
         /\ hit' \in [Request -> SUBSET Task]
         /\ op[r] = "drop" /\ target[r] # NoTask => target[r] \in hit'[r]
<1> USE TaskListsAssumption
<1>1. CASE op[r] = "create"
  <2>1. [list |-> list[r], status |-> "active"] \in Stored
    BY DEF Inv, TypeOK, Stored
  <2>2. PICK t \in Task : /\ Change(t, [list |-> list[r], status |-> "active"])
                          /\ hit' = [hit EXCEPT ![r] = {t}] /\ UNCHANGED archived
    BY <1>1 DEF Acts, Inv, TypeOK, ControlOK
  <2> QED
    BY <1>1, <2>1, <2>2, ChangeType DEF Inv, TypeOK
<1>2. CASE target[r] # NoTask
  <2>1. target[r] \in Task /\ Exists(target[r]) /\ UNCHANGED archived
        /\ hit' = [hit EXCEPT ![r] = @ \cup {target[r]}] /\ op[r] \in OnTask \cup {"drop"}
    BY <1>2 DEF Acts, Inv, TypeOK, ControlOK, Op
  <2>2. hit' \in [Request -> SUBSET Task] /\ archived' \subseteq List \ {Inbox}
    BY <2>1 DEF Inv, TypeOK
  <2>3. CASE op[r] = "note"
    BY <1>2, <2>1, <2>2, <2>3 DEF Acts, Inv, TypeOK
  <2>4. CASE op[r] # "note"
    <3>1. task[target[r]] \in Stored
      BY <2>1 DEF Exists, Inv, TypeOK
    <3>2. [task[target[r]] EXCEPT !.status = "completed"] \in Stored
      BY <3>1 DEF Stored
    <3>3. \/ Change(target[r], Deleted)
          \/ Change(target[r], [task[target[r]] EXCEPT !.status = "completed"])
      BY <1>2, <2>1, <2>4 DEF Acts, OnTask
    <3> QED
      BY <2>1, <2>2, <3>2, <3>3, ChangeType DEF Inv
  <2> QED
    BY <2>3, <2>4
<1>3. CASE op[r] = "reorder"
  BY <1>3 DEF Acts, Inv, TypeOK, ControlOK
<1>4. CASE op[r] = "drop" /\ target[r] = NoTask
  <2>1. list[r] \in List \ {Inbox}
    BY <1>4 DEF Inv, TypeOK, ControlOK
  <2> QED
    BY <1>4, <2>1 DEF Acts, Inv, TypeOK
<1> QED
  BY <1>1, <1>2, <1>3, <1>4 DEF Acts

LEMMA WriteInv ==
  ASSUME Inv, NEW r \in Request, Write(r)
  PROVE  Inv'
<1>1. pc[r] = "write" /\ Acts(r) /\ Remember
  BY DEF Write
<1>2. CASE Answer(r)
  BY <1>1, <1>2, ActsFacts, AnswerInv
<1>3. CASE op[r] = "drop" /\ target[r] # NoTask /\ Proceed(r)
  <2>1. /\ pc' = [pc EXCEPT ![r] = "list"] /\ named' = [named EXCEPT ![r] = @ \ {target[r]}]
        /\ UNCHANGED <<op, list, target, listed>>
    BY <1>3 DEF Proceed, Goto
  <2>2. TypeOK'
    BY <1>1, <2>1, ActsFacts, RememberFacts DEF Inv, TypeOK
  <2>3. ControlOK(r)'
    BY <1>3, <2>1 DEF Inv, TypeOK, ControlOK, OnTask
  <2>4. ReadOK(r)'
    <3>1. pc'[r] = "list" /\ named'[r] = named[r] \ {target[r]}
      BY <2>1 DEF Inv, TypeOK
    <3>2. owed'[r] = owed[r] \ hit'[r] /\ target[r] \in hit'[r]
      BY <1>1, <1>3, <2>1, ActsFacts, RememberFacts DEF Inv
    <3> QED
      BY <1>3, <2>1, <3>1, <3>2 DEF Inv, ReadOK
  <2> QED
    BY <1>1, <2>1, <2>2, <2>3, <2>4, ActsFacts, StepInv DEF Inv, TypeOK
<1> QED
  BY <1>2, <1>3 DEF Write

LEMMA OthersInv ==
  ASSUME Inv, Others
  PROVE  Inv'
<1> USE TaskListsAssumption
<1>1. /\ task' \in [Task -> Stored \cup {Unused, Deleted}]
      /\ archived' \subseteq List \ {Inbox}
  <2>1. ASSUME NEW t \in Task, NEW new \in Stored \cup {Unused, Deleted}, Change(t, new),
               UNCHANGED archived
        PROVE  /\ task' \in [Task -> Stored \cup {Unused, Deleted}]
               /\ archived' \subseteq List \ {Inbox}
    BY <2>1, ChangeType DEF Inv, TypeOK
  <2>2. \A l \in List : [list |-> l, status |-> "active"] \in Stored
    BY DEF Stored
  <2>3. CASE \E l \in List \ {Inbox} : /\ archived' = (archived \ {l}) \cup ({l} \ archived)
                                       /\ UNCHANGED task
    BY <2>3 DEF Inv, TypeOK
  <2> QED
    BY <2>1, <2>2, <2>3 DEF Others
<1>2. UNCHANGED <<pc, op, list, target, named, listed, hit>> /\ Remember
  BY DEF Others, request
<1>3. TypeOK'
  BY <1>1, <1>2, RememberFacts DEF Inv, TypeOK
<1>4. ASSUME NEW r \in Request PROVE ControlOK(r)' /\ ReadOK(r)'
  <2>1. ControlOK(r)'
    BY <1>2 DEF Inv, ControlOK
  <2>2. ReadOK(r)'
    BY <1>2, ReadKept DEF Inv
  <2> QED
    BY <2>1, <2>2
<1> QED
  BY <1>3, <1>4 DEF Inv

LEMMA NextInv == Inv /\ [Next]_vars => Inv'
<1> SUFFICES ASSUME Inv, [Next]_vars PROVE Inv'
  OBVIOUS
<1>1. CASE UNCHANGED vars
  BY <1>1 DEF Inv, TypeOK, ControlOK, ReadOK, In, Exists, vars, request
<1>2. ASSUME NEW r \in Request,
             Begin(r) \/ Fails(r) \/ ReadList(r) \/ ReadTasks(r) \/ ReadTask(r) \/ Write(r)
      PROVE  Inv'
  BY <1>2, BeginInv, FailsInv, ReadListInv, ReadTasksInv, ReadTaskInv, WriteInv
<1>3. CASE Others
  BY <1>3, OthersInv
<1> QED
  BY <1>1, <1>2, <1>3 DEF Next

-----------------------------------------------------------------------------
(* The theorems *)

THEOREM Invariance == Spec => []Inv
BY InitInv, NextInv, PTL DEF Spec

\* Every variable keeps its type, and the Inbox is never archived.
THEOREM TypeCorrect == Spec => []TypeOK
<1>1. Inv => TypeOK
  BY DEF Inv
<1> QED
  BY <1>1, Invariance, PTL

\* A write of a request that is its own: no other step adds to what it has written to.
LEMMA HitFacts ==
  ASSUME Inv, Next, NEW r \in Request, hit'[r] # hit[r], hit'[r] # {}
  PROVE  Write(r)
<1>1. PICK d \in Request : Write(d)
  BY DEF Next, Begin, Fails, ReadList, ReadTasks, ReadTask, Others, Inv, TypeOK
<1>2. d = r
  BY <1>1 DEF Write, Acts, Inv, TypeOK
<1> QED
  BY <1>1, <1>2

\* What a request writes to has been in the list it names since its last check of it.
THEOREM WritesStay == Spec => WritesStayInTheList
<1>1. Inv /\ [Next]_vars =>
        [\A r \in Request : \A t \in hit'[r] \ hit[r] : Exists(t) => t \in here[r]]_vars
  <2> SUFFICES ASSUME Inv, Next, NEW r \in Request, NEW t \in hit'[r] \ hit[r], Exists(t)
               PROVE  t \in here[r]
    OBVIOUS
  <2>1. Write(r)
    BY HitFacts
  <2>2. CASE op[r] = "create"
    BY <2>1, <2>2 DEF Write, Acts, Exists, Inv, TypeOK, ControlOK
  <2>3. CASE op[r] = "reorder"
    <3>1. t \in named[r] /\ pc[r] = "write"
      BY <2>1, <2>3 DEF Write, Acts, Inv, TypeOK, ControlOK
    <3> QED
      BY <2>3, <3>1 DEF Inv, ReadOK
  <2>4. CASE op[r] \notin {"create", "reorder"}
    <3>1. t = target[r] /\ target[r] # NoTask /\ pc[r] = "write"
      BY <2>1, <2>4 DEF Write, Acts, Inv, TypeOK
    <3> QED
      BY <3>1 DEF Inv, ReadOK
  <2> QED
    BY <2>2, <2>3, <2>4
<1> QED
  BY <1>1, Invariance, PTL DEF Spec, WritesStayInTheList

\* A deletion that archives has completed all that it listed.
THEOREM ActiveIsNotArchived == Spec => NothingActiveIsArchived
<1>1. Inv /\ [Next]_vars =>
        [\A r \in Request :
           pc[r] = "write" /\ op[r] = "drop" /\ target[r] = NoTask /\ archived' # archived
             => list[r] # Inbox /\ owed[r] = {}]_vars
  <2> SUFFICES ASSUME Inv, NEW r \in Request,
                      pc[r] = "write", op[r] = "drop", target[r] = NoTask
               PROVE  list[r] # Inbox /\ owed[r] = {}
    OBVIOUS
  <2>1. listed[r] /\ named[r] = {} /\ list[r] # Inbox
    BY TaskListsAssumption DEF Inv, TypeOK, ControlOK
  <2> QED
    BY <2>1 DEF Inv, ReadOK
<1> QED
  BY <1>1, Invariance, PTL DEF Spec, NothingActiveIsArchived

\* The IDs a reorder writes have been, at one moment, those of all active tasks.
THEOREM ReordersAreWhole == Spec => ReorderIsWhole
<1>1. Inv /\ [Next]_vars =>
        [\A r \in Request : pc[r] = "write" /\ op[r] = "reorder" /\ hit'[r] # hit[r]
           => whole[r]]_vars
  BY DEF Inv, ReadOK
<1> QED
  BY <1>1, Invariance, PTL DEF Spec, ReorderIsWhole
=============================================================================
