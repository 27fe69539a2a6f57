------------------------------ MODULE TaskLists ------------------------------
(***************************************************************************)
(* Concurrent task-list requests of one account on Todoist's projects and   *)
(* tasks, which people and other programs change at the same time.  A       *)
(* request is a series of calls: each write is preceded by reads that check *)
(* the list exists and the task is in it, and nothing holds the two        *)
(* together.  Deleting a list completes its tasks one by one, every one     *)
(* with its own checks, and archives the project at the end.               *)
(* What tasks say, and their order, is left out.  A call that fails ends    *)
(* its request; a write may act although its answer is lost.               *)
(***************************************************************************)
EXTENDS FiniteSets

CONSTANTS
  Request,
  List, Inbox,      \* Todoist projects
  Task,             \* task IDs, at most that many are ever used
  NoTask,
  Unused, Deleted

VARIABLES
  task,        \* Todoist's tasks, by ID
  archived,    \* its archived projects
  pc, op, list,
  target,      \* the task of the call, or the next one to complete
  named,       \* IDs a reorder names, or a deletion has still to complete
  listed,      \* the service has read the active tasks
  hit,         \* history: tasks this request has written to
  here,        \* history: tasks in its list at some moment since it last checked the list
  owed,        \* history: for a deletion, tasks it listed and has not completed yet
  whole        \* history: for a reorder, since it last checked the list, the IDs it names
               \* have been those of the active tasks

request == <<pc, op, list, target, named, listed>>
vars    == <<task, archived, request, hit, here, owed, whole>>

Stored == [list : List, status : {"active", "completed"}]

ASSUME TaskListsAssumption ==
  /\ Inbox \in List /\ NoTask \notin Task
  /\ {Unused, Deleted} \cap Stored = {}

\* "note" stands for updateTask and createComment, "drop" for deleteTaskList.
OnTask == {"note", "delete", "complete"}
Op == OnTask \cup {"create", "reorder", "drop"}

Exists(t) == task[t] \notin {Unused, Deleted}
Active(l) == {t \in Task : task[t] = [list |-> l, status |-> "active"]}

TypeOK ==
  /\ task \in [Task -> Stored \cup {Unused, Deleted}]
  /\ archived \subseteq List \ {Inbox}
  /\ pc \in [Request -> {"idle", "list", "tasks", "task", "write"}]
  /\ op \in [Request -> Op]
  /\ list \in [Request -> List]
  /\ target \in [Request -> Task \cup {NoTask}]
  /\ named \in [Request -> SUBSET Task]
  /\ listed \in [Request -> BOOLEAN]
  /\ hit \in [Request -> SUBSET Task] /\ here \in [Request -> SUBSET Task]
  /\ owed \in [Request -> SUBSET Task] /\ whole \in [Request -> BOOLEAN]
  /\ \A r \in Request : pc[r] \in {"task", "write"} =>
       (target[r] = NoTask) = (op[r] \in {"create", "reorder"} \/ (op[r] = "drop" /\ named[r] = {}))

Init == /\ task = [t \in Task |-> Unused] /\ archived = {}
        /\ pc = [r \in Request |-> "idle"]
        /\ op = [r \in Request |-> "create"]
        /\ list = [r \in Request |-> Inbox]
        /\ target = [r \in Request |-> NoTask]
        /\ named = [r \in Request |-> {}]
        /\ listed = [r \in Request |-> FALSE]
        /\ hit = [r \in Request |-> {}] /\ here = [r \in Request |-> {}]
        /\ owed = [r \in Request |-> {}] /\ whole = [r \in Request |-> FALSE]

-----------------------------------------------------------------------------
(* What is remembered for the properties; no guard reads it *)

In(l) == {t \in Task : Exists(t) /\ task[t].list = l}

\* The check of the list precedes every read of its tasks: what is remembered of them is
\* no older than the last one.
Remember ==
  /\ here' = [r \in Request |-> IF pc'[r] \in {"idle", "list"} THEN {}
                                ELSE here[r] \cup In(list[r])']
  /\ owed' = [r \in Request |-> IF op'[r] # "drop" THEN {}
                                ELSE IF pc[r] = "tasks" THEN Active(list[r])'
                                ELSE owed[r] \ hit'[r]]
  /\ whole' = [r \in Request |-> /\ pc'[r] \notin {"idle", "list"} /\ op'[r] = "reorder"
                                 /\ whole[r] \/ (named[r] = Active(list[r]))']

-----------------------------------------------------------------------------
(* Steps of a request *)

Goto(r, label) == pc' = [pc EXCEPT ![r] = label]

\* The answer, whatever it says.
Answer(r) == /\ Goto(r, "idle")
             /\ op' = [op EXCEPT ![r] = "create"]
             /\ list' = [list EXCEPT ![r] = Inbox]
             /\ target' = [target EXCEPT ![r] = NoTask]
             /\ named' = [named EXCEPT ![r] = {}]
             /\ listed' = [listed EXCEPT ![r] = FALSE]

\* A deletion that is not confirmed is refused before its first call: nothing happens.
Begin(r) ==
  /\ pc[r] = "idle" /\ Goto(r, "list")
  /\ \E o \in Op, l \in List, confirmed \in BOOLEAN :
       /\ o = "drop" => confirmed
       /\ op' = [op EXCEPT ![r] = o] /\ list' = [list EXCEPT ![r] = l]
       /\ IF o \in OnTask THEN \E t \in Task : target' = [target EXCEPT ![r] = t]
          ELSE UNCHANGED target
       /\ IF o = "reorder" THEN \E S \in SUBSET Task : named' = [named EXCEPT ![r] = S]
          ELSE UNCHANGED named
  /\ hit' = [hit EXCEPT ![r] = {}]
  /\ UNCHANGED <<task, archived, listed>> /\ Remember

\* Any call of a request can fail without effect, and ends it.
Fails(r) == /\ pc[r] # "idle" /\ Answer(r)
            /\ UNCHANGED <<task, archived, hit>> /\ Remember

MayArchive(l) == l # Inbox

\* requireList(): an archived project may still be found, or not.
ReadList(r) ==
  /\ pc[r] = "list"
  /\ \/ op[r] = "create" /\ Goto(r, "write") /\ UNCHANGED target
     \/ op[r] \in OnTask /\ Goto(r, "task") /\ UNCHANGED target
     \/ /\ op[r] = "reorder" \/ (op[r] = "drop" /\ ~listed[r])
        /\ Goto(r, "tasks") /\ UNCHANGED target
     \/ /\ op[r] = "drop" /\ listed[r]
        /\ \/ /\ \E t \in named[r] : target' = [target EXCEPT ![r] = t]
              /\ Goto(r, "task")
           \/ /\ named[r] = {} /\ MayArchive(list[r])
              /\ target' = [target EXCEPT ![r] = NoTask] /\ Goto(r, "write")
  /\ UNCHANGED <<task, archived, op, list, named, listed, hit>> /\ Remember

\* Faulty variant of Permutes: it is enough that the tasks are active.
PermutesSome(S, l) == S \subseteq Active(l)

\* The IDs are exactly those of the active tasks.
Permutes(S, l) == S = Active(l)

\* The active tasks are read once by a deletion, twice by a reorder.
ReadTasks(r) ==
  /\ pc[r] = "tasks"
  /\ \/ op[r] = "drop" /\ named' = [named EXCEPT ![r] = Active(list[r])] /\ Goto(r, "list")
     \/ /\ op[r] = "reorder" /\ Permutes(named[r], list[r])
        /\ Goto(r, IF listed[r] THEN "write" ELSE "list")
        /\ UNCHANGED named
  /\ listed' = [listed EXCEPT ![r] = TRUE]
  /\ UNCHANGED <<task, archived, op, list, target, hit>> /\ Remember

\* Faulty variant of InList: the project of the task is not compared.
InListAny(t, l) == Exists(t)

InList(t, l) == Exists(t) /\ task[t].list = l

\* requireTask(): a completed task is still found.
ReadTask(r) ==
  /\ pc[r] = "task" /\ InList(target[r], list[r]) /\ Goto(r, "write")
  /\ UNCHANGED <<task, archived, op, list, target, named, listed, hit>> /\ Remember

Change(t, new) == task' = [task EXCEPT ![t] = new]

\* The write arrives at Todoist and acts.
Acts(r) ==
  \/ /\ op[r] = "create" /\ list[r] \notin archived
     /\ \E t \in Task : /\ task[t] = Unused
                        /\ Change(t, [list |-> list[r], status |-> "active"])
                        /\ hit' = [hit EXCEPT ![r] = {t}]
     /\ UNCHANGED archived
  \/ /\ target[r] # NoTask /\ Exists(target[r])
     /\ hit' = [hit EXCEPT ![r] = @ \cup {target[r]}]
     /\ \/ op[r] = "note" /\ UNCHANGED task
        \/ op[r] = "delete" /\ Change(target[r], Deleted)
        \/ /\ op[r] \in {"complete", "drop"}
           /\ Change(target[r], [task[target[r]] EXCEPT !.status = "completed"])
     /\ UNCHANGED archived
  \/ /\ op[r] = "reorder"
     /\ hit' = [hit EXCEPT ![r] = {t \in named[r] : Exists(t)}]
     /\ UNCHANGED <<task, archived>>
  \/ /\ op[r] = "drop" /\ target[r] = NoTask
     /\ archived' = archived \cup {list[r]}
     /\ UNCHANGED <<task, hit>>

\* Faulty variant of Proceed: the project is archived once a task could be completed.
ProceedAtOnce(r) ==
  /\ Goto(r, "list") /\ named' = [named EXCEPT ![r] = {}]
  /\ UNCHANGED <<op, list, target, listed>>

\* A deletion goes on to its next task.
Proceed(r) ==
  /\ Goto(r, "list") /\ named' = [named EXCEPT ![r] = @ \ {target[r]}]
  /\ UNCHANGED <<op, list, target, listed>>

Write(r) ==
  /\ pc[r] = "write" /\ Acts(r)
  /\ Answer(r) \/ (op[r] = "drop" /\ target[r] # NoTask /\ Proceed(r))
  /\ Remember

\* People and other programs: create, move, complete, reopen, delete; archive projects.
Others ==
  /\ \/ \E t \in Task :
          /\ \/ task[t] = Unused /\ \E l \in List \ archived :
                   Change(t, [list |-> l, status |-> "active"])
             \/ Exists(t) /\ \E new \in Stored \cup {Deleted} : Change(t, new)
          /\ UNCHANGED archived
     \/ \E l \in List \ {Inbox} : /\ archived' = (archived \ {l}) \cup ({l} \ archived)
                                  /\ UNCHANGED task
  /\ UNCHANGED <<request, hit>> /\ Remember

Next == \/ \E r \in Request : \/ Begin(r) \/ Fails(r) \/ ReadList(r) \/ ReadTasks(r)
                              \/ ReadTask(r) \/ Write(r)
        \/ Others

Spec == Init /\ [][Next]_vars

-----------------------------------------------------------------------------
(* Properties.  Requests are not isolated, and what a write is based on may be out of   *)
(* date when it acts.  But it must have been so since the request last checked the list, *)
(* not at an earlier step of it.  Tasks that others touch meanwhile are not exempt.     *)

\* The list in the path bounds what a request can reach: it writes only to tasks that have
\* been in that list since its last check of it.  A deletion checks again for every task:
\* one that leaves the list while others are completed is spared.
WritesStayInTheList ==
  [][\A r \in Request : \A t \in hit'[r] \ hit[r] : Exists(t) => t \in here[r]]_vars

\* A list deletion never archives the Inbox, and archives a list only after it has itself
\* completed every task that was active when it listed them.  A task that is archived
\* active has come, or has been reopened, after that: not one that was reopened, moved
\* away and back or completed by somebody else before its turn.
NothingActiveIsArchived ==
  [][\A r \in Request :
       pc[r] = "write" /\ op[r] = "drop" /\ target[r] = NoTask /\ archived' # archived
         => list[r] # Inbox /\ owed[r] = {}]_vars

\* A reorder decides the order of a whole list or of nothing: the IDs it writes have been,
\* at one moment since its second check of the list, exactly those of its active tasks.
ReorderIsWhole ==
  [][\A r \in Request : pc[r] = "write" /\ op[r] = "reorder" /\ hit'[r] # hit[r]
       => whole[r]]_vars
=============================================================================
