---------------------------- MODULE ShoppingList ----------------------------
(***************************************************************************)
(* Concurrent requests on one account's shopping list, through REST or     *)
(* Alexa, beside people who use the same Todoist tasks directly.  A request *)
(* reads the list, decides, and writes by task ID: what it decided may no  *)
(* longer fit when the write arrives, and nothing it writes is conditional. *)
(* A write may act although its answer is lost; one that acts late is a    *)
(* request that stays "sent", its caller having given up.                  *)
(* Contents are compared trimmed, in lower case and with single spaces: a  *)
(* member of Content stands for all spellings.  A listing is one read: a    *)
(* page of up to 200 tasks.                                                *)
(***************************************************************************)
EXTENDS FiniteSets

CONSTANTS
  Request,
  Item,      \* task IDs, at most that many are ever used
  Content, NoContent,
  Within,    \* pairs: the first occurs in the second as a run of whole words
  Unused, Deleted

VARIABLES
  task,       \* Todoist's tasks, by ID
  pc,         \* each request: between calls "done" or "failed", as the last one ended
  op, words,  \* what it does, and to which words
  confirmed,  \* its caller confirmed the destructive action
  todo,       \* the IDs it is to write to
  once,       \* history: tasks its write has been right for, at some moment since it began
  owed        \* history: for a clear, tasks completed ever since it listed them

request == <<pc, op, words, confirmed, todo>>
vars == <<task, request, once, owed>>

ASSUME ShoppingAssumption ==
  /\ IsFiniteSet(Item)
  /\ Within \subseteq Content \X Content /\ NoContent \notin Content
  /\ {Unused, Deleted} \cap [place : {"list", "elsewhere"}, content : Content,
                             status : {"active", "completed", "aged"}] = {}

\* "aged": completed before the look-back window.
Task == [place : {"list", "elsewhere"}, content : Content,
         status : {"active", "completed", "aged"}]

ByWords == {"add", "remove", "bought"}
ByID == {"delete", "complete", "reopen"}
Op == ByWords \cup ByID \cup {"edit", "clear"}

Exists(t) == task[t] \notin {Unused, Deleted}
Listed(s) == {t \in Item : Exists(t) /\ task[t].place = "list" /\ task[t].status = s}
Active    == Listed("active")
Completed == Listed("completed")

TypeOK ==
  /\ task \in [Item -> Task \cup {Unused, Deleted}]
  /\ pc \in [Request -> {"done", "failed", "read", "sent"}]
  /\ op \in [Request -> Op \cup {"none"}]
  /\ words \in [Request -> Content \cup {NoContent}]
  /\ confirmed \in [Request -> BOOLEAN]
  /\ todo \in [Request -> SUBSET Item]
  /\ once \in [Request -> SUBSET Item] /\ owed \in [Request -> SUBSET Item]
  /\ \A r \in Request : pc[r] = "sent" => (todo[r] = {}) = (op[r] = "add")

Init == /\ task = [t \in Item |-> Unused]
        /\ pc = [r \in Request |-> "done"]
        /\ op = [r \in Request |-> "none"]
        /\ words = [r \in Request |-> NoContent]
        /\ confirmed = [r \in Request |-> FALSE]
        /\ todo = [r \in Request |-> {}]
        /\ once = [r \in Request |-> {}] /\ owed = [r \in Request |-> {}]

-----------------------------------------------------------------------------
(* What a request decides on what it has read *)

Same(c)  == {t \in Active : task[t].content = c}
Alike(c) == {t \in Active : <<c, task[t].content>> \in Within}

\* Faulty variant of Unique: the first of several matches is taken.
UniqueFirst(c) == LET all == IF Same(c) # {} THEN Same(c) ELSE Alike(c)
                  IN  IF all = {} THEN {} ELSE {CHOOSE t \in all : TRUE}

\* findUnique(): the one task of that content, or else the one that contains it.
Unique(c) == IF Cardinality(Same(c)) = 1 THEN Same(c)
             ELSE IF Same(c) = {} /\ Cardinality(Alike(c)) = 1 THEN Alike(c) ELSE {}

\* Faulty variant of Targets: the tasks to clear are those of status "all".
TargetsAll(r) ==
  CASE op[r] \in {"remove", "bought"} -> Unique(words[r])
    [] op[r] = "edit"  -> (todo[r] \cap Active) \ Same(words[r])
    [] op[r] = "clear" -> IF confirmed[r] THEN Completed \cup Active ELSE {}

\* Faulty variant of Targets: an edit trusts its caller's ID.
TargetsTrusting(r) ==
  CASE op[r] \in {"remove", "bought"} -> Unique(words[r])
    [] op[r] = "edit"  -> todo[r]
    [] op[r] = "clear" -> IF confirmed[r] THEN Completed ELSE {}

\* The tasks an operation will write to: none, and it ends here.
Targets(r) ==
  CASE op[r] \in {"remove", "bought"} -> Unique(words[r])
    [] op[r] = "edit"  -> (todo[r] \cap Active) \ Same(words[r])
    [] op[r] = "clear" -> IF confirmed[r] THEN Completed ELSE {}

-----------------------------------------------------------------------------
(* What is remembered for the properties; no guard reads it *)

\* The tasks that a write of r would be right for if its reading, its decision and the
\* write were one step: for an add, any new one unless the item is on the list already.
Right(r) ==
  CASE op[r] = "add"   -> {t \in Item : \A u \in Active : task[u].content # words[r]}
    [] op[r] \in {"remove", "bought"} ->
         {t \in Same(words[r]) \cup Alike(words[r]) :
            \A u \in Active \ {t} : /\ u \notin Same(words[r])
                                   /\ u \in Alike(words[r]) => t \in Same(words[r])}
    [] op[r] = "edit"  -> Active
    [] op[r] = "clear" -> Completed
    [] OTHER -> {}

\* A clear owes the deletion of what was completed when it began, or when it listed, and
\* has been ever since.
Remember ==
  /\ once' = [r \in Request |-> IF op'[r] = "none" THEN {} ELSE once[r] \cup Right(r)']
  /\ owed' = [r \in Request |-> IF op'[r] # "clear" THEN {}
                                ELSE IF pc'[r] # pc[r] THEN Completed'
                                ELSE owed[r] \cap Completed']

-----------------------------------------------------------------------------
(* Steps *)

Answer(r, how) == /\ pc' = [pc EXCEPT ![r] = how]
                  /\ op' = [op EXCEPT ![r] = "none"]
                  /\ words' = [words EXCEPT ![r] = NoContent]
                  /\ confirmed' = [confirmed EXCEPT ![r] = FALSE]
                  /\ todo' = [todo EXCEPT ![r] = {}]

Change(t, new) == task' = [task EXCEPT ![t] = new]

\* IDs are validated and used as they are; everything else reads the list first.
Begin(r) ==
  /\ pc[r] \in {"done", "failed"}
  /\ \E o \in Op :
       /\ op' = [op EXCEPT ![r] = o]
       /\ IF o \in ByWords \cup {"edit"} THEN \E c \in Content : words' = [words EXCEPT ![r] = c]
          ELSE UNCHANGED words
       /\ IF o \in ByID \cup {"edit"} THEN \E t \in Item : todo' = [todo EXCEPT ![r] = {t}]
          ELSE UNCHANGED todo
       /\ IF o = "clear" THEN \E b \in BOOLEAN : confirmed' = [confirmed EXCEPT ![r] = b]
          ELSE UNCHANGED confirmed
       /\ pc' = [pc EXCEPT ![r] = IF o \in ByID THEN "sent" ELSE "read"]
  /\ UNCHANGED task /\ Remember

\* Faulty variant of Missing: a duplicate is not looked for.
MissingAlways(c) == TRUE

Missing(c) == Same(c) = {}

\* "failed" when no task is found, or several, or the caller has to confirm first.
Decide(r) ==
  /\ pc[r] = "read"
  /\ LET write == IF op[r] = "add" THEN Missing(words[r]) ELSE Targets(r) # {}
     IN
     \/ /\ write
        /\ pc' = [pc EXCEPT ![r] = "sent"]
        /\ todo' = [todo EXCEPT ![r] = IF op[r] = "add" THEN {} ELSE Targets(r)]
        /\ UNCHANGED <<op, words, confirmed>>
     \/ /\ ~write
        /\ Answer(r, IF \/ op[r] = "add" \/ confirmed[r]
                        \/ op[r] = "edit" /\ todo[r] \subseteq Active THEN "done" ELSE "failed")
  /\ UNCHANGED task /\ Remember

\* A read that failed, after its retries.
ReadFails(r) == pc[r] = "read" /\ Answer(r, "failed") /\ UNCHANGED task /\ Remember

\* Faulty variant of Continue: a delete that fails is passed over.
ContinuePassing(r, t, ok) ==
  IF todo[r] \ {t} # {}
  THEN todo' = [todo EXCEPT ![r] = @ \ {t}] /\ UNCHANGED <<pc, op, words, confirmed>>
  ELSE Answer(r, "done")

\* After the write to t: the next one of a clear, or the answer.  A failure ends it.
Continue(r, t, ok) ==
  IF ok /\ todo[r] \ {t} # {}
  THEN todo' = [todo EXCEPT ![r] = @ \ {t}] /\ UNCHANGED <<pc, op, words, confirmed>>
  ELSE Answer(r, IF ok THEN "done" ELSE "failed")

\* POST /tasks, POST or DELETE /tasks/{id}, /close, /reopen.
Acts(r, t) ==
  \/ /\ op[r] = "add" /\ task[t] = Unused
     /\ Change(t, [place |-> "list", content |-> words[r], status |-> "active"])
  \/ /\ t \in todo[r] /\ Exists(t)
     /\ \/ op[r] = "edit" /\ Change(t, [task[t] EXCEPT !.content = words[r]])
        \/ op[r] \in {"remove", "delete", "clear"} /\ Change(t, Deleted)
        \/ op[r] \in {"bought", "complete"}
           /\ Change(t, [task[t] EXCEPT !.status = "completed"])
        \/ op[r] = "reopen" /\ Change(t, [task[t] EXCEPT !.status = "active"])

\* The write acts; its answer arrives or is lost.
Write(r) == /\ pc[r] = "sent"
            /\ \E t \in Item, ok \in BOOLEAN : Acts(r, t) /\ Continue(r, t, ok)
            /\ Remember

\* The write does not act: the task is gone (404), or Todoist is unavailable.
WriteFails(r) == /\ pc[r] = "sent"
                 /\ \E t \in IF op[r] = "add" THEN Item ELSE todo[r] : Continue(r, t, FALSE)
                 /\ UNCHANGED task /\ Remember

\* People and other programs change the account's tasks; completed ones age.
Others(t) ==
  /\ \/ task[t] = Unused /\ \E new \in Task : new.status = "active" /\ Change(t, new)
     \/ Exists(t) /\ \E p \in {"list", "elsewhere"}, c \in Content :
                        Change(t, [task[t] EXCEPT !.place = p, !.content = c])
     \/ Exists(t) /\ \E s \in {"active", "completed"} : Change(t, [task[t] EXCEPT !.status = s])
     \/ Exists(t) /\ Change(t, Deleted)
     \/ Exists(t) /\ task[t].status = "completed" /\ Change(t, [task[t] EXCEPT !.status = "aged"])
  /\ UNCHANGED request /\ Remember

Next == \/ \E r \in Request : \/ Begin(r) \/ Decide(r) \/ ReadFails(r)
                              \/ Write(r) \/ WriteFails(r)
        \/ \E t \in Item : Others(t)

Spec == Init /\ [][Next]_vars

-----------------------------------------------------------------------------
(* Properties.  Requests are not isolated, and what a write is based on may be out of   *)
(* date when it acts.  But it must have been right at one moment between the beginning  *)
(* of its request and the write: never because of what was so before, or of what was so *)
(* at different moments.  Items that others touch meanwhile are not exempt.             *)

\* The step in which a write of r changes t.
Changes(r, t) == pc[r] = "sent" /\ <<pc[r], todo[r]>>' # <<pc[r], todo[r]>> /\ task'[t] # task[t]

\* Clearing deletes, for a caller who confirmed it, only what has been completed, and in
\* the list, at some moment of the request: neither an item that was reopened before, nor
\* one that was open or elsewhere throughout, whatever else has happened to it.
ClearSparesOpenItems ==
  [][\A r \in Request, t \in Item : op[r] = "clear" /\ Changes(r, t) =>
       confirmed[r] /\ t \in once[r]]_vars

\* A voice command never guesses: what it removes or marks as bought has been, at one
\* moment of the command, the only item its words name, though it, or others, may have
\* been renamed, added or completed before the write.
VoiceNeverGuesses ==
  [][\A r \in Request, t \in Item :
       op[r] \in {"remove", "bought"} /\ Changes(r, t) => t \in once[r]]_vars

\* An item is added only if at one moment of the request no item of that content was on
\* the list: two adds one after the other never duplicate, nor does an add while items of
\* the content come and go without a gap.
DuplicatesNeedOverlap ==
  [][\A r \in Request, t \in Item : op[r] = "add" /\ Changes(r, t) => t \in once[r]]_vars

\* An edit reaches only an item that has been open on the list at some moment of the
\* request: a task that went to another project, or was completed, before it is safe.
EditsStayOnTheList ==
  [][\A r \in Request, t \in Item :
       op[r] = "edit" /\ Changes(r, t) => t \in once[r]]_vars

\* "Cleared" can be relied upon: no item of the window that was completed when the request
\* began, or when it listed, and has been since, is still there.
ClearedIsClear ==
  [][\A r \in Request : confirmed[r] /\ ~confirmed'[r] /\ pc'[r] = "done" =>
       owed[r] \cap Completed' = {}]_vars
=============================================================================
