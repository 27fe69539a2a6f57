------------------------- MODULE ShoppingListProofs -------------------------
(***************************************************************************)
(* Proofs about ShoppingList, for any requests, tasks and words.           *)
(***************************************************************************)
EXTENDS ShoppingList, FiniteSetTheorems, TLAPS

\* What is remembered of a request is at least what is so now.
RememberedOK(r) ==
  /\ op[r] # "none" => Right(r) \subseteq once[r]
  /\ op[r] # "clear" => owed[r] = {}

\* A request about to write has been right about it; a clear is to delete all that it owes.
DecidedOK(r) ==
  pc[r] = "sent" =>
    /\ op[r] = "clear" => /\ confirmed[r]
                          /\ todo[r] \subseteq once[r] /\ owed[r] \subseteq todo[r]
    /\ op[r] \in {"remove", "bought", "edit"} => todo[r] \subseteq once[r]
    /\ op[r] = "add" => Item \subseteq once[r]

\* The parameters of a request fit what it does.
ControlOK(r) ==
  /\ pc[r] \in {"done", "failed"} => op[r] = "none" /\ todo[r] = {}
  /\ pc[r] \in {"read", "sent"} => op[r] \in Op
  /\ pc[r] = "read" => op[r] \notin ByID
  /\ confirmed[r] => op[r] = "clear"
  /\ pc[r] = "read" /\ op[r] # "edit" => todo[r] = {}
  /\ op[r] \in ByWords \cup {"edit"} => words[r] \in Content

Inv == TypeOK /\ \A r \in Request : ControlOK(r) /\ RememberedOK(r) /\ DecidedOK(r)

-----------------------------------------------------------------------------
(* What is decided *)

\* The words lead to one task, and no other fits them as well.
LEMMA UniqueFacts ==
  ASSUME NEW c, NEW t \in Unique(c)
  PROVE  /\ t \in Same(c) \cup Alike(c)
         /\ \A u \in Item \ {t} : u \notin Same(c) /\ (u \in Alike(c) => t \in Same(c))
<1>1. IsFiniteSet(Same(c)) /\ IsFiniteSet(Alike(c))
  <2>1. Same(c) \subseteq Item /\ Alike(c) \subseteq Item
    BY DEF Same, Alike, Active, Listed
  <2> QED
    BY <2>1, FS_Subset, ShoppingAssumption
<1>2. CASE Cardinality(Same(c)) = 1
  BY <1>1, <1>2, FS_Singleton DEF Unique
<1>3. CASE Same(c) = {} /\ Cardinality(Alike(c)) = 1
  <2>1. Unique(c) = Alike(c)
    BY <1>3, FS_EmptySet DEF Unique
  <2> QED
    BY <1>1, <1>3, <2>1, FS_Singleton
<1> QED
  BY <1>2, <1>3 DEF Unique

-----------------------------------------------------------------------------
(* What is remembered *)

LEMMA RightIsItem ==
  ASSUME NEW r \in Request
  PROVE  Right(r) \subseteq Item /\ Completed \subseteq Item
BY DEF Right, Same, Alike, Active, Completed, Listed

\* The history of a request grows by what is right now, and a clear's debt only shrinks,
\* but for the listing.
LEMMA RememberFacts ==
  ASSUME TypeOK, Remember
  PROVE  /\ once' \in [Request -> SUBSET Item] /\ owed' \in [Request -> SUBSET Item]
         /\ \A r \in Request :
              /\ RememberedOK(r)'
              /\ op'[r] # "none" => once[r] \subseteq once'[r]
              /\ op'[r] = "clear" => owed'[r] = IF pc'[r] # pc[r] THEN Completed'
                                               ELSE owed[r] \cap Completed'
<1>1. \A r \in Request : once[r] \subseteq Item /\ owed[r] \subseteq Item
  BY DEF TypeOK
<1>2. \A r \in Request : Right(r)' \subseteq Item /\ Completed' \subseteq Item
  BY DEF Right, Same, Alike, Active, Completed, Listed
<1>3. \A r \in Request :
        /\ once'[r] = (IF op'[r] = "none" THEN {} ELSE once[r] \cup Right(r)')
        /\ owed'[r] = (IF op'[r] # "clear" THEN {} ELSE IF pc'[r] # pc[r] THEN Completed'
                       ELSE owed[r] \cap Completed')
  BY DEF Remember
<1>4. once' \in [Request -> SUBSET Item]
  <2>1. \A r \in Request :
          (IF op'[r] = "none" THEN {} ELSE once[r] \cup Right(r)') \in SUBSET Item
    BY <1>1, <1>2
  <2> QED
    BY <2>1 DEF Remember
<1>5. owed' \in [Request -> SUBSET Item]
  <2>1. \A r \in Request :
          (IF op'[r] # "clear" THEN {} ELSE IF pc'[r] # pc[r] THEN Completed'
           ELSE owed[r] \cap Completed') \in SUBSET Item
    BY <1>1, <1>2
  <2> QED
    BY <2>1 DEF Remember
<1> QED
  BY <1>3, <1>4, <1>5 DEF RememberedOK

\* A request that others leave alone has still been right about what it is to write.
LEMMA DecidedKept ==
  ASSUME NEW r \in Request, DecidedOK(r), TypeOK, Remember, pc'[r] = pc[r], op'[r] = op[r],
         confirmed'[r] = confirmed[r], todo'[r] = todo[r], op[r] = "none" => pc[r] # "sent"
  PROVE  DecidedOK(r)'
<1>1. /\ op[r] # "none" => once[r] \subseteq once'[r]
      /\ op[r] = "clear" => owed'[r] \subseteq owed[r]
  BY RememberFacts
<1> QED
  BY <1>1 DEF DecidedOK

LEMMA ChangeType ==
  ASSUME TypeOK, NEW t \in Item, NEW new \in Task \cup {Unused, Deleted}, Change(t, new)
  PROVE  task' \in [Item -> Task \cup {Unused, Deleted}]
BY DEF TypeOK, Change

-----------------------------------------------------------------------------
(* Steps *)

LEMMA InitInv == Init => Inv
BY DEF Init, Inv, TypeOK, ControlOK, RememberedOK, DecidedOK, ByWords, Op

\* What a step of one request must show for the invariant; the others' is then kept.
LEMMA StepInv ==
  ASSUME Inv, TypeOK', Remember, NEW r \in Request, ControlOK(r)', DecidedOK(r)',
         \A d \in Request \ {r} :
           /\ pc'[d] = pc[d] /\ op'[d] = op[d] /\ words'[d] = words[d]
           /\ confirmed'[d] = confirmed[d] /\ todo'[d] = todo[d]
  PROVE  Inv'
<1>1. \A d \in Request : RememberedOK(d)'
  BY RememberFacts DEF Inv
<1> SUFFICES ASSUME NEW d \in Request, d # r PROVE ControlOK(d)' /\ DecidedOK(d)'
  BY <1>1 DEF Inv
<1>2. ControlOK(d)'
  BY DEF Inv, ControlOK
<1>3. DecidedOK(d)'
  BY DecidedKept DEF Inv, ControlOK, Op, ByWords, ByID
<1> QED
  BY <1>2, <1>3

\* An answer is the end of a request.
LEMMA AnswerFacts ==
  ASSUME Inv, NEW r \in Request, NEW how \in {"done", "failed"}, Answer(r, how)
  PROVE  /\ pc' \in [Request -> {"done", "failed", "read", "sent"}]
         /\ op' \in [Request -> Op \cup {"none"}]
         /\ words' \in [Request -> Content \cup {NoContent}]
         /\ confirmed' \in [Request -> BOOLEAN] /\ todo' \in [Request -> SUBSET Item]
         /\ pc'[r] = how /\ ~confirmed'[r]
         /\ ControlOK(r)' /\ DecidedOK(r)'
         /\ \A d \in Request \ {r} :
              /\ pc'[d] = pc[d] /\ op'[d] = op[d] /\ words'[d] = words[d]
              /\ confirmed'[d] = confirmed[d] /\ todo'[d] = todo[d]
BY DEF Inv, TypeOK, Answer, ControlOK, DecidedOK, ByWords

LEMMA AnswerInv ==
  ASSUME Inv, NEW r \in Request, NEW how \in {"done", "failed"}, Answer(r, how), Remember,
         task' \in [Item -> Task \cup {Unused, Deleted}]
  PROVE  Inv'
<1>1. TypeOK'
  BY AnswerFacts, RememberFacts DEF Inv, TypeOK
<1> QED
  BY <1>1, AnswerFacts, StepInv

LEMMA BeginInv ==
  ASSUME Inv, NEW r \in Request, Begin(r)
  PROVE  Inv'
<1>1. PICK o \in Op :
        /\ op' = [op EXCEPT ![r] = o]
        /\ IF o \in ByWords \cup {"edit"} THEN \E c \in Content : words' = [words EXCEPT ![r] = c]
           ELSE UNCHANGED words
        /\ IF o \in ByID \cup {"edit"} THEN \E t \in Item : todo' = [todo EXCEPT ![r] = {t}]
           ELSE UNCHANGED todo
        /\ IF o = "clear" THEN \E b \in BOOLEAN : confirmed' = [confirmed EXCEPT ![r] = b]
           ELSE UNCHANGED confirmed
        /\ pc' = [pc EXCEPT ![r] = IF o \in ByID THEN "sent" ELSE "read"]
  BY DEF Begin
<1>2. op[r] = "none" /\ todo[r] = {} /\ ~confirmed[r]
  BY DEF Inv, ControlOK, Begin
<1>3. UNCHANGED task /\ Remember
  BY DEF Begin
<1>4. TypeOK'
  <2>1. once' \in [Request -> SUBSET Item] /\ owed' \in [Request -> SUBSET Item]
    BY <1>3, RememberFacts DEF Inv
  <2>2. /\ op' \in [Request -> Op \cup {"none"}] /\ words' \in [Request -> Content \cup {NoContent}]
        /\ confirmed' \in [Request -> BOOLEAN] /\ todo' \in [Request -> SUBSET Item]
    BY <1>1 DEF Inv, TypeOK
  <2>3. pc' \in [Request -> {"done", "failed", "read", "sent"}]
    BY <1>1 DEF Inv, TypeOK
  <2>4. pc'[r] = "sent" => todo'[r] # {} /\ op'[r] # "add"
    BY <1>1 DEF Inv, TypeOK, ByID
  <2>5. \A d \in Request \ {r} : pc'[d] = pc[d] /\ op'[d] = op[d] /\ todo'[d] = todo[d]
    BY <1>1 DEF Inv, TypeOK
  <2> QED
    BY <1>3, <2>1, <2>2, <2>3, <2>4, <2>5 DEF Inv, TypeOK
<1>5. ControlOK(r)'
  BY <1>1, <1>2 DEF Inv, TypeOK, ControlOK, ByWords, ByID, Op
<1>6. DecidedOK(r)'
  BY <1>1 DEF Inv, TypeOK, DecidedOK, ByID
<1> QED
  BY <1>1, <1>3, <1>4, <1>5, <1>6, StepInv DEF Inv, TypeOK

\* What is decided fits what was read.
LEMMA DecideInv ==
  ASSUME Inv, NEW r \in Request, Decide(r)
  PROVE  Inv'
<1> DEFINE goes == IF op[r] = "add" THEN Missing(words[r]) ELSE Targets(r) # {}
<1>1. pc[r] = "read" /\ op[r] \in ByWords \cup {"edit", "clear"} /\ UNCHANGED task
      /\ Remember
  BY DEF Inv, ControlOK, Decide, Op
<1>2. CASE ~goes
  <2>1. \E how \in {"done", "failed"} : Answer(r, how)
    BY <1>2 DEF Decide
  <2> QED
    BY <1>1, <2>1, AnswerInv DEF Inv, TypeOK
<1>3. CASE goes
  <2>1. /\ pc' = [pc EXCEPT ![r] = "sent"] /\ UNCHANGED <<op, words, confirmed>>
        /\ todo' = [todo EXCEPT ![r] = IF op[r] = "add" THEN {} ELSE Targets(r)]
    BY <1>3 DEF Decide
  <2>2. op[r] # "add" => Targets(r) \subseteq Item
    BY <1>1 DEF Targets, Unique, Same, Alike, Active, Completed, Listed, ByWords
  <2>3. TypeOK'
    <3>1. once' \in [Request -> SUBSET Item] /\ owed' \in [Request -> SUBSET Item]
      BY <1>1, RememberFacts DEF Inv
    <3> QED
      BY <1>1, <1>3, <2>1, <2>2, <3>1 DEF Inv, TypeOK
  <2>4. ControlOK(r)'
    BY <1>1, <2>1 DEF Inv, TypeOK, ControlOK, ByWords, ByID, Op
  <2>5. DecidedOK(r)'
    <3>1. /\ todo'[r] = (IF op[r] = "add" THEN {} ELSE Targets(r))
          /\ op'[r] = op[r] /\ confirmed'[r] = confirmed[r] /\ pc'[r] # pc[r]
      BY <1>1, <2>1 DEF Inv, TypeOK
    <3>2. Right(r) \subseteq once'[r]
      BY <1>1, <3>1, RememberFacts DEF Inv, RememberedOK, ByWords
    <3>3. CASE op[r] = "clear"
      <4>1. Targets(r) = (IF confirmed[r] THEN Completed ELSE {}) /\ Targets(r) # {}
        BY <1>3, <3>3 DEF Targets
      <4>2. owed'[r] = Completed'
        BY <1>1, <3>1, <3>3, RememberFacts DEF Inv
      <4>3. Completed' = Completed
        BY <1>1 DEF Completed, Listed, Exists
      <4> QED
        BY <3>1, <3>2, <3>3, <4>1, <4>2, <4>3 DEF DecidedOK, Right
    <3>4. CASE op[r] \in {"remove", "bought"}
      <4>1. Targets(r) = Unique(words[r])
        BY <3>4 DEF Targets
      <4>2. Active \subseteq Item /\ Same(words[r]) \cup Alike(words[r]) \subseteq Item
        BY DEF Active, Listed, Same, Alike
      <4>3. Unique(words[r]) \subseteq Right(r)
        BY <3>4, <4>2, UniqueFacts DEF Right
      <4> QED
        BY <3>1, <3>2, <3>4, <4>1, <4>3 DEF DecidedOK
    <3>5. CASE op[r] = "add"
      <4>1. Right(r) = Item
        BY <1>3, <3>5 DEF Right, Missing, Same
      <4> QED
        BY <3>1, <3>2, <3>5, <4>1 DEF DecidedOK
    <3>6. CASE op[r] = "edit"
      <4>1. Targets(r) \subseteq Right(r)
        BY <3>6 DEF Targets, Right
      <4> QED
        BY <3>1, <3>2, <3>6, <4>1 DEF DecidedOK
    <3> QED
      BY <1>1, <3>3, <3>4, <3>5, <3>6 DEF ByWords
  <2> QED
    BY <1>1, <2>1, <2>3, <2>4, <2>5, StepInv DEF Inv, TypeOK
<1> QED
  BY <1>2, <1>3

\* After a clear has deleted t, it does not owe t any more, and goes on with the others.
LEMMA ContinueInv ==
  ASSUME Inv, NEW r \in Request, NEW t \in Item, NEW ok \in BOOLEAN, pc[r] = "sent",
         Continue(r, t, ok), Remember, task' \in [Item -> Task \cup {Unused, Deleted}],
         ok /\ op[r] = "clear" => t \notin Completed'
  PROVE  Inv'
<1>1. CASE ~(ok /\ todo[r] \ {t} # {})
  <2>1. \E how \in {"done", "failed"} : Answer(r, how)
    BY <1>1 DEF Continue
  <2> QED
    BY <2>1, AnswerInv
<1>2. CASE ok /\ todo[r] \ {t} # {}
  <2>1. todo' = [todo EXCEPT ![r] = @ \ {t}] /\ UNCHANGED <<pc, op, words, confirmed>>
    BY <1>2 DEF Continue
  <2>2. TypeOK'
    BY <1>2, <2>1, RememberFacts DEF Inv, TypeOK
  <2>3. ControlOK(r)'
    BY <2>1 DEF Inv, TypeOK, ControlOK
  <2>4. DecidedOK(r)'
    <3>1. /\ op[r] # "none" => once[r] \subseteq once'[r]
          /\ op[r] = "clear" => owed'[r] = owed[r] \cap Completed'
      BY <2>1, RememberFacts DEF Inv
    <3>2. todo'[r] = todo[r] \ {t}
      BY <2>1 DEF Inv, TypeOK
    <3> QED
      BY <1>2, <2>1, <3>1, <3>2 DEF Inv, DecidedOK
  <2> QED
    BY <2>1, <2>2, <2>3, <2>4, StepInv DEF Inv, TypeOK
<1> QED
  BY <1>1, <1>2

\* What acts is a change of one task.
LEMMA ActsChange ==
  ASSUME Inv, NEW r \in Request, pc[r] = "sent", NEW t \in Item, Acts(r, t)
  PROVE  \E new \in Task \cup {Unused, Deleted} : Change(t, new)
<1>1. op[r] \in ByWords \cup {"edit"} => words[r] \in Content
  BY DEF Inv, ControlOK
<1>2. CASE op[r] = "add"
  <2>1. [place |-> "list", content |-> words[r], status |-> "active"] \in Task
    BY <1>1, <1>2 DEF Task, ByWords
  <2> QED
    BY <1>2, <2>1 DEF Acts, Inv, TypeOK, ByWords
<1>3. CASE op[r] # "add"
  <2>1. task[t] \in Task
    BY <1>3 DEF Acts, Inv, TypeOK, Exists
  <2>2. /\ [task[t] EXCEPT !.status = "completed"] \in Task
        /\ [task[t] EXCEPT !.status = "active"] \in Task
        /\ op[r] = "edit" => [task[t] EXCEPT !.content = words[r]] \in Task
    BY <1>1, <2>1 DEF Task
  <2> QED
    BY <1>3, <2>2 DEF Acts
<1> QED
  BY <1>2, <1>3

LEMMA WriteInv ==
  ASSUME Inv, NEW r \in Request, Write(r)
  PROVE  Inv'
<1>1. PICK t \in Item, ok \in BOOLEAN : pc[r] = "sent" /\ Acts(r, t) /\ Continue(r, t, ok)
  BY DEF Write
<1>2. task' \in [Item -> Task \cup {Unused, Deleted}]
  BY <1>1, ActsChange, ChangeType DEF Inv
<1>3. op[r] = "clear" => t \notin Completed'
  BY <1>1 DEF Acts, Change, Completed, Listed, Exists, Inv, TypeOK
<1>4. Remember
  BY DEF Write
<1> QED
  BY <1>1, <1>2, <1>3, <1>4, ContinueInv

LEMMA WriteFailsInv ==
  ASSUME Inv, NEW r \in Request, WriteFails(r)
  PROVE  Inv'
<1>1. PICK t \in Item : Continue(r, t, FALSE)
  BY DEF WriteFails, Inv, TypeOK
<1> QED
  BY <1>1, ContinueInv DEF WriteFails, Inv, TypeOK

LEMMA OthersInv ==
  ASSUME Inv, NEW t \in Item, Others(t)
  PROVE  Inv'
<1>1. \E new \in Task \cup {Unused, Deleted} : Change(t, new)
  <2>1. CASE Exists(t)
    <3>1. task[t] \in Task
      BY <2>1 DEF Inv, TypeOK, Exists
    <3>2. \A s \in {"active", "completed", "aged"} : [task[t] EXCEPT !.status = s] \in Task
      BY <3>1 DEF Task
    <3>3. CASE \E p \in {"list", "elsewhere"}, c \in Content :
                 Change(t, [task[t] EXCEPT !.place = p, !.content = c])
      <4>1. PICK p \in {"list", "elsewhere"}, c \in Content :
              Change(t, [task[t] EXCEPT !.place = p, !.content = c])
        BY <3>3
      <4>2. [task[t] EXCEPT !.place = p, !.content = c] \in Task
        BY <3>1 DEF Task
      <4> QED
        BY <4>1, <4>2
    <3>4. CASE \E s \in {"active", "completed", "aged"} :
                 Change(t, [task[t] EXCEPT !.status = s])
      BY <3>2, <3>4
    <3>5. CASE Change(t, Deleted)
      BY <3>5
    <3> QED
      BY <2>1, <3>3, <3>4, <3>5 DEF Others, Exists
  <2>2. CASE ~Exists(t)
    BY <2>2 DEF Others
  <2> QED
    BY <2>1, <2>2
<1>2. PICK new \in Task \cup {Unused, Deleted} : Change(t, new)
  BY <1>1
<1>3. UNCHANGED <<pc, op, words, confirmed, todo>> /\ Remember
  BY DEF Others, request
<1>4. TypeOK'
  BY <1>2, <1>3, ChangeType, RememberFacts DEF Inv, TypeOK
<1>5. ASSUME NEW r \in Request PROVE ControlOK(r)' /\ RememberedOK(r)' /\ DecidedOK(r)'
  <2>1. ControlOK(r)'
    BY <1>3 DEF Inv, ControlOK
  <2>2. DecidedOK(r)'
    BY <1>3, DecidedKept DEF Inv, ControlOK, Op, ByWords, ByID
  <2> QED
    BY <1>3, <2>1, <2>2, RememberFacts DEF Inv
<1> QED
  BY <1>4, <1>5 DEF Inv

LEMMA NextInv == Inv /\ [Next]_vars => Inv'
<1> SUFFICES ASSUME Inv, [Next]_vars PROVE Inv'
  OBVIOUS
<1>1. CASE UNCHANGED vars
  BY <1>1 DEF Inv, TypeOK, ControlOK, RememberedOK, DecidedOK, vars, request, Right,
              Same, Alike, Active, Completed, Listed, Exists
<1>2. ASSUME NEW r \in Request,
             Begin(r) \/ Decide(r) \/ ReadFails(r) \/ Write(r) \/ WriteFails(r)
      PROVE  Inv'
  BY <1>2, BeginInv, DecideInv, AnswerInv, WriteInv, WriteFailsInv DEF ReadFails, Inv, TypeOK
<1>3. ASSUME NEW t \in Item, Others(t) PROVE Inv'
  BY <1>3, OthersInv
<1> QED
  BY <1>1, <1>2, <1>3 DEF Next

-----------------------------------------------------------------------------
(* The theorems *)

THEOREM Invariance == Spec => []Inv
BY InitInv, NextInv, PTL DEF Spec

\* Every variable keeps its type; a request that writes has something to write.
THEOREM TypeCorrect == Spec => []TypeOK
<1>1. Inv => TypeOK
  BY DEF Inv
<1> QED
  BY <1>1, Invariance, PTL

\* A write of a request that is its own: it changes the task as Acts says, or nothing.
LEMMA ChangesFacts ==
  ASSUME Inv, Next, NEW r \in Request, NEW t \in Item, Changes(r, t)
  PROVE  Acts(r, t) /\ pc[r] = "sent"
<1>1. task'[t] # task[t] /\ pc[r] = "sent" /\ (pc'[r] # pc[r] \/ todo'[r] # todo[r])
  BY DEF Changes
<1>2. ASSUME NEW u \in Item, NEW new \in Task \cup {Unused, Deleted}, Change(u, new)
      PROVE  u = t
  BY <1>1, <1>2 DEF Change, Inv, TypeOK
<1>3. ASSUME NEW d \in Request,
             Begin(d) \/ Decide(d) \/ ReadFails(d) \/ WriteFails(d)
      PROVE  FALSE
  BY <1>1, <1>3 DEF Begin, Decide, ReadFails, WriteFails
<1>4. ASSUME NEW d \in Request, Write(d)
      PROVE  Acts(r, t)
  <2>1. PICK u \in Item, ok \in BOOLEAN : pc[d] = "sent" /\ Acts(d, u) /\ Continue(d, u, ok)
    BY <1>4 DEF Write
  <2>2. u = t
    BY <1>2, <2>1, ActsChange
  <2>3. d = r
    BY <1>1, <2>1 DEF Continue, Answer, Inv, TypeOK
  <2> QED
    BY <2>1, <2>2, <2>3
<1>5. ASSUME NEW u \in Item, Others(u) PROVE FALSE
  BY <1>1, <1>5 DEF Others, request
<1> QED
  BY <1>1, <1>3, <1>4, <1>5 DEF Next

\* Only confirmed requests clear, and what they delete has been completed, in the list, at
\* some moment of the request.
THEOREM OpenItemsSpared == Spec => ClearSparesOpenItems
<1>1. Inv /\ [Next]_vars =>
        [\A r \in Request, t \in Item : op[r] = "clear" /\ Changes(r, t) =>
           confirmed[r] /\ t \in once[r]]_vars
  <2> SUFFICES ASSUME Inv, Next, NEW r \in Request, NEW t \in Item,
                      op[r] = "clear", Changes(r, t)
               PROVE  confirmed[r] /\ t \in once[r]
    OBVIOUS
  <2>1. pc[r] = "sent" /\ t \in todo[r]
    BY ChangesFacts DEF Acts
  <2> QED
    BY <2>1 DEF Inv, DecidedOK
<1> QED
  BY <1>1, Invariance, PTL DEF Spec, ClearSparesOpenItems

\* What a voice command removes or completes was, at some moment of it, what its words
\* name, and nothing else was.
THEOREM NothingGuessed == Spec => VoiceNeverGuesses
<1>1. Inv /\ [Next]_vars =>
        [\A r \in Request, t \in Item : op[r] \in {"remove", "bought"} /\ Changes(r, t) =>
           t \in once[r]]_vars
  <2> SUFFICES ASSUME Inv, Next, NEW r \in Request, NEW t \in Item,
                      op[r] \in {"remove", "bought"}, Changes(r, t)
               PROVE  t \in once[r]
    OBVIOUS
  <2>1. pc[r] = "sent" /\ t \in todo[r]
    BY ChangesFacts DEF Acts
  <2> QED
    BY <2>1 DEF Inv, DecidedOK
<1> QED
  BY <1>1, Invariance, PTL DEF Spec, VoiceNeverGuesses

\* An add that acts had, at some moment, nothing on the list that it would duplicate.
THEOREM DuplicatesOverlap == Spec => DuplicatesNeedOverlap
<1>1. Inv /\ [Next]_vars =>
        [\A r \in Request, t \in Item : op[r] = "add" /\ Changes(r, t) =>
           t \in once[r]]_vars
  <2> SUFFICES ASSUME Inv, Next, NEW r \in Request, NEW t \in Item,
                      op[r] = "add", Changes(r, t)
               PROVE  t \in once[r]
    OBVIOUS
  <2> QED
    BY ChangesFacts DEF Inv, DecidedOK
<1> QED
  BY <1>1, Invariance, PTL DEF Spec, DuplicatesNeedOverlap

\* An edit acts on an item that has been open on the list during the request.
THEOREM EditsStay == Spec => EditsStayOnTheList
<1>1. Inv /\ [Next]_vars =>
        [\A r \in Request, t \in Item : op[r] = "edit" /\ Changes(r, t) =>
           t \in once[r]]_vars
  <2> SUFFICES ASSUME Inv, Next, NEW r \in Request, NEW t \in Item,
                      op[r] = "edit", Changes(r, t)
               PROVE  t \in once[r]
    OBVIOUS
  <2>1. pc[r] = "sent" /\ t \in todo[r]
    BY ChangesFacts DEF Acts
  <2> QED
    BY <2>1 DEF Inv, DecidedOK
<1> QED
  BY <1>1, Invariance, PTL DEF Spec, EditsStayOnTheList

\* When a clear reports success, every item it owed the deletion of is gone.
THEOREM ClearedMeansClear == Spec => ClearedIsClear
<1>1. Inv /\ [Next]_vars =>
        [\A r \in Request : confirmed[r] /\ ~confirmed'[r] /\ pc'[r] = "done" =>
           owed[r] \cap Completed' = {}]_vars
  <2> SUFFICES ASSUME Inv, Next, NEW r \in Request,
                      confirmed[r], ~confirmed'[r], pc'[r] = "done"
               PROVE  owed[r] \cap Completed' = {}
    BY DEF vars
  <2>1. op[r] = "clear" /\ pc[r] \in {"read", "sent"}
    BY DEF Inv, ControlOK, TypeOK
  <2>2. ASSUME NEW d \in Request, Begin(d) \/ ReadFails(d) PROVE FALSE
    BY <2>1, <2>2 DEF Begin, ReadFails, Answer, Inv, TypeOK
  <2>3. ASSUME NEW t \in Item, Others(t) PROVE FALSE
    BY <2>3 DEF Others, request
  <2>4. ASSUME NEW d \in Request, Decide(d) PROVE owed[r] \cap Completed' = {}
    <3>1. d = r
      BY <2>4 DEF Decide, Answer, Inv, TypeOK
    <3>2. Completed = {} /\ UNCHANGED task
      BY <2>1, <2>4, <3>1 DEF Decide, Targets
    <3> QED
      BY <3>2 DEF Completed, Listed, Exists
  <2>5. ASSUME NEW d \in Request, WriteFails(d) PROVE FALSE
    <3>1. PICK t : Continue(d, t, FALSE)
      BY <2>5 DEF WriteFails
    <3> QED
      BY <3>1 DEF Continue, Answer, Inv, TypeOK
  <2>6. ASSUME NEW d \in Request, Write(d)
        PROVE  owed[r] \cap Completed' = {}
    <3>1. PICK t \in Item, ok \in BOOLEAN : pc[d] = "sent" /\ Acts(d, t) /\ Continue(d, t, ok)
      BY <2>6 DEF Write
    <3>2. d = r /\ ok /\ todo[r] \ {t} = {}
      BY <3>1 DEF Continue, Answer, Inv, TypeOK
    <3>3. task'[t] = Deleted
      BY <2>1, <3>1, <3>2 DEF Acts, Change, Inv, TypeOK
    <3>4. t \notin Completed'
      BY <3>3 DEF Completed, Listed, Exists
    <3>5. owed[r] \subseteq {t}
      BY <2>1, <3>1, <3>2 DEF Inv, DecidedOK
    <3> QED
      BY <3>4, <3>5
  <2> QED
    BY <2>2, <2>3, <2>4, <2>5, <2>6 DEF Next
<1> QED
  BY <1>1, Invariance, PTL DEF Spec, ClearedIsClear
=============================================================================
