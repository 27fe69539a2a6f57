------------------------- MODULE TodoistClientProofs -------------------------
(***************************************************************************)
(* Proofs about TodoistClient, for any callers, keys, attempts and calls.  *)
(***************************************************************************)
EXTENDS TodoistClient, TLAPS

\* Writes that left their caller.
Posted == effects \cup late

\* m is the write of c's call under way, or of its last one.
OfCall(m, c) == m.caller = c /\ m.call = n[c]

MessagesOK ==
  /\ \A m \in Posted : m.header = m.key /\ m.call <= n[m.caller]
  /\ \A x, y \in Posted : x.caller = y.caller /\ x.call = y.call => x = y
  /\ \A x, y \in effects : x.key = y.key /\ x.key # NoKey => x = y

\* A write that may still be sent has not been, and it is not waiting to be sent again.
CallOK(c) ==
  /\ pc[c] # "idle" => n[c] \in 1..MaxCalls
  /\ \A m \in Posted : OfCall(m, c) => m.key = key[c]
  /\ pc[c] \in {"token", "sent"} /\ IsWrite(method[c]) => \A m \in Posted : ~OfCall(m, c)
  /\ pc[c] = "sleep" => ~IsWrite(method[c]) /\ attempt[c] < MaxAttempts
  /\ pc[c] = "body" /\ IsWrite(method[c]) => DidAct(c) /\ \A m \in late : ~OfCall(m, c)

AnswerOK(c) ==
  pc[c] = "idle" /\ IsWrite(method[c]) =>
    /\ reply[c] \in {"ok", "malformed"} => DidAct(c)
    /\ reply[c] \in {"refused", "rejected"} => \A m \in Posted : ~OfCall(m, c)

Inv == TypeOK /\ MessagesOK /\ \A c \in Caller : CallOK(c) /\ AnswerOK(c)

-----------------------------------------------------------------------------
(* The network *)

LEMMA InitInv == Init => Inv
BY ClientAssumption
   DEF Init, Inv, TypeOK, MessagesOK, CallOK, AnswerOK, Posted, IsWrite, Method

LEMMA SentType ==
  ASSUME Inv, NEW c \in Caller, pc[c] = "sent"
  PROVE  Sent(c) \in Message /\ Sent(c).header = Sent(c).key /\ OfCall(Sent(c), c)
BY DEF Inv, TypeOK, CallOK, Sent, Header, Message, OfCall

\* A write that acts is done once; without a key it is always, with one if it is new.
LEMMA ActOnce ==
  ASSUME Inv, NEW m \in Message, m.header = m.key, Act(m)
  PROVE  /\ effects \subseteq effects' /\ effects' \subseteq effects \cup {m}
         /\ m \in effects' \/ (m.key # NoKey /\ \E x \in effects' : x.key = m.key)
         /\ \A x, y \in effects' : x.key = y.key /\ x.key # NoKey => x = y
BY DEF Act, Inv, MessagesOK, Posted

\* What a step of one caller must show for the invariant; the others' is then kept.
LEMMA StepInv ==
  ASSUME Inv, TypeOK', NEW c \in Caller, CallOK(c)', AnswerOK(c)',
         \A d \in Caller \ {c} :
           /\ pc'[d] = pc[d] /\ method'[d] = method[d] /\ key'[d] = key[d]
           /\ attempt'[d] = attempt[d] /\ n'[d] = n[d] /\ reply'[d] = reply[d],
         n'[c] >= n[c], effects \subseteq effects',
         \A x, y \in effects' : x.key = y.key /\ x.key # NoKey => x = y,
         \/ Posted' \subseteq Posted /\ late' \subseteq late
         \/ /\ pc[c] = "sent" /\ IsWrite(method[c]) /\ UNCHANGED n
            /\ Posted' \subseteq Posted \cup {Sent(c)} /\ late' \subseteq late \cup {Sent(c)}
  PROVE  Inv'
<1>1. \A m \in Posted' : m \in Message /\ m.header = m.key /\ m.call <= n'[m.caller]
  <2> SUFFICES ASSUME NEW m \in Posted'
               PROVE  m \in Message /\ m.header = m.key /\ m.call <= n'[m.caller]
    OBVIOUS
  <2>1. CASE m \in Posted
    <3>1. m \in Message /\ m.header = m.key /\ m.call <= n[m.caller]
      BY <2>1 DEF Inv, TypeOK, MessagesOK, Posted
    <3>2. n[m.caller] <= n'[m.caller] /\ n[m.caller] \in Nat /\ n'[m.caller] \in Nat
      BY <3>1, ClientAssumption DEF Message, Inv, TypeOK
    <3> QED
      BY <3>1, <3>2, ClientAssumption DEF Message
  <2>2. CASE m \notin Posted
    BY <2>2, SentType, ClientAssumption DEF OfCall, Inv, TypeOK
  <2> QED
    BY <2>1, <2>2
<1>2. \A x, y \in Posted' : x.caller = y.caller /\ x.call = y.call => x = y
  <2>1. CASE Posted' \subseteq Posted
    BY <2>1 DEF Inv, MessagesOK
  <2>2. CASE /\ pc[c] = "sent" /\ IsWrite(method[c])
             /\ Posted' \subseteq Posted \cup {Sent(c)}
    BY <2>2, SentType DEF Inv, MessagesOK, CallOK, OfCall
  <2> QED
    BY <2>1, <2>2
<1>3. ASSUME NEW d \in Caller, d # c PROVE CallOK(d)' /\ AnswerOK(d)'
  <2>1. DidAct(d) => DidAct(d)'
    BY <1>3 DEF DidAct
  <2>2. ASSUME \A m \in Posted : ~OfCall(m, d), NEW m \in Posted' PROVE ~OfCall(m, d)'
    BY <1>3, <2>2, SentType DEF OfCall
  <2>3. ASSUME NEW m \in Posted', OfCall(m, d)' PROVE m.key = key'[d]
    BY <1>3, <2>3, SentType DEF Inv, CallOK, OfCall
  <2>4. ASSUME \A m \in late : ~OfCall(m, d), NEW m \in late' PROVE ~OfCall(m, d)'
    BY <1>3, <2>4, SentType DEF OfCall
  <2> QED
    BY <1>3, <2>1, <2>2, <2>3, <2>4 DEF Inv, CallOK, AnswerOK
<1> QED
  BY <1>1, <1>2, <1>3 DEF Inv, MessagesOK

-----------------------------------------------------------------------------
(* The steps of a call *)

\* Steps that change no message.
LEMMA QuietInv ==
  ASSUME Inv, TypeOK', NEW c \in Caller, CallOK(c)', AnswerOK(c)', UNCHANGED <<effects, late>>,
         \A d \in Caller \ {c} :
           /\ pc'[d] = pc[d] /\ method'[d] = method[d] /\ key'[d] = key[d]
           /\ attempt'[d] = attempt[d] /\ n'[d] = n[d] /\ reply'[d] = reply[d],
         n'[c] >= n[c]
  PROVE  Inv'
<1>1. \A x, y \in effects' : x.key = y.key /\ x.key # NoKey => x = y
  BY DEF Inv, MessagesOK
<1>2. Posted' \subseteq Posted /\ late' \subseteq late /\ effects \subseteq effects'
  BY DEF Posted
<1> QED
  BY <1>1, <1>2, StepInv

\* A new call: its number is beyond what was posted.
LEMMA CallInv ==
  ASSUME Inv, NEW c \in Caller, Call(c)
  PROVE  Inv'
<1> USE ClientAssumption
<1>1. TypeOK'
  BY DEF Inv, TypeOK, Call, Method
<1>2. n'[c] = n[c] + 1 /\ n[c] \in 0..MaxCalls /\ n[c] < MaxCalls /\ pc'[c] = "token"
  BY DEF Inv, TypeOK, Call
<1>3. \A m \in Posted' : ~OfCall(m, c)'
  <2> SUFFICES ASSUME NEW m \in Posted, m.caller = c PROVE m.call # n'[c]
    BY DEF Posted, OfCall, Call
  <2>1. m.call <= n[c] /\ m.call \in Nat
    BY DEF Inv, TypeOK, MessagesOK, Posted, Message
  <2> QED
    BY <1>2, <2>1
<1>4. CallOK(c)' /\ AnswerOK(c)'
  BY <1>2, <1>3 DEF CallOK, AnswerOK
<1> QED
  BY <1>1, <1>2, <1>4, QuietInv DEF Inv, TypeOK, Call

LEMMA SendInv ==
  ASSUME Inv, NEW c \in Caller, Send(c)
  PROVE  Inv'
<1>1. TypeOK'
  BY DEF Inv, TypeOK, Send, Return
<1>2. CallOK(c)' /\ AnswerOK(c)'
  BY DEF Inv, TypeOK, CallOK, AnswerOK, Send, Return, Posted, OfCall
<1> QED
  BY <1>1, <1>2, QuietInv DEF Inv, TypeOK, Send, Return

LEMMA ServedPermanentInv ==
  ASSUME Inv, NEW c \in Caller, ServedPermanent(c)
  PROVE  Inv'
<1>1. TypeOK'
  BY DEF Inv, TypeOK, ServedPermanent, Return
<1>2. CallOK(c)' /\ AnswerOK(c)'
  BY DEF Inv, TypeOK, CallOK, AnswerOK, ServedPermanent, Return, Posted, OfCall
<1> QED
  BY <1>1, <1>2, QuietInv DEF Inv, TypeOK, ServedPermanent, Return

\* Only reads wait, and they have attempts left.
LEMMA WakeInv ==
  ASSUME Inv, NEW c \in Caller, Wake(c)
  PROVE  Inv'
<1>1. TypeOK'
  <2>1. attempt[c] \in 1..MaxAttempts /\ attempt[c] < MaxAttempts
    BY DEF Inv, TypeOK, CallOK, Wake
  <2>2. attempt' \in [Caller -> 1..MaxAttempts]
    BY <2>1, ClientAssumption DEF Inv, TypeOK, Wake, NextAttempt
  <2> QED
    BY <2>2 DEF Inv, TypeOK, Wake
<1>2. CallOK(c)' /\ AnswerOK(c)'
  BY DEF Inv, TypeOK, CallOK, AnswerOK, Wake, Posted, OfCall
<1> QED
  BY <1>1, <1>2, QuietInv DEF Inv, TypeOK, Wake

LEMMA ReadBodyInv ==
  ASSUME Inv, NEW c \in Caller, ReadBody(c)
  PROVE  Inv'
<1>1. TypeOK'
  BY DEF Inv, TypeOK, ReadBody, Return
<1>2. CallOK(c)' /\ AnswerOK(c)'
  BY DEF Inv, TypeOK, CallOK, AnswerOK, ReadBody, Return, DidAct, Posted, OfCall
<1> QED
  BY <1>1, <1>2, QuietInv DEF Inv, TypeOK, ReadBody, Return

\* A write that acts, or does not.
LEMMA PerformFacts ==
  ASSUME Inv, NEW c \in Caller, pc[c] = "sent", Perform(c) \/ UNCHANGED effects
  PROVE  /\ effects \subseteq effects' /\ effects' \subseteq Message
         /\ IF IsWrite(method[c]) THEN effects' \subseteq effects \cup {Sent(c)}
                                  ELSE effects' = effects
         /\ Perform(c) /\ IsWrite(method[c]) /\ UNCHANGED <<n, key>> => DidAct(c)'
         /\ \A x, y \in effects' : x.key = y.key /\ x.key # NoKey => x = y
<1>1. CASE Perform(c) /\ IsWrite(method[c])
  <2>1. Sent(c) \in Message /\ Sent(c).header = Sent(c).key /\ Act(Sent(c))
    BY <1>1, SentType DEF Perform
  <2>2. Sent(c).caller = c /\ Sent(c).call = n[c] /\ Sent(c).key = key[c]
    BY DEF Sent
  <2> QED
    BY <1>1, <2>1, <2>2, ActOnce DEF DidAct, Inv, TypeOK
<1>2. CASE UNCHANGED effects /\ ~(Perform(c) /\ IsWrite(method[c]))
  BY <1>2 DEF Inv, TypeOK, MessagesOK
<1> QED
  BY <1>1, <1>2 DEF Perform

\* The write a call sends has its key.
LEMMA OwnKeyKept ==
  ASSUME Inv, NEW c \in Caller, UNCHANGED <<key, n>>,
         Posted' \subseteq Posted \cup {Sent(c)}
  PROVE  \A m \in Posted' : OfCall(m, c)' => m.key = key'[c]
BY DEF Inv, CallOK, OfCall, Sent

\* After an attempt that may be repeated, a write ends in doubt.
LEMMA RetryFacts ==
  ASSUME Inv, NEW c \in Caller, Retry(c)
  PROVE  /\ pc' \in [Caller -> {"idle", "token", "sent", "sleep", "body"}]
         /\ reply' \in [Caller -> {"none", "ok", "refused", "rejected", "malformed",
                                   "unavailable"}]
         /\ \A d \in Caller \ {c} : pc'[d] = pc[d] /\ reply'[d] = reply[d]
         /\ \/ pc'[c] = "sleep" /\ ~IsWrite(method[c]) /\ attempt[c] < MaxAttempts
            \/ pc'[c] = "idle" /\ reply'[c] = "unavailable"
BY ClientAssumption DEF Inv, TypeOK, Retry, Return, Attempts

LEMMA ServedOkInv ==
  ASSUME Inv, NEW c \in Caller, ServedOk(c)
  PROVE  Inv'
<1>1. pc[c] = "sent" /\ Perform(c) /\ UNCHANGED <<method, key, attempt, n, late>>
  BY DEF ServedOk
<1>2. TypeOK'
  BY <1>1, PerformFacts DEF Inv, TypeOK, ServedOk, Return
<1>3. CallOK(c)' /\ AnswerOK(c)'
  <2>1. Posted' \subseteq Posted \cup {Sent(c)}
    BY <1>1, PerformFacts DEF Posted
  <2>2. \A m \in Posted' : OfCall(m, c)' => m.key = key'[c]
    BY <1>1, <2>1, OwnKeyKept
  <2>3. IsWrite(method[c]) => \A m \in late' : ~OfCall(m, c)'
    BY <1>1 DEF Inv, CallOK, Posted, OfCall
  <2> QED
    BY <1>1, <2>2, <2>3, PerformFacts DEF Inv, TypeOK, CallOK, AnswerOK, ServedOk, Return
<1>4. \/ Posted' \subseteq Posted
      \/ IsWrite(method[c]) /\ Posted' \subseteq Posted \cup {Sent(c)}
  BY <1>1, PerformFacts DEF Posted
<1> QED
  BY <1>1, <1>2, <1>3, <1>4, PerformFacts, StepInv DEF Inv, TypeOK, ServedOk, Return

LEMMA RetriedInv ==
  ASSUME Inv, NEW c \in Caller, ServedTransient(c) \/ LoseAnswer(c)
  PROVE  Inv'
<1>1. /\ pc[c] = "sent" /\ Retry(c) /\ UNCHANGED <<method, key, attempt, n>>
      /\ Perform(c) \/ UNCHANGED effects
      /\ late' = late \/ (IsWrite(method[c]) /\ late' = late \cup {Sent(c)})
  BY DEF ServedTransient, LoseAnswer
<1>2. TypeOK'
  BY <1>1, PerformFacts, RetryFacts, SentType DEF Inv, TypeOK
<1>3. CallOK(c)' /\ AnswerOK(c)'
  <2>1. Posted' \subseteq Posted \cup {Sent(c)}
    BY <1>1, PerformFacts DEF Posted
  <2>2. \A m \in Posted' : OfCall(m, c)' => m.key = key'[c]
    BY <1>1, <2>1, OwnKeyKept
  <2> QED
    BY <1>1, <2>2, RetryFacts DEF Inv, TypeOK, CallOK, AnswerOK
<1>4. \/ Posted' \subseteq Posted
      \/ IsWrite(method[c]) /\ Posted' \subseteq Posted \cup {Sent(c)}
  BY <1>1, PerformFacts DEF Posted
<1> QED
  BY <1>1, <1>2, <1>3, <1>4, PerformFacts, RetryFacts, StepInv DEF Inv, TypeOK

\* A write that lands late was posted before.
LEMMA ArriveInv ==
  ASSUME Inv, NEW m \in late, Arrive(m)
  PROVE  Inv'
<1>1. m \in Message /\ m.header = m.key /\ Act(m)
      /\ UNCHANGED <<pc, method, key, attempt, n, reply>> /\ late' = late \ {m}
  BY DEF Inv, TypeOK, MessagesOK, Posted, Arrive
<1>2. /\ effects \subseteq effects' /\ effects' \subseteq effects \cup {m}
      /\ \A x, y \in effects' : x.key = y.key /\ x.key # NoKey => x = y
  BY <1>1, ActOnce
<1>3. Posted' \subseteq Posted
  BY <1>1, <1>2 DEF Posted
<1>4. TypeOK'
  BY <1>1, <1>2 DEF Inv, TypeOK
<1>5. ASSUME NEW c \in Caller PROVE CallOK(c)' /\ AnswerOK(c)'
  <2>1. DidAct(c) => DidAct(c)'
    BY <1>1, <1>2 DEF DidAct
  <2> QED
    BY <1>1, <1>3, <2>1 DEF Inv, CallOK, AnswerOK, OfCall
<1>6. MessagesOK'
  BY <1>1, <1>2, <1>3 DEF Inv, MessagesOK
<1> QED
  BY <1>4, <1>5, <1>6 DEF Inv

LEMMA NextInv == Inv /\ [Next]_vars => Inv'
<1> SUFFICES ASSUME Inv, [Next]_vars PROVE Inv'
  OBVIOUS
<1>1. CASE UNCHANGED vars
  BY <1>1 DEF Inv, TypeOK, MessagesOK, CallOK, AnswerOK, DidAct, OfCall, Posted, vars
<1>2. ASSUME NEW c \in Caller, Call(c) \/ Step(c) PROVE Inv'
  BY <1>2, CallInv, SendInv, ServedOkInv, RetriedInv, ServedPermanentInv, WakeInv, ReadBodyInv
     DEF Step
<1>3. ASSUME NEW m \in late, Arrive(m) PROVE Inv'
  BY <1>3, ArriveInv
<1> QED
  BY <1>1, <1>2, <1>3 DEF Next, Finished

-----------------------------------------------------------------------------
(* The theorems *)

THEOREM Invariance == Spec => []Inv
BY InitInv, NextInv, PTL DEF Spec

\* Every variable keeps its type; in particular no read is attempted too often.
THEOREM TypeCorrect == Spec => []TypeOK
<1>1. Inv => TypeOK
  BY DEF Inv
<1> QED
  BY <1>1, Invariance, PTL

\* A call of the client writes at most once, and so does an action named by a key.
THEOREM WritesOnce == Spec => []OneEffect
<1>1. Inv => OneEffect
  BY DEF Inv, MessagesOK, OneEffect, Posted
<1> QED
  BY <1>1, Invariance, PTL

\* Callers may rely on the answers that claim or deny that something was done.
THEOREM AnswersHold == Spec => []AnswersAreTrue
<1>1. Inv => AnswersAreTrue
  BY DEF Inv, AnswerOK, AnswersAreTrue, Posted, OfCall
<1> QED
  BY <1>1, Invariance, PTL
-----------------------------------------------------------------------------
(* The refinement of writes *)

\* The abstract variables under the mapping.
Waits == {WriteOf(c) : c \in Writing}
Opens == {WriteOf(c) : c \in {d \in Writing : pc[d] \in {"token", "sent"}}}
           \cup {Stripped(m) : m \in late}
Acted == {Stripped(m) : m \in effects}
Words == [c \in Caller |-> IF pc[c] = "idle" /\ IsWrite(method[c])
                           THEN Word(reply[c]) ELSE "none"]

\* The other callers' state stays as it is.
OthersKept(c) ==
  \A d \in Caller \ {c} :
    pc'[d] = pc[d] /\ method'[d] = method[d] /\ key'[d] = key[d] /\ n'[d] = n[d]
    /\ reply'[d] = reply[d]

LEMMA WriteType ==
  ASSUME Inv, NEW c \in Caller, pc[c] # "idle"
  PROVE  WriteOf(c) \in Writes!Write
BY DEF Inv, TypeOK, CallOK, WriteOf, Writes!Write

LEMMA PostedType ==
  ASSUME Inv, NEW m \in Posted
  PROVE  m \in Message /\ Stripped(m) \in Writes!Write
BY DEF Inv, TypeOK, Posted, Message, Stripped, Writes!Write

\* What was posted is told apart by caller and call.
LEMMA StrippedInjective ==
  ASSUME Inv, NEW x \in Posted, NEW y \in Posted, Stripped(x) = Stripped(y)
  PROVE  x = y
BY DEF Inv, MessagesOK, Stripped

\* A write that may yet be sent is none that was posted.
LEMMA UnsentIsNew ==
  ASSUME Inv, NEW c \in Writing, pc[c] \in {"token", "sent"}, NEW m \in Posted
  PROVE  Stripped(m) # WriteOf(c)
BY DEF Inv, CallOK, Writing, OfCall, Stripped, WriteOf

LEMMA SentIsOf ==
  ASSUME Inv, NEW c \in Caller
  PROVE  Stripped(Sent(c)) = WriteOf(c)
BY DEF Stripped, Sent, WriteOf

\* A write of a call that acted is done under the mapping.
LEMMA DoneOfCall ==
  ASSUME Inv, NEW c \in Caller, DidAct(c)
  PROVE  Writes!Done(WriteOf(c))
<1>1. PICK x \in effects : \/ x.caller = c /\ x.call = n[c]
                           \/ x.key = key[c] /\ x.key # NoKey
  BY DEF DidAct
<1>2. Stripped(x) \in Acted
  BY DEF Acted
<1>3. CASE x.caller = c /\ x.call = n[c]
  <2>1. Stripped(x) = WriteOf(c)
    BY <1>3 DEF Inv, CallOK, OfCall, Posted, Stripped, WriteOf
  <2> QED
    BY <1>2, <2>1 DEF Writes!Done, Acted
<1>4. CASE x.key = key[c] /\ x.key # NoKey
  <2>1. Stripped(x).key = x.key /\ WriteOf(c).key = key[c]
    BY DEF Stripped, WriteOf
  <2> QED
    BY <1>2, <1>4, <2>1 DEF Writes!Done, Acted
<1> QED
  BY <1>1, <1>3, <1>4

\* A message that acts is a write that acts: its header names its key, and what was
\* posted of its call is the message itself.
LEMMA ActMapped ==
  ASSUME Inv, NEW m \in Message, m.header = m.key, Act(m),
         \A e \in effects : Stripped(e) = Stripped(m) => e = m
  PROVE  Acted' = IF Writes!Done(Stripped(m)) THEN Acted ELSE Acted \cup {Stripped(m)}
<1>1. CASE m.key # NoKey /\ \E e \in effects : e.key = m.key
  <2>1. effects' = effects
    BY <1>1 DEF Act, Inv, MessagesOK, Posted
  <2>2. PICK e \in effects : e.key = m.key /\ m.key # NoKey
    BY <1>1
  <2>3. Stripped(e) \in Acted /\ Stripped(e).key = Stripped(m).key /\ Stripped(e).key # NoKey
    BY <2>2 DEF Acted, Stripped
  <2>4. Writes!Done(Stripped(m))
    BY <2>3 DEF Writes!Done, Acted
  <2> QED
    BY <2>1, <2>4 DEF Acted
<1>2. CASE ~(m.key # NoKey /\ \E e \in effects : e.key = m.key)
  <2>1. effects' = effects \cup {m}
    BY <1>2 DEF Act, Inv, MessagesOK, Posted
  <2>2. Acted' = Acted \cup {Stripped(m)}
    BY <2>1 DEF Acted
  <2>3. ASSUME Writes!Done(Stripped(m)) PROVE Stripped(m) \in Acted
    <3>1. PICK v \in Acted : v = Stripped(m) \/ (v.key = Stripped(m).key /\ v.key # NoKey)
      BY <2>3 DEF Writes!Done, Acted
    <3>2. PICK e \in effects : v = Stripped(e)
      BY DEF Acted
    <3> QED
      BY <1>2, <3>1, <3>2 DEF Stripped
  <2> QED
    BY <2>2, <2>3
<1> QED
  BY <1>1, <1>2

\* Steps that only concern a read are no steps of writes.
LEMMA ReadStutters ==
  ASSUME NEW c \in Caller, ~IsWrite(method[c]), OthersKept(c),
         UNCHANGED <<method, key, n, effects, late>>
  PROVE  UNCHANGED <<Waits, Opens, Acted, Words>>
<1>1. Writing' = Writing /\ c \notin Writing /\ Writing \subseteq Caller
  BY DEF OthersKept, Writing
<1>2. \A d \in Writing : WriteOf(d)' = WriteOf(d) /\ pc'[d] = pc[d]
  BY <1>1 DEF OthersKept, WriteOf
<1>3. \A d \in Caller : IsWrite(method[d]) => pc'[d] = pc[d] /\ reply'[d] = reply[d]
  BY DEF OthersKept
<1>4. Waits' = Waits
  BY <1>1, <1>2 DEF Waits
<1>5. Opens' = Opens
  BY <1>1, <1>2 DEF Opens
<1>6. Acted' = Acted /\ Words' = Words
  BY <1>3 DEF Acted, Words
<1> QED
  BY <1>4, <1>5, <1>6

\* The writes that others wait for.
OthersWait(c)  == {WriteOf(d) : d \in Writing \ {c}}
OthersOpen(c) == {WriteOf(d) : d \in {e \in Writing \ {c} : pc[e] \in {"token", "sent"}}}
Landing == {Stripped(m) : m \in late}

LEMMA OthersStay ==
  ASSUME NEW c \in Caller, OthersKept(c)
  PROVE  /\ UNCHANGED <<OthersWait(c), OthersOpen(c)>>
         /\ WriteOf(c) \notin OthersWait(c) /\ WriteOf(c) \notin OthersOpen(c)
<1>1. Writing' \ {c} = Writing \ {c}
  BY DEF OthersKept, Writing
<1>2. \A d \in Writing \ {c} : WriteOf(d)' = WriteOf(d) /\ pc'[d] = pc[d]
                              /\ WriteOf(d) # WriteOf(c)
  BY DEF OthersKept, WriteOf, Writing
<1>3. OthersWait(c)' = OthersWait(c) /\ WriteOf(c) \notin OthersWait(c)
  BY <1>1, <1>2 DEF OthersWait
<1>4. OthersOpen(c)' = OthersOpen(c) /\ WriteOf(c) \notin OthersOpen(c)
  BY <1>1, <1>2 DEF OthersOpen
<1> QED
  BY <1>3, <1>4

LEMMA Split ==
  ASSUME NEW c \in Caller
  PROVE  /\ Waits = OthersWait(c) \cup (IF c \in Writing THEN {WriteOf(c)} ELSE {})
         /\ Opens = OthersOpen(c) \cup Landing
                      \cup (IF c \in Writing /\ pc[c] \in {"token", "sent"}
                            THEN {WriteOf(c)} ELSE {})
<1>1. Waits = OthersWait(c) \cup (IF c \in Writing THEN {WriteOf(c)} ELSE {})
  BY DEF Waits, OthersWait
<1>2. Opens = OthersOpen(c) \cup Landing
                \cup (IF c \in Writing /\ pc[c] \in {"token", "sent"}
                      THEN {WriteOf(c)} ELSE {})
  BY DEF Opens, OthersOpen, Landing
<1> QED
  BY <1>1, <1>2

\* A write under way is handed over, and open until its message has left its caller.
LEMMA WaitingFacts ==
  ASSUME Inv, NEW c \in Writing
  PROVE  /\ WriteOf(c) \in Writes!Write /\ WriteOf(c) \in Waits /\ WriteOf(c).caller = c
         /\ pc[c] \in {"token", "sent"} => WriteOf(c) \in Opens
         /\ pc[c] \in {"token", "sent", "body"} => WriteOf(c) \notin Landing
<1>1. WriteOf(c) \in Writes!Write
  BY WriteType DEF Writing
<1>2. WriteOf(c) \in Waits /\ WriteOf(c).caller = c
  BY DEF Waits, WriteOf
<1>3. pc[c] \in {"token", "sent"} => WriteOf(c) \in Opens
  BY DEF Opens
<1>4. ASSUME pc[c] \in {"token", "sent", "body"}, NEW m \in late PROVE Stripped(m) # WriteOf(c)
  BY <1>4 DEF Inv, CallOK, Posted, OfCall, Writing, Stripped, WriteOf
<1> QED
  BY <1>1, <1>2, <1>3, <1>4 DEF Landing

\* The end of a write: its caller is told what its reply says.
LEMMA EndTells ==
  ASSUME Inv, NEW c \in Writing, pc'[c] = "idle", OthersKept(c), UNCHANGED <<method, key, n>>
  PROVE  /\ Waits' = Waits \ {WriteOf(c)}
         /\ Words' = [Words EXCEPT ![WriteOf(c).caller] = Word(reply'[c])]
<1>1. c \in Caller /\ IsWrite(method[c]) /\ c \notin Writing'
  BY DEF Writing
<1>2. Waits' = OthersWait(c)'
  BY <1>1, Split DEF Waits, OthersWait
<1>3. Waits = OthersWait(c) \cup {WriteOf(c)}
  BY <1>1, Split
<1>4. Waits' = Waits \ {WriteOf(c)}
  BY <1>1, <1>2, <1>3, OthersStay
<1>5. Words' = [Words EXCEPT ![c] = Word(reply'[c])]
  BY <1>1 DEF Words, OthersKept
<1> QED
  BY <1>4, <1>5 DEF WriteOf

\* A message leaves its caller and lands, is lost, or is on its way.
LEMMA Leaves ==
  ASSUME Inv, NEW c \in Writing, pc[c] \in {"token", "sent"}, pc'[c] \notin {"token", "sent"},
         OthersKept(c)
  PROVE  /\ late' = late => Opens' = Opens \ {WriteOf(c)}
         /\ late' = late \cup {Sent(c)} => Opens' = Opens
<1>1. c \in Caller
  BY DEF Writing
<1>2. Opens = OthersOpen(c) \cup Landing \cup {WriteOf(c)}
  BY <1>1, Split
<1>3. Opens' = OthersOpen(c)' \cup Landing'
  BY <1>1 DEF Opens, OthersOpen, Landing
<1>4. OthersOpen(c)' = OthersOpen(c) /\ WriteOf(c) \notin OthersOpen(c)
  BY <1>1, OthersStay
<1>5. ASSUME late' = late PROVE Opens' = Opens \ {WriteOf(c)}
  <2>1. Landing' = Landing /\ WriteOf(c) \notin Landing
    BY <1>5, WaitingFacts DEF Landing
  <2> QED
    BY <1>2, <1>3, <1>4, <1>5, <2>1
<1>6. ASSUME late' = late \cup {Sent(c)} PROVE Opens' = Opens
  <2>1. Landing' = Landing \cup {WriteOf(c)}
    BY <1>1, <1>6, SentIsOf DEF Landing
  <2> QED
    BY <1>2, <1>3, <1>4, <2>1
<1> QED
  BY <1>5, <1>6

\* The message of a write that is performed acts.
LEMMA PerformActs ==
  ASSUME Inv, NEW c \in Writing, pc[c] = "sent", Perform(c)
  PROVE  Acted' = IF Writes!Done(WriteOf(c)) THEN Acted ELSE Acted \cup {WriteOf(c)}
<1>1. c \in Caller /\ Act(Sent(c)) /\ Stripped(Sent(c)) = WriteOf(c)
  BY SentIsOf DEF Writing, Perform
<1>2. Sent(c) \in Message /\ Sent(c).header = Sent(c).key
  BY <1>1, SentType
<1>3. \A e \in effects : Stripped(e) # Stripped(Sent(c))
  BY <1>1, UnsentIsNew DEF Posted
<1> QED
  BY <1>1, <1>2, <1>3, ActMapped

-----------------------------------------------------------------------------
(* Each step of the client is a step of writes, or none. *)

WritesStep == Writes!Next \/ UNCHANGED <<Waits, Opens, Acted, Words>>

LEMMA TellStep ==
  ASSUME NEW c \in Writing, NEW w, w = WriteOf(c),
         Writes!TellDone(w) \/ Writes!TellNotDone(w) \/ Writes!TellNothing(w)
  PROVE  WritesStep
<1>1. w \in {WriteOf(d) : d \in Writing}
  OBVIOUS
<1> QED
  BY <1>1, Zenon DEF WritesStep, Writes!Next

LEMMA SendStep ==
  ASSUME Inv, NEW c \in Caller, Send(c)
  PROVE  WritesStep
<1>1. OthersKept(c) /\ UNCHANGED <<method, key, n, effects, late>>
  BY DEF Send, Return, OthersKept, Inv, TypeOK
<1>2. CASE ~IsWrite(method[c])
  BY <1>1, <1>2, ReadStutters DEF WritesStep
<1>3. CASE IsWrite(method[c]) /\ pc'[c] = "sent"
  <2>1. c \in Writing /\ c \in Writing' /\ WriteOf(c)' = WriteOf(c) /\ pc[c] = "token"
    BY <1>1, <1>3 DEF Writing, Send, WriteOf
  <2>2. UNCHANGED <<OthersWait(c), OthersOpen(c), Landing>>
    BY <1>1, OthersStay DEF Landing
  <2>3. Waits' = OthersWait(c)' \cup {WriteOf(c)'}
        /\ Opens' = OthersOpen(c)' \cup Landing' \cup {WriteOf(c)'}
    BY <1>3, <2>1 DEF Waits, Opens, OthersWait, OthersOpen, Landing
  <2>4. Waits' = Waits /\ Opens' = Opens
    BY <2>1, <2>2, <2>3, Split
  <2>5. Acted' = Acted /\ Words' = Words
    BY <1>1, <1>3, <2>1 DEF Acted, Words, OthersKept
  <2> QED
    BY <2>4, <2>5 DEF WritesStep
<1>4. CASE IsWrite(method[c]) /\ pc'[c] # "sent"
  <2>1. c \in Writing /\ pc[c] = "token" /\ pc'[c] = "idle" /\ reply'[c] = "refused"
    BY <1>4 DEF Writing, Send, Return, Inv, TypeOK
  <2>2. Opens' = Opens \ {WriteOf(c)}
    BY <1>1, <2>1, Leaves
  <2>3. Acted' = Acted
    BY <1>1 DEF Acted
  <2>4. PICK w : w = WriteOf(c)
    OBVIOUS
  <2>5. Writes!TellNotDone(w)
    BY <1>1, <2>1, <2>2, <2>3, <2>4, EndTells, WaitingFacts
       DEF Writes!TellNotDone, Writes!Tell, Waits, Opens, Acted, Words, Word
  <2> QED
    BY <2>1, <2>4, <2>5, TellStep
<1> QED
  BY <1>2, <1>3, <1>4

\* A write that is answered without having acted, and will not act.
LEMMA ServedPermanentStep ==
  ASSUME Inv, NEW c \in Caller, ServedPermanent(c)
  PROVE  WritesStep
<1>1. /\ OthersKept(c) /\ UNCHANGED <<method, key, n, effects, late>>
      /\ pc[c] = "sent" /\ pc'[c] = "idle" /\ reply'[c] = "rejected"
  BY DEF ServedPermanent, Return, OthersKept, Inv, TypeOK
<1>2. CASE ~IsWrite(method[c])
  BY <1>1, <1>2, ReadStutters DEF WritesStep
<1>3. CASE IsWrite(method[c])
  <2>1. c \in Writing /\ Acted' = Acted
    BY <1>1, <1>3 DEF Writing, Acted
  <2>2. Opens' = Opens \ {WriteOf(c)}
    BY <1>1, <2>1, Leaves
  <2>3. PICK w : w = WriteOf(c)
    OBVIOUS
  <2>4. Writes!TellNotDone(w)
    BY <1>1, <2>1, <2>2, <2>3, EndTells, WaitingFacts
       DEF Writes!TellNotDone, Writes!Tell, Waits, Opens, Acted, Words, Word
  <2> QED
    BY <2>1, <2>3, <2>4, TellStep
<1> QED
  BY <1>2, <1>3

\* A write that acts while its caller waits.
LEMMA ActingStep ==
  ASSUME Inv, NEW c \in Writing, pc[c] = "sent", pc'[c] \notin {"token", "sent"}, Perform(c),
         OthersKept(c), UNCHANGED late, NEW w, w = WriteOf(c)
  PROVE  Writes!Act(w)
<1>1. Opens' = Opens \ {w} /\ w \in Opens
  BY Leaves, WaitingFacts
<1>2. Acted' = IF Writes!Done(w) THEN Acted ELSE Acted \cup {w}
  <2>1. Acted' = IF Writes!Done(WriteOf(c)) THEN Acted ELSE Acted \cup {WriteOf(c)}
    BY PerformActs
  <2>2. Writes!Done(WriteOf(c)) <=> Writes!Done(w)
    BY DEF Writes!Done
  <2> QED
    BY <2>1, <2>2
<1> QED
  BY <1>1, <1>2 DEF Writes!Act, Opens, Acted

LEMMA ServedOkStep ==
  ASSUME Inv, NEW c \in Caller, ServedOk(c)
  PROVE  WritesStep
<1>1. /\ OthersKept(c) /\ UNCHANGED <<method, key, n, late>>
      /\ pc[c] = "sent" /\ pc'[c] \in {"idle", "body"} /\ Perform(c)
      /\ pc'[c] = "idle" => method[c] = "DELETE" /\ reply'[c] = "ok"
      /\ pc'[c] = "body" => reply' = reply
  BY DEF ServedOk, Return, OthersKept, Inv, TypeOK
<1>2. CASE ~IsWrite(method[c])
  <2>1. UNCHANGED effects
    BY <1>1, <1>2 DEF Perform
  <2> QED
    BY <1>1, <1>2, <2>1, ReadStutters DEF WritesStep
<1>3. CASE IsWrite(method[c])
  <2>1. c \in Writing
    BY <1>1, <1>3 DEF Writing
  <2>2. PICK w : w = WriteOf(c)
    OBVIOUS
  <2>3. Writes!Act(w)
    BY <1>1, <2>1, <2>2, ActingStep
  <2>4. CASE pc'[c] = "idle"
    <3>1. Writes!TellDone(w)
      BY <1>1, <2>1, <2>2, <2>3, <2>4, EndTells
         DEF Writes!TellDone, Writes!Tell, Waits, Words, Word
    <3> QED
      BY <2>1, <2>2, <3>1, TellStep
  <2>5. CASE pc'[c] = "body"
    <3>1. Writing' = Writing /\ \A d \in Writing : WriteOf(d)' = WriteOf(d)
      BY <1>1, <2>5 DEF Writing, OthersKept, WriteOf
    <3>2. Waits' = Waits /\ Words' = Words
      BY <1>1, <2>5, <3>1 DEF Waits, Words, OthersKept
    <3>3. Writes!ActAlone(w)
      BY <2>3, <3>2 DEF Writes!ActAlone, Waits, Words
    <3>4. w \in Opens
      BY <1>1, <2>1, <2>2, WaitingFacts
    <3> QED
      BY <3>3, <3>4, Zenon DEF WritesStep, Writes!Next, Opens
  <2> QED
    BY <1>1, <2>4, <2>5
<1> QED
  BY <1>2, <1>3

\* A write whose answer is lost, or says that the server failed: it has acted, it never
\* will, or it is on its way.
LEMMA RetriedStep ==
  ASSUME Inv, NEW c \in Caller, ServedTransient(c) \/ LoseAnswer(c)
  PROVE  WritesStep
<1>1. /\ UNCHANGED <<method, key, n>> /\ pc[c] = "sent" /\ Retry(c)
      /\ \/ UNCHANGED late /\ (Perform(c) \/ UNCHANGED effects)
         \/ IsWrite(method[c]) /\ UNCHANGED effects /\ late' = late \cup {Sent(c)}
  BY DEF ServedTransient, LoseAnswer
<1>2. OthersKept(c)
  BY <1>1, RetryFacts DEF OthersKept
<1>3. CASE ~IsWrite(method[c])
  <2>1. UNCHANGED <<effects, late>>
    BY <1>1, <1>3 DEF Perform
  <2> QED
    BY <1>1, <1>2, <1>3, <2>1, ReadStutters DEF WritesStep
<1>4. CASE IsWrite(method[c])
  <2>1. c \in Writing /\ pc'[c] = "idle" /\ reply'[c] = "unavailable"
    BY <1>1, <1>4, RetryFacts DEF Writing
  <2>2. PICK w : w = WriteOf(c)
    OBVIOUS
  <2>3. Writes!Act(w) \/ (w \in Opens /\ Opens' \in {Opens, Opens \ {w}} /\ Acted' = Acted)
    <3>1. CASE UNCHANGED late /\ Perform(c)
      BY <1>1, <1>2, <2>1, <2>2, <3>1, ActingStep
    <3>2. CASE UNCHANGED effects
      <4>1. Opens' \in {Opens, Opens \ {w}}
        BY <1>1, <1>2, <2>1, <2>2, Leaves
      <4>2. Acted' = Acted
        BY <3>2 DEF Acted
      <4> QED
        BY <1>1, <2>1, <2>2, <4>1, <4>2, WaitingFacts
    <3> QED
      BY <1>1, <3>1, <3>2
  <2>4. Writes!TellNothing(w)
    BY <1>1, <1>2, <2>1, <2>2, <2>3, EndTells
       DEF Writes!TellNothing, Writes!Tell, Waits, Opens, Acted, Words, Word
  <2> QED
    BY <2>1, <2>2, <2>4, TellStep
<1> QED
  BY <1>3, <1>4

\* The answer to a write that has acted.
LEMMA ReadBodyStep ==
  ASSUME Inv, NEW c \in Caller, ReadBody(c)
  PROVE  WritesStep
<1>1. /\ OthersKept(c) /\ UNCHANGED <<method, key, n, effects, late>>
      /\ pc[c] = "body" /\ pc'[c] = "idle" /\ reply'[c] \in {"ok", "malformed"}
  BY DEF ReadBody, Return, OthersKept, Inv, TypeOK
<1>2. CASE ~IsWrite(method[c])
  BY <1>1, <1>2, ReadStutters DEF WritesStep
<1>3. CASE IsWrite(method[c])
  <2>1. c \in Writing
    BY <1>1, <1>3 DEF Writing
  <2>2. PICK w : w = WriteOf(c)
    OBVIOUS
  <2>3. Writes!Done(w)
    <3>1. Writes!Done(WriteOf(c))
      BY <1>1, <1>3, DoneOfCall DEF Inv, CallOK
    <3> QED
      BY <2>2, <3>1 DEF Writes!Done
  <2>4. w \notin Opens /\ Opens' = Opens /\ Acted' = Acted
    <3>1. Opens = OthersOpen(c) \cup Landing
      BY <1>1, Split
    <3>2. w \notin Opens
      BY <1>1, <2>1, <2>2, <3>1, OthersStay, WaitingFacts
    <3>3. Opens' = OthersOpen(c)' \cup Landing'
      BY <1>1 DEF Opens, OthersOpen, Landing
    <3>4. Landing' = Landing /\ OthersOpen(c)' = OthersOpen(c)
      BY <1>1, OthersStay DEF Landing
    <3>5. Acted' = Acted
      BY <1>1 DEF Acted
    <3> QED
      BY <3>1, <3>2, <3>3, <3>4, <3>5
  <2>5. Writes!TellDone(w)
    BY <1>1, <2>1, <2>2, <2>3, <2>4, EndTells
       DEF Writes!TellDone, Writes!Tell, Waits, Opens, Acted, Words, Word
  <2> QED
    BY <2>1, <2>2, <2>5, TellStep
<1> QED
  BY <1>2, <1>3

\* Only reads are attempted again.
LEMMA WakeStep ==
  ASSUME Inv, NEW c \in Caller, Wake(c)
  PROVE  WritesStep
<1>1. /\ OthersKept(c) /\ UNCHANGED <<method, key, n, effects, late>>
      /\ ~IsWrite(method[c])
  BY DEF Wake, OthersKept, Inv, TypeOK, CallOK
<1> QED
  BY <1>1, ReadStutters DEF WritesStep

LEMMA ArriveStep ==
  ASSUME Inv, NEW m \in late, Arrive(m)
  PROVE  WritesStep
<1>1. /\ m \in Posted /\ m \in Message /\ m.header = m.key /\ Act(m)
      /\ late' = late \ {m} /\ UNCHANGED <<pc, method, key, n, reply>>
  BY DEF Inv, TypeOK, MessagesOK, Posted, Arrive
<1>2. PICK w : w = Stripped(m)
  OBVIOUS
<1>3. Acted' = IF Writes!Done(w) THEN Acted ELSE Acted \cup {w}
  <2>1. \A e \in effects : Stripped(e) = Stripped(m) => e = m
    BY <1>1, StrippedInjective DEF Posted
  <2>2. Acted' = IF Writes!Done(Stripped(m)) THEN Acted ELSE Acted \cup {Stripped(m)}
    BY <1>1, <2>1, ActMapped
  <2>3. Writes!Done(Stripped(m)) <=> Writes!Done(w)
    BY <1>2 DEF Writes!Done
  <2> QED
    BY <1>2, <2>2, <2>3
<1>4. Opens' = Opens \ {w} /\ w \in Opens
  <2> DEFINE Unsent == {WriteOf(c) : c \in {d \in Writing : pc[d] \in {"token", "sent"}}}
  <2>1. Opens = Unsent \cup Landing
    BY DEF Opens, Landing
  <2>2. Opens' = Unsent \cup Landing'
    BY <1>1 DEF Opens, Landing, Writing, WriteOf
  <2>3. w \notin Unsent
    BY <1>1, <1>2, UnsentIsNew
  <2>4. Landing' = Landing \ {w}
    BY <1>1, <1>2, StrippedInjective DEF Landing, Posted
  <2>5. w \in Landing
    BY <1>2 DEF Landing
  <2> QED
    BY <2>1, <2>2, <2>3, <2>4, <2>5
<1>5. Waits' = Waits /\ Words' = Words
  BY <1>1 DEF Waits, Words, Writing, WriteOf
<1>6. Writes!ActAlone(w)
  BY <1>3, <1>4, <1>5 DEF Writes!ActAlone, Writes!Act, Waits, Opens, Acted, Words
<1> QED
  BY <1>4, <1>6, Zenon DEF WritesStep, Writes!Next, Opens

\* A call is a read, or hands a write over under a number not used before.
LEMMA CallStep ==
  ASSUME Inv, NEW c \in Caller, Call(c)
  PROVE  WritesStep
<1>1. /\ c \notin Writing /\ pc'[c] = "token" /\ n'[c] = n[c] + 1 /\ n[c] \in Nat
      /\ OthersKept(c) /\ UNCHANGED <<reply, effects, late>> /\ pc[c] = "idle"
  BY DEF Call, OthersKept, Inv, TypeOK, Writing
<1>2. UNCHANGED <<OthersWait(c), OthersOpen(c), Landing, Acted>>
  BY <1>1, OthersStay DEF Landing, Acted
<1>3. Waits = OthersWait(c) /\ Opens = OthersOpen(c) \cup Landing
  BY <1>1, Split
<1>4. Words' = [Words EXCEPT ![c] = "none"]
  BY <1>1 DEF Words, OthersKept
<1>5. CASE c \notin Writing'
  <2>1. Waits' = Waits /\ Opens' = Opens
    BY <1>2, <1>3, <1>5 DEF Waits, Opens, OthersWait, OthersOpen, Landing
  <2>2. Writes!Read(c)
    BY <1>2, <1>4, <2>1 DEF Writes!Read, Waits, Opens, Acted, Words
  <2> QED
    BY <2>2, Zenon DEF WritesStep, Writes!Next
<1>6. CASE c \in Writing'
  <2>1. PICK w : w = WriteOf(c)'
    OBVIOUS
  <2>2. w.caller = c /\ w.call = n[c] + 1
    BY <1>1, <2>1 DEF WriteOf
  <2>3. w \in Writes!Write
    BY <1>1, <2>1, CallInv, WriteType, ClientAssumption
       DEF Inv, TypeOK, CallOK, WriteOf, Writes!Write
  <2>4. Waits' = Waits \cup {w} /\ Opens' = Opens \cup {w}
    <3>1. Waits' = OthersWait(c)' \cup {w}
      BY <1>6, <2>1 DEF Waits, OthersWait
    <3>2. Opens' = OthersOpen(c)' \cup Landing' \cup {w}
      BY <1>1, <1>6, <2>1 DEF Opens, OthersOpen, Landing
    <3> QED
      BY <1>2, <1>3, <3>1, <3>2
  <2>5. \A v \in Waits : v.caller # w.caller
    BY <1>1, <2>2 DEF Waits, Writing, WriteOf
  <2>6. \A v \in Opens \cup Acted : v.caller = w.caller => v.call # w.call
    <3>1. ASSUME NEW d \in Writing PROVE WriteOf(d).caller # w.caller
      BY <1>1, <2>2, <3>1 DEF WriteOf
    <3>2. ASSUME NEW m \in Posted, m.caller = c PROVE m.call # n[c] + 1
      BY <1>1, <3>2, PostedType, ClientAssumption DEF Inv, MessagesOK, Message
    <3>3. \A v \in OthersOpen(c) : v.caller # w.caller
      BY <3>1 DEF OthersOpen
    <3>4. \A v \in Landing \cup Acted : v.caller = w.caller => v.call # w.call
      BY <2>2, <3>2 DEF Landing, Acted, Stripped, Posted
    <3> QED
      BY <1>3, <3>3, <3>4
  <2>7. Writes!HandOver(w)
    BY <1>2, <1>4, <2>2, <2>4, <2>5, <2>6
       DEF Writes!HandOver, Waits, Opens, Acted, Words
  <2> QED
    BY <2>3, <2>7, Zenon DEF WritesStep, Writes!Next
<1> QED
  BY <1>5, <1>6

LEMMA RefinedStep == Inv /\ [Next]_vars => [Writes!Next]_(Writes!vars)
<1> SUFFICES ASSUME Inv, [Next]_vars PROVE WritesStep
  BY DEF WritesStep, Writes!vars, Waits, Opens, Acted, Words
<1>1. CASE UNCHANGED vars
  BY <1>1 DEF WritesStep, vars, Waits, Opens, Acted, Words, Writing, WriteOf
<1>2. ASSUME NEW c \in Caller, Call(c) \/ Step(c) PROVE WritesStep
  BY <1>2, CallStep, SendStep, ServedOkStep, RetriedStep, ServedPermanentStep, WakeStep,
     ReadBodyStep DEF Step
<1>3. ASSUME NEW m \in late, Arrive(m) PROVE WritesStep
  BY <1>3, ArriveStep
<1> QED
  BY <1>1, <1>2, <1>3 DEF Next, Finished

\* The client's attempts, headers and time-outs implement writes that act at most once,
\* under answers that say done, not done, or nothing.
THEOREM ClientRefinesWrites == Spec => ActsAsWrites
<1>1. Init => Writes!Init
  <2> SUFFICES ASSUME Init PROVE Writes!Init
    OBVIOUS
  <2>1. Writing = {} /\ late = {} /\ effects = {}
    BY DEF Init, Writing
  <2>2. Words = [c \in Caller |-> "none"]
    BY DEF Init, Words, IsWrite
  <2> QED
    BY <2>1, <2>2 DEF Writes!Init, Words
<1> QED
  BY <1>1, RefinedStep, Invariance, PTL DEF Spec, ActsAsWrites, Writes!Spec
=============================================================================
