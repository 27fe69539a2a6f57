---------------------------- MODULE TodoistClient ----------------------------
(***************************************************************************)
(* Calls of the typed Todoist client over a network that loses, delays and *)
(* garbles answers.  Reads are attempted up to MaxAttempts times, writes   *)
(* once.  A write whose answer was lost may act before, or after, its      *)
(* caller has given up, and the caller may call again.  Callers of task    *)
(* and comment creation can name their action with a key, which travels as *)
(* X-Request-Id; that Todoist acts once per key is assumed of it.          *)
(***************************************************************************)
EXTENDS Integers

CONSTANTS
  Caller, Key, NoKey,
  MaxAttempts,  \* attempts of a read (3 in the code)
  MaxCalls      \* bound on the calls of one caller

VARIABLES
  pc, method, key, attempt,  \* a caller's call under way, or its last one
  n,                         \* calls it has made
  reply,                     \* how the last one ended
  effects,                   \* writes that have acted at Todoist ...
  late                       \* ... and may yet act, their callers having given up

vars == <<pc, method, key, attempt, n, reply, effects, late>>

\* "CLOSE" stands for every POST without a body: close, reopen, archive.
Method == {"GET", "POST", "CLOSE", "DELETE"}
IsWrite(m) == m # "GET"

\* A write on its way: whose call, which attempt, the caller's key, the header sent.
Message == [caller : Caller, call : 1..MaxCalls, attempt : 1..MaxAttempts,
            key : Key \cup {NoKey}, header : Key \cup {NoKey}]

ASSUME ClientAssumption == /\ MaxAttempts \in Nat \ {0} /\ MaxCalls \in Nat
                           /\ NoKey \notin Key

Init == /\ pc = [c \in Caller |-> "idle"]
        /\ method = [c \in Caller |-> "GET"]
        /\ key = [c \in Caller |-> NoKey]
        /\ attempt = [c \in Caller |-> 1]
        /\ n = [c \in Caller |-> 0]
        /\ reply = [c \in Caller |-> "none"]
        /\ effects = {} /\ late = {}

-----------------------------------------------------------------------------
(* The policy *)

\* Faulty variant of Attempts: writes are retried like reads.
AttemptsAlways(m) == MaxAttempts

Attempts(m) == IF IsWrite(m) THEN 1 ELSE MaxAttempts

\* Faulty variant of NextAttempt: the count starts again after every wait.
NextAttemptReset(a) == 1

NextAttempt(a) == a + 1

\* Faulty variant of Header: the key is left off.
HeaderDropped(c) == NoKey

Header(c) == key[c]

Return(c, answer) == /\ pc' = [pc EXCEPT ![c] = "idle"]
                     /\ reply' = [reply EXCEPT ![c] = answer]

\* After an attempt that may be repeated: wait for the next, or give up.
Retry(c) ==
  \/ /\ attempt[c] < Attempts(method[c])
     /\ pc' = [pc EXCEPT ![c] = "sleep"] /\ UNCHANGED reply
  \/ /\ attempt[c] >= Attempts(method[c])
     /\ Return(c, "unavailable")

Sent(c) == [caller |-> c, call |-> n[c], attempt |-> attempt[c],
            key |-> key[c], header |-> Header(c)]

\* A write that arrives acts, unless its header names one that has.
Act(m) == effects' = IF m.header # NoKey /\ \E e \in effects : e.header = m.header
                     THEN effects ELSE effects \cup {m}
Perform(c) == IF IsWrite(method[c]) THEN Act(Sent(c)) ELSE UNCHANGED effects

-----------------------------------------------------------------------------
(* Steps of a call *)

Call(c) ==
  /\ pc[c] = "idle" /\ n[c] < MaxCalls
  /\ pc' = [pc EXCEPT ![c] = "token"]
  /\ n' = [n EXCEPT ![c] = @ + 1]
  /\ attempt' = [attempt EXCEPT ![c] = 1]
  /\ \E m \in Method : \E k \in IF m = "POST" THEN Key \cup {NoKey} ELSE {NoKey} :
       /\ method' = [method EXCEPT ![c] = m]
       /\ key' = [key EXCEPT ![c] = k]
  /\ UNCHANGED <<reply, effects, late>>

\* The token is resolved for every attempt; if that throws, nothing is sent.
Send(c) ==
  /\ pc[c] = "token"
  /\ \/ pc' = [pc EXCEPT ![c] = "sent"] /\ UNCHANGED reply
     \/ Return(c, "refused")
  /\ UNCHANGED <<method, key, attempt, n, effects, late>>

ServedOk(c) ==
  /\ pc[c] = "sent" /\ Perform(c)
  /\ IF method[c] = "DELETE" THEN Return(c, "ok")
     ELSE pc' = [pc EXCEPT ![c] = "body"] /\ UNCHANGED reply
  /\ UNCHANGED <<method, key, attempt, n, late>>

\* 429, or 5xx: the server may have acted and failed afterwards.
ServedTransient(c) ==
  /\ pc[c] = "sent"
  /\ Perform(c) \/ UNCHANGED effects
  /\ Retry(c)
  /\ UNCHANGED <<method, key, attempt, n, late>>

ServedPermanent(c) ==
  /\ pc[c] = "sent" /\ Return(c, "rejected")
  /\ UNCHANGED <<method, key, attempt, n, effects, late>>

\* Faulty variant of LoseAnswer: a time-out is answered like a refusal of Todoist's.
LoseAnswerDenied(c) ==
  /\ pc[c] = "sent"
  /\ \/ IsWrite(method[c]) /\ late' = late \cup {Sent(c)} /\ UNCHANGED effects
     \/ UNCHANGED <<effects, late>>
  /\ Return(c, "rejected")
  /\ UNCHANGED <<method, key, attempt, n>>

\* Time-out or broken connection: it has acted, it will, or it never does.
LoseAnswer(c) ==
  /\ pc[c] = "sent"
  /\ \/ Perform(c) /\ UNCHANGED late
     \/ IsWrite(method[c]) /\ late' = late \cup {Sent(c)} /\ UNCHANGED effects
     \/ UNCHANGED <<effects, late>>
  /\ Retry(c)
  /\ UNCHANGED <<method, key, attempt, n>>

Wake(c) ==
  /\ pc[c] = "sleep"
  /\ pc' = [pc EXCEPT ![c] = "token"]
  /\ attempt' = [attempt EXCEPT ![c] = NextAttempt(@)]
  /\ UNCHANGED <<method, key, n, reply, effects, late>>

\* A body that cannot be parsed fails the call, unless none was needed.
ReadBody(c) ==
  /\ pc[c] = "body"
  /\ \/ Return(c, "ok")
     \/ method[c] # "CLOSE" /\ Return(c, "malformed")
  /\ UNCHANGED <<method, key, attempt, n, effects, late>>

Arrive(m) == /\ late' = late \ {m} /\ Act(m)
             /\ UNCHANGED <<pc, method, key, attempt, n, reply>>

Step(c) == \/ Send(c) \/ ServedOk(c) \/ ServedTransient(c) \/ ServedPermanent(c)
           \/ LoseAnswer(c) \/ Wake(c) \/ ReadBody(c)

\* Every caller has made its last call.
Finished == /\ \A c \in Caller : pc[c] = "idle" /\ n[c] = MaxCalls
            /\ UNCHANGED vars

Next == \/ \E c \in Caller : Call(c) \/ Step(c)
        \/ \E m \in late : Arrive(m)
        \/ Finished

Spec == Init /\ [][Next]_vars

\* Requests are aborted after ten seconds, timers fire, connections are served.
FairSpec == Spec /\ \A c \in Caller : WF_vars(Step(c))

-----------------------------------------------------------------------------
(* Properties *)

TypeOK ==
  /\ pc \in [Caller -> {"idle", "token", "sent", "sleep", "body"}]
  /\ method \in [Caller -> Method]
  /\ key \in [Caller -> Key \cup {NoKey}]
  /\ attempt \in [Caller -> 1..MaxAttempts]
  /\ n \in [Caller -> 0..MaxCalls]
  /\ reply \in [Caller -> {"none", "ok", "refused", "rejected", "malformed", "unavailable"}]
  /\ effects \subseteq Message /\ late \subseteq Message

\* A call writes at most once, and no action named by a key is done twice, whatever
\* is lost, however late a write lands, and however often the caller calls again.
OneEffect ==
  \A x, y \in effects :
    \/ <<x.caller, x.call>> = <<y.caller, y.call>>
    \/ x.key = y.key /\ x.key # NoKey
    => x = y

DidAct(c) == \E x \in effects : \/ x.caller = c /\ x.call = n[c]
                                \/ x.key = key[c] /\ x.key # NoKey

\* An answer can be relied upon: a write reported done was done, one reported as
\* refused was not and never will be.  Everything else leaves its caller in doubt.
AnswersAreTrue ==
  \A c \in Caller : pc[c] = "idle" /\ IsWrite(method[c]) =>
    /\ reply[c] \in {"ok", "malformed"} => DidAct(c)
    /\ reply[c] \in {"refused", "rejected"} =>
         \A x \in effects \cup late : <<x.caller, x.call>> # <<c, n[c]>>

\* The write of a caller's call, and a write that was posted, without its attempt;
\* what an answer says of a write (an unreadable body is one to a write that acted).
WriteOf(c)  == [caller |-> c, call |-> n[c], key |-> key[c]]
Stripped(m) == [caller |-> m.caller, call |-> m.call, key |-> m.key]
Word(r) == IF r \in {"ok", "malformed"} THEN "done"
           ELSE IF r \in {"refused", "rejected"} THEN "not done" ELSE "unknown"
Writing == {c \in Caller : pc[c] # "idle" /\ IsWrite(method[c])}

\* Attempts, headers, time-outs and unreadable bodies come down to writes that act at
\* most once and answers that say done, not done, or nothing.
Writes == INSTANCE RemoteWrites WITH
  waiting <- {WriteOf(c) : c \in Writing},
  open    <- {WriteOf(c) : c \in {d \in Writing : pc[d] \in {"token", "sent"}}}
               \cup {Stripped(m) : m \in late},
  acted   <- {Stripped(m) : m \in effects},
  word    <- [c \in Caller |-> IF pc[c] = "idle" /\ IsWrite(method[c])
                               THEN Word(reply[c]) ELSE "none"]
ActsAsWrites == Writes!Spec

\* Every call comes to an end: waiting for a server that stays unavailable too.
EveryCallEnds == \A c \in Caller : pc[c] # "idle" ~> pc[c] = "idle"
=============================================================================
