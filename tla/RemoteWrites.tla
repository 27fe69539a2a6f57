---------------------------- MODULE RemoteWrites ----------------------------
(***************************************************************************)
(* What the typed client promises of writes, without attempts and headers: *)
(* a write that is handed over acts at most once, at some time of its own; *)
(* an action named by a key acts once, however often it is handed over.    *)
(* Its caller is told that it was done, or that it was not and never will  *)
(* be, or nothing that it can rely on, and then it may act later.          *)
(***************************************************************************)
EXTENDS Naturals

CONSTANTS Caller, Key, NoKey, MaxCalls

VARIABLES
  waiting,  \* writes whose callers wait for an answer
  open,     \* writes that may still act
  acted,    \* writes that have acted
  word      \* what each caller was told of its last call, if that was a write

vars == <<waiting, open, acted, word>>

Write == [caller : Caller, call : 1..MaxCalls, key : Key \cup {NoKey}]

Init == /\ waiting = {} /\ open = {} /\ acted = {}
        /\ word = [c \in Caller |-> "none"]

Done(w) == \E v \in acted : v = w \/ (v.key = w.key /\ v.key # NoKey)

\* A caller has one call at a time, and numbers its calls.
HandOver(w) ==
  /\ \A v \in waiting : v.caller # w.caller
  /\ \A v \in open \cup acted : v.caller = w.caller => v.call # w.call
  /\ waiting' = waiting \cup {w} /\ open' = open \cup {w}
  /\ word' = [word EXCEPT ![w.caller] = "none"]
  /\ UNCHANGED acted

\* A caller that reads has been told nothing.
Read(c) == word' = [word EXCEPT ![c] = "none"] /\ UNCHANGED <<waiting, open, acted>>

Act(w) == /\ w \in open /\ open' = open \ {w}
          /\ acted' = IF Done(w) THEN acted ELSE acted \cup {w}

ActAlone(w) == Act(w) /\ UNCHANGED <<waiting, word>>

Tell(w, what) == /\ waiting' = waiting \ {w}
                 /\ word' = [word EXCEPT ![w.caller] = what]

TellDone(w) == /\ Tell(w, "done")
               /\ \/ Act(w)
                  \/ w \notin open /\ Done(w) /\ UNCHANGED <<open, acted>>

TellNotDone(w) == /\ Tell(w, "not done")
                  /\ w \in open /\ open' = open \ {w} /\ UNCHANGED acted

TellNothing(w) == /\ Tell(w, "unknown")
                  /\ Act(w) \/ (w \in open /\ open' \in {open, open \ {w}} /\ UNCHANGED acted)

Next == \/ \E c \in Caller : Read(c)
        \/ \E w \in Write : HandOver(w)
        \/ \E w \in open : ActAlone(w)
        \/ \E w \in waiting : TellDone(w) \/ TellNotDone(w) \/ TellNothing(w)

Spec == Init /\ [][Next]_vars
=============================================================================
