---------------------------- MODULE SchemaHistory ----------------------------
(***************************************************************************)
(* What the migration runners promise, whoever runs and whatever crashes:  *)
(* one history of the schema, which is only ever continued.  A migration   *)
(* takes effect and is recorded at once, when every earlier one is known by *)
(* its checksum; the checksum of a file the earlier runner applied is      *)
(* filled in once, with the accepted one.  Nothing else ever changes.      *)
(***************************************************************************)
EXTENDS Naturals

CONSTANTS N, NLegacy, Digest, Accepted, None, Null

VARIABLES
  record,  \* by migration: None, Null (applied, checksum unknown) or its checksum
  ran      \* by migration: the bytes it was applied with, or None

vars == <<record, ran>>

Migration == 1..N

Init == \E k \in 0..NLegacy :
          /\ record = [m \in Migration |-> IF m <= k THEN Null ELSE None]
          /\ ran \in [Migration -> Digest \cup {None}]
          /\ \A m \in Migration : (ran[m] = None) = (m > k)

KnownBefore(m) == \A n \in Migration : n < m => record[n] \in Digest

Continue(m) ==
  /\ KnownBefore(m) /\ record[m] = None /\ ran[m] = None
  /\ \E d \in Digest : /\ record' = [record EXCEPT ![m] = d]
                       /\ ran' = [ran EXCEPT ![m] = d]

Recognise(m) ==
  /\ KnownBefore(m) /\ record[m] = Null /\ m <= NLegacy
  /\ record' = [record EXCEPT ![m] = Accepted[m]]
  /\ UNCHANGED ran

Next == \E m \in Migration : Continue(m) \/ Recognise(m)

Spec == Init /\ [][Next]_vars
=============================================================================
