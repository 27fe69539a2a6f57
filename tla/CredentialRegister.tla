------------------------- MODULE CredentialRegister -------------------------
(***************************************************************************)
(* What an account's Todoist connection promises, without versions: one    *)
(* register that holds the credential.  A settings page is linked to the   *)
(* content it shows and can replace that content only (load-linked, store- *)
(* conditional: a content that was replaced and restored is another one).  *)
(* An attempt on Todoist takes the credential the register holds at that   *)
(* moment, if it holds one.  A first content, the server's token, never    *)
(* returns.                                                                *)
(***************************************************************************)
CONSTANTS Request, Token, Server, Tombstone, NoOverride, NoCredential

VARIABLES
  content,  \* a replacement token, the tombstone, or no override yet
  linked,   \* requests whose page shows this very content
  inUse     \* the credential of each request's attempt under way

vars == <<content, linked, inUse>>

Init == /\ content = NoOverride
        /\ linked = {}
        /\ inUse = [r \in Request |-> NoCredential]

Look(r) == /\ linked' = linked \cup {r}
           /\ UNCHANGED <<content, inUse>>

\* A save or a disconnection unlinks every page, its own too.
Replace(r) == /\ r \in linked
              /\ content' \in Token \cup {Tombstone}
              /\ linked' = {}
              /\ UNCHANGED inUse

Take(r) == /\ content # Tombstone
           /\ inUse' = [inUse EXCEPT ![r] = IF content = NoOverride THEN Server ELSE content]
           /\ UNCHANGED <<content, linked>>

\* Attempts end, one by one or with their process.
Drop == /\ \E S \in SUBSET Request :
             inUse' = [r \in Request |-> IF r \in S THEN NoCredential ELSE inUse[r]]
        /\ UNCHANGED <<content, linked>>

Next == Drop \/ \E r \in Request : Look(r) \/ Replace(r) \/ Take(r)

Spec == Init /\ [][Next]_vars
=============================================================================
