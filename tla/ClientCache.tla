---------------------------- MODULE ClientCache ----------------------------
(***************************************************************************)
(* What VaultClient promises its callers about the OpenBao client they     *)
(* share, with no lock in sight: a request is handed the cached client if  *)
(* there is one; if there is none, one new client is made, cached and      *)
(* handed out in a single step; anyone may drop the cached client.         *)
(* Clients are numbered in the order they are made and 0 is None.          *)
(***************************************************************************)
EXTENDS Naturals

CONSTANTS Threads

VARIABLES client,   \* the cached client, 0 when there is none
          made,     \* how many clients have been made
          held      \* the client each thread works with, 0 when it has none

Init == /\ client = 0
        /\ made = 0
        /\ held = [t \in Threads |-> 0]

Fetch(t) == /\ client # 0
            /\ held' = [held EXCEPT ![t] = client]
            /\ UNCHANGED <<client, made>>

Create(t) == /\ client = 0
             /\ made' = made + 1
             /\ client' = made'
             /\ held' = [held EXCEPT ![t] = made']

Drop == /\ client' = 0
        /\ UNCHANGED <<made, held>>

Release(t) == /\ held' = [held EXCEPT ![t] = 0]
              /\ UNCHANGED <<client, made>>

Next == \/ Drop
        \/ \E t \in Threads : Fetch(t) \/ Create(t) \/ Release(t)

Spec == Init /\ [][Next]_<<client, made, held>>
=============================================================================
