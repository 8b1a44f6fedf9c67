------------------------------- MODULE KvStore -------------------------------
(***************************************************************************)
(* What hlx.runtime.Registry promises its users: one value per             *)
(* (bucket, key), the one registered last, until it is unregistered.       *)
(* KvRegistry implements it with a linked list.                            *)
(***************************************************************************)
CONSTANTS Names,    \* (bucket, key) pairs as the store compares them
          Values,   \* values a mod may register
          Absent    \* what a name without an entry maps to

VARIABLE store

TypeOK == store \in [Names -> Values \cup {Absent}]

Init == store = [n \in Names |-> Absent]

Put(n, v) == store' = [store EXCEPT ![n] = v]
Drop(n) == store' = [store EXCEPT ![n] = Absent]

Next == \E n \in Names : Drop(n) \/ \E v \in Values : Put(n, v)

Spec == Init /\ [][Next]_store
=============================================================================
