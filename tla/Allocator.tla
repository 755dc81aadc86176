------------------------------ MODULE Allocator ------------------------------
(***************************************************************************)
(* What a pool promises to the threads that use it: an entry belongs to at *)
(* most one thread at a time.  A thread acquires an entry nobody owns,     *)
(* hands one it owns to another thread, or releases it; nothing else       *)
(* changes what anyone owns.                                               *)
(***************************************************************************)
CONSTANTS Threads, Resources

VARIABLE owned      \* the entries each thread owns

Init == owned = [t \in Threads |-> {}]

Acquire(t, r) == /\ \A u \in Threads : r \notin owned[u]
                 /\ owned' = [owned EXCEPT ![t] = @ \cup {r}]

Release(t, r) == /\ r \in owned[t]
                 /\ owned' = [owned EXCEPT ![t] = @ \ {r}]

Transfer(t, u, r) == /\ t # u
                     /\ r \in owned[t]
                     /\ owned' = [owned EXCEPT ![t] = @ \ {r},
                                               ![u] = @ \cup {r}]

Next == \E t \in Threads, r \in Resources :
           \/ Acquire(t, r)
           \/ Release(t, r)
           \/ \E u \in Threads : Transfer(t, u, r)

Spec == Init /\ [][Next]_owned
=============================================================================
