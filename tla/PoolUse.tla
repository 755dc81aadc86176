------------------------------- MODULE PoolUse -------------------------------
(***************************************************************************)
(* A pool and the threads that use it: every thread may hold up to MaxHold *)
(* entries, takes one more, gives one back, or passes one on (the buffer a *)
(* request thread puts in a job reaches a worker; the thread_data the main *)
(* thread takes is returned by another thread).                            *)
(***************************************************************************)
EXTENDS Pool, FiniteSets

CONSTANTS Threads,  \* the threads that share the pool
          MaxHold   \* bound: entries one thread holds at a time

ASSUME UseAssumption == /\ IsFiniteSet(Threads)
                        /\ MaxHold \in Nat \ {0}

VARIABLES held,     \* the entries each thread holds
          failed    \* the threads a get has returned NULL to

vars == <<poolVars, held, failed>>

PInit == /\ Init
         /\ held = [t \in Threads |-> {}]
         /\ failed = {}

GetBlocks(t) == /\ Cardinality(held[t]) < MaxHold
                /\ Block(t)
                /\ UNCHANGED <<held, failed>>

Get(t) == /\ Cardinality(held[t]) < MaxHold
          /\ \E e \in (1..Populated) \cup {Null} :
               /\ Grant(t, e)
               /\ held' = [held EXCEPT ![t] = @ \cup ({e} \ {Null})]
               /\ failed' = IF e = Null THEN failed \cup {t} ELSE failed

\* A thread that sleeps, or that has been woken inside a get, returns
\* nothing until that get is over.
Return(t) == /\ t \notin waiting \cup woken
             /\ \E e \in held[t] :
                  /\ Join(e)
                  /\ held' = [held EXCEPT ![t] = @ \ {e}]
             /\ UNCHANGED failed

Handover(t, u) == /\ t # u
                  /\ {t, u} \cap (waiting \cup woken) = {}
                  /\ Cardinality(held[u]) < MaxHold
                  /\ \E e \in held[t] :
                       held' = [held EXCEPT ![t] = @ \ {e},
                                            ![u] = @ \cup {e}]
                  /\ UNCHANGED <<poolVars, failed>>

Spurious == SpuriousWakeup /\ UNCHANGED <<held, failed>>

PNext == \/ \E t \in Threads : Get(t) \/ GetBlocks(t) \/ Return(t)
         \/ \E t, u \in Threads : Handover(t, u)
         \/ Spurious

PSpec == PInit /\ [][PNext]_vars

-----------------------------------------------------------------------------
Alloc == INSTANCE Allocator WITH Resources <- Entry, owned <- held

\* The variables have their types, and the pool never holds more than MaxNum
\* entries although populate tests num for equality only.
PTypeOK == /\ num \in 0..MaxNum
           /\ inuse \in 0..MaxNum
           /\ busy \subseteq 1..num
           /\ waiting \subseteq Threads
           /\ woken \subseteq Threads
           /\ held \in [Threads -> SUBSET Entry]
           /\ failed \subseteq Threads

\* A get never reaches "something went wrong" (buffer_pool.c:71): whenever a
\* caller is let past the wait loop, the scan of the list finds a free entry,
\* even if other callers took entries between the signal and the wakeup.
NeverNull == failed = {}

\* No wakeup is lost: while threads sleep, every free entry has a thread that
\* was woken for it and has not looked at the pool yet.
NoLostWakeup == waiting # {} => num - inuse <= Cardinality(woken)

\* The statuses in the list agree with who has taken what: exactly the held
\* entries are in use, so the assert in the join functions holds.
StatusMatchesHolders == /\ busy = UNION {held[t] : t \in Threads}
                        /\ \A t, u \in Threads : t # u => held[t] \cap held[u] = {}

\* The inductive invariant behind the four properties above.
PoolInv == /\ PTypeOK
           /\ \E k \in 1..MaxNum : num = k * Amp
           /\ inuse = Cardinality(busy)
           /\ StatusMatchesHolders
           /\ waiting \cap woken = {}
           /\ waiting # {} => num = MaxNum
           /\ NoLostWakeup
           /\ NeverNull

\* The pool implements the allocator: no step of it, whatever the growing,
\* sleeping and waking around it, gives a thread an entry another one has.
ImplementsAllocator == Alloc!Spec
=============================================================================
