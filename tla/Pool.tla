-------------------------------- MODULE Pool ---------------------------------
(***************************************************************************)
(* The growable pool of buffer_pool.c and td_pool.c (each a copy of the    *)
(* other): a list of entries that starts with Amp entries, grows by Amp    *)
(* when none is free, and makes its callers wait once it holds MaxNum.     *)
(*                                                                         *)
(* This module has the operations; the modules that use a pool (PoolUse,   *)
(* Server) decide which thread calls them when.  An operation runs under   *)
(* the pool's mutex from end to end except for its condition wait, so it   *)
(* is one step, or one step up to the wait and one after it.               *)
(*                                                                         *)
(* Entry k is the k-th one allocated.  New entries are inserted at the     *)
(* head of the list, so the list, read from its head, is num, ..., 2, 1.   *)
(***************************************************************************)
EXTENDS Integers

CONSTANTS MaxNum,   \* MAX_BUFFERS (64), TD_POOL_MAX_TD (16)
          Amp       \* BUFFER_AMP (4), TD_POOL_AMP (4)

\* The populate functions compare num with the maximum for equality, which
\* stops the growth only because the maximum is a multiple of the step.
ASSUME PoolAssumption ==
  /\ Amp \in Nat \ {0}
  /\ MaxNum \in Nat
  /\ \E k \in 1..MaxNum : MaxNum = k * Amp

VARIABLES num,      \* entries in the list
          inuse,    \* the program's counter of entries in use
          busy,     \* the entries whose status is INUSE
          waiting, woken

poolVars == <<num, inuse, busy, waiting, woken>>

Cond == INSTANCE CondVar

\* The NULL a get returns when its scan finds no free entry.
Null == 0

Entry == 1..MaxNum

-----------------------------------------------------------------------------
\* The first Amp entries are there from the start.
Init == /\ num = Amp
        /\ inuse = 0
        /\ busy = {}
        /\ Cond!Init

Exhausted == num - inuse <= 0

\* Faulty: the loop that adds entries runs once too often.
PopulatedOneMore == IF Exhausted /\ num # MaxNum THEN num + Amp + 1 ELSE num

\* The length of the list a get scans: populate adds Amp entries unless the
\* pool has its maximum.
Populated == IF Exhausted /\ num # MaxNum THEN num + Amp ELSE num

\* The wait loop: the pool may not grow and its counters say it is empty.
MustWait == Exhausted /\ num = MaxNum /\ inuse = num

Free == (1..Populated) \ busy

\* What LIST_FOREACH finds: the free entry nearest the head, or nothing.
Found(e) == IF Free = {} THEN e = Null
                         ELSE e \in Free /\ \A f \in Free : f <= e

\* A get that sleeps in its condition wait, at its first look or again.
Block(t) == /\ t \notin waiting
            /\ MustWait
            /\ Cond!Wait(t)
            /\ UNCHANGED <<num, inuse, busy>>

\* Faulty: a caller that was woken does not look at the counters again.
GrantWithoutRecheck(t, e) ==
  /\ t \notin waiting
  /\ t \in woken \/ ~MustWait
  /\ Found(e)
  /\ num' = Populated
  /\ IF e = Null
       THEN UNCHANGED <<inuse, busy>>
       ELSE inuse' = inuse + 1 /\ busy' = busy \cup {e}
  /\ Cond!Proceed(t)

\* Faulty: the status of the entry is left FREE.
GrantForgetsStatus(t, e) ==
  /\ t \notin waiting
  /\ ~MustWait
  /\ Found(e)
  /\ num' = Populated
  /\ inuse' = inuse + 1
  /\ Cond!Proceed(t)
  /\ UNCHANGED busy

\* A get that returns e, with or without growing the pool, before or after
\* a wait.
Grant(t, e) == /\ t \notin waiting
               /\ ~MustWait
               /\ Found(e)
               /\ num' = Populated
               /\ IF e = Null
                    THEN UNCHANGED <<inuse, busy>>
                    ELSE inuse' = inuse + 1 /\ busy' = busy \cup {e}
               /\ Cond!Proceed(t)

\* Faulty: nobody is told that an entry is free.
JoinWithoutSignal(e) == /\ e \in busy
                        /\ busy' = busy \ {e}
                        /\ inuse' = inuse - 1
                        /\ UNCHANGED <<num, waiting, woken>>

\* Faulty: the entry stays INUSE.
JoinKeepsStatus(e) == /\ e \in busy
                      /\ inuse' = inuse - 1
                      /\ Cond!Signal
                      /\ UNCHANGED <<num, busy>>

\* Giving entry e back.  The code asserts that e is in the list and in use.
Join(e) == /\ e \in busy
           /\ busy' = busy \ {e}
           /\ inuse' = inuse - 1
           /\ Cond!Signal
           /\ UNCHANGED num

SpuriousWakeup == Cond!SpuriousWakeup /\ UNCHANGED <<num, inuse, busy>>
=============================================================================
