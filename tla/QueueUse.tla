------------------------------ MODULE QueueUse -------------------------------
(***************************************************************************)
(* A queue, the threads that fill it and the threads that empty it.  A     *)
(* producer enqueues an item and signals later, having been busy with      *)
(* something else in between (handle_req gives a buffer back to its pool); *)
(* a consumer takes an item, works on it, and comes back for the next.     *)
(***************************************************************************)
EXTENDS JobQueue, FiniteSets

CONSTANTS Producers, Consumers,
          Items,    \* bound: what is enqueued, each item once
          Idle      \* a consumer that has no item

ASSUME UseAssumption == /\ IsFiniteSet(Producers)
                        /\ IsFiniteSet(Consumers)
                        /\ Idle \notin Items

VARIABLES pending,  \* the producers between their enqueue and their wakeup
          hand,     \* the item each consumer works on
          sent,     \* history: the items in the order they were enqueued
          taken     \* history: the items in the order they were dequeued

vars == <<queueVars, pending, hand, sent, taken>>

ItemsOf(s) == {s[i] : i \in DOMAIN s}

QInit == /\ Init
         /\ pending = {}
         /\ hand = [c \in Consumers |-> Idle]
         /\ sent = <<>>
         /\ taken = <<>>

Produce(p) == /\ p \notin pending
              /\ \E x \in Items \ ItemsOf(sent) :
                   /\ Enqueue(x)
                   /\ sent' = Append(sent, x)
              /\ pending' = pending \cup {p}
              /\ UNCHANGED <<hand, taken>>

Announce(p) == /\ p \in pending
               /\ Wakeup
               /\ pending' = pending \ {p}
               /\ UNCHANGED <<hand, sent, taken>>

Consume(c) == /\ hand[c] = Idle
              /\ \E x \in Items : /\ Take(c, x)
                                  /\ hand' = [hand EXCEPT ![c] = x]
                                  /\ taken' = Append(taken, x)
              /\ UNCHANGED <<pending, sent>>

Sleep(c) == /\ hand[c] = Idle
            /\ Block(c)
            /\ UNCHANGED <<pending, hand, sent, taken>>

\* The consumer is done with its item and calls the dequeue again.
Finish(c) == /\ hand[c] # Idle
             /\ hand' = [hand EXCEPT ![c] = Idle]
             /\ UNCHANGED <<queueVars, pending, sent, taken>>

Spurious == SpuriousWakeup /\ UNCHANGED <<pending, hand, sent, taken>>

QNext == \/ \E p \in Producers : Produce(p) \/ Announce(p)
         \/ \E c \in Consumers : Consume(c) \/ Sleep(c) \/ Finish(c)
         \/ Spurious

\* A thread that can run does: a producer reaches its wakeup, a consumer that
\* is awake looks at the queue, work on an item ends.
QFairness == /\ \A p \in Producers : WF_vars(Announce(p))
             /\ \A c \in Consumers : /\ WF_vars(Consume(c) \/ Sleep(c))
                                     /\ WF_vars(Finish(c))

QSpec == QInit /\ [][QNext]_vars
QFairSpec == QSpec /\ QFairness

-----------------------------------------------------------------------------
\* The variables have their types.
QTypeOK == /\ queue \in Seq(Items)
           /\ waiting \subseteq Consumers
           /\ woken \subseteq Consumers
           /\ pending \subseteq Producers
           /\ hand \in [Consumers -> Items \cup {Idle}]
           /\ sent \in Seq(Items)
           /\ taken \in Seq(Items)

\* No wakeup is lost although the signal is sent after the mutex has been
\* given up: while a consumer sleeps, every item in the queue has a producer
\* that still has to signal or a consumer on its way from its sleep.
NoLostWakeup ==
  waiting # {} => Len(queue) <= Cardinality(pending) + Cardinality(woken)

\* Every item enqueued is in the queue or has been taken, and taken once.
DeliveredOnce == /\ Len(sent) = Len(taken) + Len(queue)
                 /\ ItemsOf(sent) = ItemsOf(taken) \cup ItemsOf(queue)

\* The work queue serves jobs in the order they were enqueued.
FifoOrder == ~Lifo => sent = taken \o queue

\* The inductive invariant behind them.
QueueInv == /\ QTypeOK
            /\ waiting \cap woken = {}
            /\ NoLostWakeup
            /\ DeliveredOnce
            /\ FifoOrder

\* Every item in the queue is taken in the end.
EveryItemTaken ==
  \A x \in Items : x \in ItemsOf(queue) ~> x \in ItemsOf(taken)
=============================================================================
