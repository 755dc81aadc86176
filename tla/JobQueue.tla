------------------------------ MODULE JobQueue -------------------------------
(***************************************************************************)
(* The two hand-over queues of work.c: the work queue, from the request    *)
(* threads to the workers (workq_...), and the list of accepted            *)
(* connections, from the main thread to the request threads (td_...).      *)
(* Enqueueing and signalling are two calls, each with the mutex to itself, *)
(* and a thread may do other work between them.                            *)
(*                                                                         *)
(* The work queue inserts at the tail, the list of connections at the      *)
(* head; both remove at the head.                                          *)
(***************************************************************************)
EXTENDS Naturals, Sequences

CONSTANT Lifo       \* TRUE for the list of connections (LIST_INSERT_HEAD)

ASSUME QueueAssumption == Lifo \in BOOLEAN

VARIABLES queue, waiting, woken

queueVars == <<queue, waiting, woken>>

Cond == INSTANCE CondVar

Init == queue = <<>> /\ Cond!Init

\* Faulty: jobs are inserted at the head.
EnqueueAtHead(x) == /\ queue' = <<x>> \o queue
                    /\ UNCHANGED <<waiting, woken>>

\* workq_enqueue_job, td_enqueue.
Enqueue(x) == /\ queue' = IF Lifo THEN <<x>> \o queue ELSE Append(queue, x)
              /\ UNCHANGED <<waiting, woken>>

\* Faulty: only the first entry of an empty queue is worth a signal.
WakeupForFirst == /\ IF Len(queue) = 1 THEN Cond!Signal
                                       ELSE UNCHANGED <<waiting, woken>>
                  /\ UNCHANGED queue

\* workq_wakeup, td_wakeup.
Wakeup == Cond!Signal /\ UNCHANGED queue

\* Faulty: the entry is read but not removed.
TakeAndKeep(t, x) == /\ t \notin waiting
                     /\ queue # <<>>
                     /\ x = Head(queue)
                     /\ Cond!Proceed(t)
                     /\ UNCHANGED queue

\* A dequeue that finds an entry, at its first look or after a wait.
Take(t, x) == /\ t \notin waiting
              /\ queue # <<>>
              /\ x = Head(queue)
              /\ queue' = Tail(queue)
              /\ Cond!Proceed(t)

\* A dequeue that finds the queue empty and sleeps, or sleeps again.
Block(t) == /\ t \notin waiting
            /\ queue = <<>>
            /\ Cond!Wait(t)
            /\ UNCHANGED queue

SpuriousWakeup == Cond!SpuriousWakeup /\ UNCHANGED queue
=============================================================================
