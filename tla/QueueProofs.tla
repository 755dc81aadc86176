----------------------------- MODULE QueueProofs -----------------------------
(***************************************************************************)
(* Proofs about the queues of work.c, for any sets of producers, consumers *)
(* and items, and for both insertion orders.                               *)
(***************************************************************************)
EXTENDS QueueUse, FiniteSetTheorems, SequenceTheorems, TLAPS

-----------------------------------------------------------------------------
(* What enqueueing and dequeueing do to the items of a sequence.           *)

\* An empty queue has no items.
LEMMA ItemsOfEmpty == ItemsOf(<<>>) = {}
BY DEF ItemsOf

\* workq_enqueue_job, and the history of what was enqueued: an item appended
\* is an item more.
LEMMA ItemsOfAppend ==
  ASSUME NEW S, NEW s \in Seq(S), NEW x \in S
  PROVE  ItemsOf(Append(s, x)) = ItemsOf(s) \cup {x}
<1>1. DOMAIN Append(s, x) = 1..(Len(s) + 1) /\ DOMAIN s = 1..Len(s)
  BY AppendProperties, LenProperties
<1>2. Append(s, x)[Len(s) + 1] = x
  BY AppendProperties
<1>3. \A i \in 1..Len(s) : Append(s, x)[i] = s[i]
  BY AppendProperties
<1>4. Len(s) \in Nat
  BY LenProperties
<1>5. 1..(Len(s) + 1) = 1..Len(s) \cup {Len(s) + 1}
  BY <1>4
<1> QED
  BY <1>1, <1>2, <1>3, <1>5 DEF ItemsOf

\* The items of a concatenation are those of its parts; td_enqueue inserts at
\* the head by one.
LEMMA ItemsOfConcat ==
  ASSUME NEW S, NEW s \in Seq(S), NEW t \in Seq(S)
  PROVE  ItemsOf(s \o t) = ItemsOf(s) \cup ItemsOf(t)
<1>1. /\ Len(s) \in Nat /\ Len(t) \in Nat
      /\ DOMAIN s = 1..Len(s) /\ DOMAIN t = 1..Len(t)
      /\ DOMAIN (s \o t) = 1..(Len(s) + Len(t))
  BY ConcatProperties, LenProperties
<1>2. \A i \in 1..(Len(s) + Len(t)) :
         (s \o t)[i] = IF i <= Len(s) THEN s[i] ELSE t[i - Len(s)]
  BY ConcatProperties
<1>3. ASSUME NEW y \in ItemsOf(s \o t)
      PROVE  y \in ItemsOf(s) \cup ItemsOf(t)
  <2>1. PICK i \in 1..(Len(s) + Len(t)) : y = (s \o t)[i]
    BY <1>1, <1>3 DEF ItemsOf
  <2>2. CASE i <= Len(s)
    BY <1>1, <1>2, <2>1, <2>2 DEF ItemsOf
  <2>3. CASE i > Len(s)
    <3>1. i - Len(s) \in 1..Len(t)
      BY <1>1, <2>3
    <3> QED
      BY <1>1, <1>2, <2>1, <2>3, <3>1 DEF ItemsOf
  <2> QED
    BY <1>1, <2>2, <2>3
<1>4. ASSUME NEW y \in ItemsOf(s) PROVE y \in ItemsOf(s \o t)
  <2>1. PICK i \in 1..Len(s) : y = s[i]
    BY <1>1, <1>4 DEF ItemsOf
  <2>2. i \in 1..(Len(s) + Len(t)) /\ (s \o t)[i] = y
    BY <1>1, <1>2, <2>1
  <2> QED
    BY <1>1, <2>2 DEF ItemsOf
<1>5. ASSUME NEW y \in ItemsOf(t) PROVE y \in ItemsOf(s \o t)
  <2>1. PICK i \in 1..Len(t) : y = t[i]
    BY <1>1, <1>5 DEF ItemsOf
  <2>2. /\ i + Len(s) \in 1..(Len(s) + Len(t))
        /\ ~(i + Len(s) <= Len(s))
        /\ (i + Len(s)) - Len(s) = i
    BY <1>1
  <2>3. (s \o t)[i + Len(s)] = y
    BY <1>2, <2>1, <2>2
  <2> QED
    BY <1>1, <2>2, <2>3 DEF ItemsOf
<1> QED
  BY <1>3, <1>4, <1>5

\* A queue of one entry has that entry as its only item.
LEMMA ItemsOfSingle ==
  ASSUME NEW S, NEW x \in S
  PROVE  /\ <<x>> \in Seq(S) /\ Len(<<x>>) = 1
         /\ ItemsOf(<<x>>) = {x}
BY DEF ItemsOf

\* A non-empty queue is its head followed by its tail.
LEMMA HeadThenTail ==
  ASSUME NEW S, NEW s \in Seq(S), s # <<>>
  PROVE  /\ Head(s) \in S /\ Tail(s) \in Seq(S)
         /\ Len(Tail(s)) = Len(s) - 1
         /\ s = <<Head(s)>> \o Tail(s)
<1>1. /\ Head(s) \in S /\ Tail(s) \in Seq(S)
      /\ Len(Tail(s)) = Len(s) - 1
      /\ Len(s) \in Nat \ {0}
  BY HeadTailProperties, EmptySeq
<1>2. <<Head(s)>> \in Seq(S) /\ Len(<<Head(s)>>) = 1
  BY <1>1
<1> DEFINE u == <<Head(s)>> \o Tail(s)
<1>3. u \in Seq(S) /\ Len(u) = Len(s)
  BY <1>1, <1>2, ConcatProperties
<1>4. \A i \in 1..Len(s) : u[i] = s[i]
  <2> TAKE i \in 1..Len(s)
  <2>1. u[i] = IF i <= 1 THEN <<Head(s)>>[i] ELSE Tail(s)[i - 1]
    BY <1>1, <1>2, ConcatProperties
  <2>2. CASE i = 1
    BY <2>1, <2>2
  <2>3. CASE i # 1
    <3>1. i - 1 \in 1..Len(Tail(s)) /\ (i - 1) + 1 = i
      BY <1>1, <2>3
    <3>2. Tail(s)[i - 1] = s[i]
      BY <3>1, HeadTailProperties
    <3> QED
      BY <1>1, <2>1, <2>3, <3>2
  <2> QED
    BY <2>2, <2>3
<1> HIDE DEF u
<1>5. u = s
  BY <1>3, <1>4, SeqEqual
<1> QED
  BY <1>1, <1>5 DEF u

-----------------------------------------------------------------------------
(* The parts of the invariant, each kept by every step.                    *)

\* The counts that NoLostWakeup compares are natural numbers.
LEMMA CountsFinite ==
  ASSUME QTypeOK
  PROVE  /\ IsFiniteSet(pending) /\ Cardinality(pending) \in Nat
         /\ IsFiniteSet(woken) /\ Cardinality(woken) \in Nat
         /\ Len(queue) \in Nat
         /\ Len(sent) \in Nat
         /\ Len(taken) \in Nat
<1>1. IsFiniteSet(pending) /\ IsFiniteSet(woken)
  BY UseAssumption, FS_Subset DEF QTypeOK
<1> QED
  BY <1>1, FS_CardinalityType, LenProperties DEF QTypeOK

\* A wakeup moves one thread from the sleepers to the woken.
LEMMA AwakenCounts ==
  ASSUME QTypeOK, waiting \cap woken = {}, NEW t \in waiting, Cond!Awaken(t)
  PROVE  /\ waiting' \subseteq Consumers /\ woken' \subseteq Consumers
         /\ waiting' \cap woken' = {}
         /\ Cardinality(woken') = Cardinality(woken) + 1
<1>1. waiting' = waiting \ {t} /\ woken' = woken \cup {t}
  BY DEF Cond!Awaken
<1>2. t \notin woken
  OBVIOUS
<1>3. Cardinality(woken') = Cardinality(woken) + 1
  BY <1>1, <1>2, CountsFinite, FS_AddElement
<1> QED
  BY <1>1, <1>3 DEF QTypeOK

\* A step that neither enqueues nor dequeues keeps what is said of the items.
LEMMA HistoryUnchanged ==
  ASSUME DeliveredOnce, FifoOrder, UNCHANGED <<queue, sent, taken>>
  PROVE  DeliveredOnce' /\ FifoOrder'
BY DEF DeliveredOnce, FifoOrder

\* The invariant holds of the queue that server_init_globals sets up.
LEMMA QueueInvInit == QInit => QueueInv
<1> SUFFICES ASSUME QInit PROVE QueueInv
  OBVIOUS
<1>1. /\ queue = <<>> /\ sent = <<>> /\ taken = <<>>
      /\ waiting = {} /\ woken = {} /\ pending = {}
      /\ hand = [c \in Consumers |-> Idle]
  BY DEF QInit, Init, Cond!Init
<1>2. <<>> \in Seq(Items) /\ Len(<<>>) = 0
  OBVIOUS
<1>3. <<>> \o <<>> = <<>>
  BY <1>2, ConcatEmptySeq
<1> QED
  BY <1>1, <1>2, <1>3, ItemsOfEmpty
     DEF QueueInv, QTypeOK, NoLostWakeup, DeliveredOnce, FifoOrder

\* workq_enqueue_job or td_enqueue keeps the invariant: the item is new, and
\* its producer is still to signal.
LEMMA ProduceKeepsInv ==
  ASSUME QueueInv, NEW p \in Producers, Produce(p)
  PROVE  QueueInv'
<1>1. PICK x \in Items \ ItemsOf(sent) :
        /\ queue' = IF Lifo THEN <<x>> \o queue ELSE Append(queue, x)
        /\ UNCHANGED <<waiting, woken>>
        /\ sent' = Append(sent, x)
  BY DEF Produce, Enqueue
<1>2. /\ p \notin pending /\ pending' = pending \cup {p}
      /\ hand' = hand /\ taken' = taken
  BY DEF Produce
<1>3. queue \in Seq(Items) /\ sent \in Seq(Items) /\ taken \in Seq(Items)
  BY DEF QueueInv, QTypeOK
<1>4. /\ queue' \in Seq(Items)
      /\ Len(queue') = Len(queue) + 1
      /\ ItemsOf(queue') = ItemsOf(queue) \cup {x}
  <2>1. CASE Lifo
    <3>1. queue' = <<x>> \o queue
      BY <1>1, <2>1
    <3>2. <<x>> \in Seq(Items) /\ Len(<<x>>) = 1 /\ ItemsOf(<<x>>) = {x}
      BY <1>1, ItemsOfSingle
    <3>3. queue' \in Seq(Items) /\ Len(queue') = 1 + Len(queue)
      BY <1>3, <3>1, <3>2, ConcatProperties
    <3>4. ItemsOf(<<x>> \o queue) = ItemsOf(<<x>>) \cup ItemsOf(queue)
      BY <1>3, <3>2, ItemsOfConcat, ZenonT(30)
    <3>5. ItemsOf(queue') = ItemsOf(queue) \cup {x}
      BY <3>1, <3>2, <3>4
    <3> QED
      BY <1>3, <3>3, <3>5, LenProperties
  <2>2. CASE ~Lifo
    BY <1>1, <1>3, <2>2, AppendProperties, ItemsOfAppend
  <2> QED
    BY <2>1, <2>2
<1>5. /\ sent' \in Seq(Items) /\ Len(sent') = Len(sent) + 1
      /\ ItemsOf(sent') = ItemsOf(sent) \cup {x}
  BY <1>1, <1>3, AppendProperties, ItemsOfAppend
<1>6. QTypeOK'
  BY <1>1, <1>2, <1>4, <1>5 DEF QueueInv, QTypeOK
<1>7. NoLostWakeup'
  <2>1. Cardinality(pending') = Cardinality(pending) + 1
    BY <1>2, CountsFinite, FS_AddElement DEF QueueInv
  <2> QED
    BY <1>1, <1>4, <2>1, CountsFinite DEF QueueInv, NoLostWakeup
<1>8. DeliveredOnce'
  <2>1. Len(sent') = Len(taken') + Len(queue')
    BY <1>2, <1>4, <1>5, CountsFinite DEF QueueInv, DeliveredOnce
  <2>2. ItemsOf(sent') = ItemsOf(taken') \cup ItemsOf(queue')
    BY <1>2, <1>4, <1>5 DEF QueueInv, DeliveredOnce
  <2> QED
    BY <2>1, <2>2 DEF DeliveredOnce
<1>9. FifoOrder'
  <2> SUFFICES ASSUME ~Lifo PROVE sent' = taken' \o queue'
    BY DEF FifoOrder
  <2>1. <<x>> \in Seq(Items)
    BY <1>1, ItemsOfSingle
  <2>2. queue' = queue \o <<x>> /\ sent' = sent \o <<x>>
    BY <1>1, <1>3, AppendIsConcat
  <2>3. sent = taken \o queue
    BY DEF QueueInv, FifoOrder
  <2>4. (taken \o queue) \o <<x>> = taken \o (queue \o <<x>>)
    BY <1>3, <2>1, ConcatAssociative
  <2> QED
    BY <1>2, <2>2, <2>3, <2>4
<1> QED
  BY <1>1, <1>6, <1>7, <1>8, <1>9 DEF QueueInv

\* workq_wakeup or td_wakeup keeps the invariant: the signal turns the producer
\* that is to signal into a woken consumer, if there is one that sleeps.
LEMMA AnnounceKeepsInv ==
  ASSUME QueueInv, NEW p \in Producers, Announce(p)
  PROVE  QueueInv'
<1>1. /\ p \in pending /\ pending' = pending \ {p}
      /\ UNCHANGED <<queue, hand, sent, taken>>
      /\ Cond!Signal
  BY DEF Announce, Wakeup
<1>2. Cardinality(pending') = Cardinality(pending) - 1
  BY <1>1, CountsFinite, FS_RemoveElement DEF QueueInv
<1>3. DeliveredOnce' /\ FifoOrder'
  BY <1>1, HistoryUnchanged DEF QueueInv
<1>4. /\ waiting' \subseteq Consumers /\ woken' \subseteq Consumers
      /\ waiting' \cap woken' = {}
      /\ NoLostWakeup'
  <2>1. CASE waiting = {}
    <3>1. waiting' = {} /\ woken' = woken
      BY <1>1, <2>1 DEF Cond!Signal
    <3> QED
      BY <3>1 DEF QueueInv, QTypeOK, NoLostWakeup
  <2>2. CASE waiting # {}
    <3>1. PICK t \in waiting : Cond!Awaken(t)
      BY <1>1, <2>2 DEF Cond!Signal
    <3>2. /\ waiting' \subseteq Consumers /\ woken' \subseteq Consumers
          /\ waiting' \cap woken' = {}
          /\ Cardinality(woken') = Cardinality(woken) + 1
      BY <3>1, AwakenCounts DEF QueueInv
    <3>3. Len(queue) <= Cardinality(pending) + Cardinality(woken)
      BY <2>2 DEF QueueInv, NoLostWakeup
    <3>4. Len(queue') <= Cardinality(pending') + Cardinality(woken')
      BY <1>1, <1>2, <3>2, <3>3, CountsFinite DEF QueueInv
    <3> QED
      BY <3>2, <3>4 DEF NoLostWakeup
  <2> QED
    BY <2>1, <2>2
<1>5. QTypeOK'
  BY <1>1, <1>4 DEF QueueInv, QTypeOK
<1> QED
  BY <1>3, <1>4, <1>5 DEF QueueInv

\* A dequeue keeps the invariant, also if the consumer never slept and takes
\* what was announced to another one.
LEMMA ConsumeKeepsInv ==
  ASSUME QueueInv, NEW c \in Consumers, Consume(c)
  PROVE  QueueInv'
<1>1. PICK x \in Items : /\ queue # <<>>
                         /\ x = Head(queue)
                         /\ queue' = Tail(queue)
                         /\ woken' = woken \ {c} /\ waiting' = waiting
                         /\ hand' = [hand EXCEPT ![c] = x]
                         /\ taken' = Append(taken, x)
  BY DEF Consume, Take, Cond!Proceed
<1>2. pending' = pending /\ sent' = sent
  BY DEF Consume
<1>3. queue \in Seq(Items) /\ taken \in Seq(Items)
  BY DEF QueueInv, QTypeOK
<1>4. /\ queue' \in Seq(Items) /\ Len(queue') = Len(queue) - 1
      /\ queue = <<x>> \o queue'
  BY <1>1, <1>3, HeadThenTail
<1>5. <<x>> \in Seq(Items) /\ ItemsOf(<<x>>) = {x}
  BY <1>1, ItemsOfSingle
<1>6. /\ taken' \in Seq(Items) /\ Len(taken') = Len(taken) + 1
      /\ ItemsOf(taken') = ItemsOf(taken) \cup {x}
  BY <1>1, <1>3, AppendProperties, ItemsOfAppend
<1>7. QTypeOK'
  BY <1>1, <1>2, <1>4, <1>6 DEF QueueInv, QTypeOK
<1>8. NoLostWakeup'
  <2>1. Cardinality(woken') >= Cardinality(woken) - 1
    <3>1. Cardinality(woken \ {c})
            = IF c \in woken THEN Cardinality(woken) - 1 ELSE Cardinality(woken)
      BY CountsFinite, FS_RemoveElement DEF QueueInv
    <3> QED
      BY <1>1, <3>1, CountsFinite DEF QueueInv
  <2>2. Cardinality(woken') \in Nat
    BY <1>7, CountsFinite, UseAssumption, FS_Subset, FS_CardinalityType DEF QTypeOK
  <2> QED
    BY <1>1, <1>2, <1>4, <2>1, <2>2, CountsFinite DEF QueueInv, NoLostWakeup
<1>9. DeliveredOnce'
  <2>1. Len(sent') = Len(taken') + Len(queue')
    <3>1. Len(sent) = Len(taken) + Len(queue)
      BY DEF QueueInv, DeliveredOnce
    <3>2. Len(taken) \in Nat /\ Len(queue) \in Nat
      BY CountsFinite DEF QueueInv
    <3> QED
      BY <1>2, <1>4, <1>6, <3>1, <3>2
  <2>2. ItemsOf(queue) = {x} \cup ItemsOf(queue')
    <3>1. ItemsOf(<<x>> \o queue') = ItemsOf(<<x>>) \cup ItemsOf(queue')
      BY <1>4, <1>5, ItemsOfConcat
    <3> QED
      BY <1>4, <1>5, <3>1
  <2>3. ItemsOf(sent') = ItemsOf(taken') \cup ItemsOf(queue')
    BY <1>2, <1>6, <2>2 DEF QueueInv, DeliveredOnce
  <2> QED
    BY <2>1, <2>3 DEF DeliveredOnce
<1>10. FifoOrder'
  <2> SUFFICES ASSUME ~Lifo PROVE sent' = taken' \o queue'
    BY DEF FifoOrder
  <2>1. sent = taken \o (<<x>> \o queue')
    BY <1>4 DEF QueueInv, FifoOrder
  <2>2. taken' = taken \o <<x>>
    BY <1>1, <1>3, AppendIsConcat
  <2>3. (taken \o <<x>>) \o queue' = taken \o (<<x>> \o queue')
    BY <1>3, <1>4, <1>5, ConcatAssociative
  <2> QED
    BY <1>2, <2>1, <2>2, <2>3
<1> QED
  BY <1>1, <1>7, <1>8, <1>9, <1>10 DEF QueueInv

\* The wait of a dequeue keeps the invariant: there was nothing to take.
LEMMA SleepKeepsInv ==
  ASSUME QueueInv, NEW c \in Consumers, Sleep(c)
  PROVE  QueueInv'
<1>1. /\ queue = <<>>
      /\ waiting' = waiting \cup {c} /\ woken' = woken \ {c}
      /\ UNCHANGED <<queue, pending, hand, sent, taken>>
  BY DEF Sleep, Block, Cond!Wait
<1>2. QTypeOK'
  BY <1>1 DEF QueueInv, QTypeOK
<1>3. NoLostWakeup'
  <2>1. IsFiniteSet(woken')
    BY <1>2, UseAssumption, FS_Subset DEF QTypeOK
  <2>2. Cardinality(woken') \in Nat
    BY <2>1, FS_CardinalityType
  <2>3. Len(queue') = 0
    BY <1>1
  <2> QED
    BY <1>1, <2>2, <2>3, CountsFinite DEF QueueInv, NoLostWakeup
<1>4. waiting' \cap woken' = {}
  BY <1>1 DEF QueueInv
<1>5. DeliveredOnce' /\ FifoOrder'
  BY <1>1, HistoryUnchanged DEF QueueInv
<1> QED
  BY <1>2, <1>3, <1>4, <1>5 DEF QueueInv

\* handle_jobs and handle_req come back for the next item: nothing of the
\* queue changes.
LEMMA FinishKeepsInv ==
  ASSUME QueueInv, NEW c \in Consumers, Finish(c)
  PROVE  QueueInv'
BY DEF QueueInv, Finish, queueVars, QTypeOK, NoLostWakeup, DeliveredOnce,
       FifoOrder, ItemsOf

\* A wait that ends by itself leaves one more woken consumer.
LEMMA SpuriousKeepsInv ==
  ASSUME QueueInv, Spurious
  PROVE  QueueInv'
<1>1. UNCHANGED <<queue, pending, hand, sent, taken>>
  BY DEF Spurious, SpuriousWakeup
<1>2. PICK t \in waiting : Cond!Awaken(t)
  BY DEF Spurious, SpuriousWakeup, Cond!SpuriousWakeup
<1>3. /\ waiting' \subseteq Consumers /\ woken' \subseteq Consumers
      /\ waiting' \cap woken' = {}
      /\ Cardinality(woken') = Cardinality(woken) + 1
  BY <1>2, AwakenCounts DEF QueueInv
<1>4. QTypeOK'
  BY <1>1, <1>3 DEF QueueInv, QTypeOK
<1>5. NoLostWakeup'
  BY <1>1, <1>2, <1>3, CountsFinite DEF QueueInv, NoLostWakeup
<1>6. DeliveredOnce' /\ FifoOrder'
  BY <1>1, HistoryUnchanged DEF QueueInv
<1> QED
  BY <1>3, <1>4, <1>5, <1>6 DEF QueueInv

\* Every step of the queue's producers and consumers keeps the invariant.
LEMMA QueueInvNext == QueueInv /\ [QNext]_vars => QueueInv'
<1> SUFFICES ASSUME QueueInv, [QNext]_vars PROVE QueueInv'
  OBVIOUS
<1>1. ASSUME NEW p \in Producers, Produce(p) PROVE QueueInv'
  BY <1>1, ProduceKeepsInv
<1>2. ASSUME NEW p \in Producers, Announce(p) PROVE QueueInv'
  BY <1>2, AnnounceKeepsInv
<1>3. ASSUME NEW c \in Consumers, Consume(c) PROVE QueueInv'
  BY <1>3, ConsumeKeepsInv
<1>4. ASSUME NEW c \in Consumers, Sleep(c) PROVE QueueInv'
  BY <1>4, SleepKeepsInv
<1>5. ASSUME NEW c \in Consumers, Finish(c) PROVE QueueInv'
  BY <1>5, FinishKeepsInv
<1>6. CASE Spurious
  BY <1>6, SpuriousKeepsInv
<1>7. CASE UNCHANGED vars
  BY <1>7 DEF vars, queueVars, QueueInv, QTypeOK, NoLostWakeup, DeliveredOnce,
              FifoOrder, ItemsOf
<1> QED
  BY <1>1, <1>2, <1>3, <1>4, <1>5, <1>6, <1>7 DEF QNext

-----------------------------------------------------------------------------
(* The theorems.                                                           *)

\* The invariant of the queue holds for any producers, consumers and items.
THEOREM QueueInvariant == QSpec => []QueueInv
<1> QED
  BY QueueInvInit, QueueInvNext, PTL DEF QSpec

\* No consumer sleeps while an item has neither a producer that is still to
\* signal nor a woken consumer, though enqueue and signal are two calls.
THEOREM QueueLosesNoWakeup == QSpec => []NoLostWakeup
<1>1. QueueInv => NoLostWakeup
  BY DEF QueueInv
<1> QED
  BY <1>1, QueueInvariant, PTL

\* Nothing enqueued is lost or handed out twice, at either end of insertion.
THEOREM QueueDeliversOnce == QSpec => []DeliveredOnce
<1>1. QueueInv => DeliveredOnce
  BY DEF QueueInv
<1> QED
  BY <1>1, QueueInvariant, PTL

\* The work queue gives the jobs to the workers in the order they came.
THEOREM QueueIsFifo == QSpec => []FifoOrder
<1>1. QueueInv => FifoOrder
  BY DEF QueueInv
<1> QED
  BY <1>1, QueueInvariant, PTL

=============================================================================
