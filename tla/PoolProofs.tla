----------------------------- MODULE PoolProofs ------------------------------
(***************************************************************************)
(* Proofs about the pools of buffer_pool.c and td_pool.c, for any number   *)
(* of threads, any maximum that is a multiple of the growth step, and any  *)
(* number of entries a thread may hold.                                    *)
(***************************************************************************)
EXTENDS PoolUse, FiniteSetTheorems, TLAPS

-----------------------------------------------------------------------------
(* Arithmetic of the growth.                                               *)

\* Multiplication by a natural number is monotonic.
LEMMA MultMonotonic ==
  ASSUME NEW a \in Nat, NEW b \in Nat, NEW c \in Nat, a <= b
  PROVE  a * c <= b * c
<1>1. PICK d \in Nat : b = a + d
  <2>1. b - a \in Nat /\ b = a + (b - a)
    OBVIOUS
  <2> QED
    BY <2>1
<1>2. b * c = a * c + d * c
  BY <1>1
<1>3. a * c \in Nat /\ d * c \in Nat
  OBVIOUS
<1> QED
  BY <1>2, <1>3

\* The equality test of the populate functions is enough: a pool below its
\* maximum has room for Amp more entries.
LEMMA GrowthFits ==
  ASSUME num \in 0..MaxNum, num # MaxNum,
         \E k \in 1..MaxNum : num = k * Amp
  PROVE  /\ num + Amp \in 0..MaxNum
         /\ \E k \in 1..MaxNum : num + Amp = k * Amp
<1>1. Amp \in Nat /\ Amp >= 1 /\ MaxNum \in Nat
  BY PoolAssumption
<1>2. PICK m \in 1..MaxNum : MaxNum = m * Amp
  BY PoolAssumption
<1>3. PICK k \in 1..MaxNum : num = k * Amp
  OBVIOUS
<1>4. m \in Nat /\ k \in Nat
  BY <1>1
<1>5. k < m
  <2>1. SUFFICES ASSUME m <= k PROVE FALSE
    BY <1>4
  <2>2. m * Amp <= k * Amp
    BY <1>1, <1>4, <2>1, MultMonotonic
  <2> QED
    BY <1>1, <1>2, <1>3, <2>2
<1>6. (k + 1) * Amp <= m * Amp
  BY <1>1, <1>4, <1>5, MultMonotonic
<1>7. (k + 1) * Amp = num + Amp
  BY <1>1, <1>3, <1>4
<1>8. k + 1 \in 1..MaxNum
  BY <1>1, <1>4, <1>5
<1> QED
  BY <1>1, <1>2, <1>6, <1>7, <1>8

-----------------------------------------------------------------------------
(* Counting the entries in use.                                            *)

\* The entries in use are finitely many, and when the counter is below the
\* length of the list one of the list's entries is free.
LEMMA SomeEntryFree ==
  ASSUME NEW n \in Nat, NEW S \in SUBSET (1..n), Cardinality(S) < n
  PROVE  (1..n) \ S # {}
<1>1. IsFiniteSet(1..n) /\ Cardinality(1..n) = n
  BY FS_Interval
<1>2. CASE (1..n) \ S = {}
  <2>1. S = 1..n
    BY <1>2
  <2> QED
    BY <1>1, <2>1
<1> QED
  BY <1>2

\* The entries in use are finitely many, and no more than the pool has.
LEMMA BusyFinite ==
  ASSUME num \in Nat, busy \subseteq 1..num
  PROVE  /\ IsFiniteSet(busy)
         /\ Cardinality(busy) \in Nat
         /\ Cardinality(busy) <= num
<1>1. IsFiniteSet(1..num) /\ Cardinality(1..num) = num
  BY FS_Interval
<1> QED
  BY <1>1, FS_Subset, FS_CardinalityType

\* A set of threads is finite, so its cardinality is a number.
LEMMA ThreadsFinite ==
  ASSUME NEW S \in SUBSET Threads
  PROVE  IsFiniteSet(S) /\ Cardinality(S) \in Nat
BY UseAssumption, FS_Subset, FS_CardinalityType

\* Taking an element out of a union of pairwise disjoint sets, or adding a
\* new one to it, keeps the sets disjoint and their union in step.
LEMMA TakeFromHolders ==
  ASSUME NEW t \in Threads, NEW e \in held[t],
         held \in [Threads -> SUBSET Entry], StatusMatchesHolders,
         held' = [held EXCEPT ![t] = @ \ {e}], busy' = busy \ {e}
  PROVE  StatusMatchesHolders'
<1>1. \A u \in Threads : held'[u] = IF u = t THEN held[u] \ {e} ELSE held[u]
  OBVIOUS
<1>2. \A u \in Threads : u # t => e \notin held[u]
  BY DEF StatusMatchesHolders
<1>3. \A u, v \in Threads : u # v => held'[u] \cap held'[v] = {}
  BY <1>1 DEF StatusMatchesHolders
<1>4. busy' = UNION {held'[u] : u \in Threads}
  BY <1>1, <1>2 DEF StatusMatchesHolders
<1> QED
  BY <1>3, <1>4 DEF StatusMatchesHolders

\* The same for an entry that nobody holds and a get returns to t.
LEMMA AddToHolders ==
  ASSUME NEW t \in Threads, NEW e, e \notin busy,
         held \in [Threads -> SUBSET Entry], StatusMatchesHolders,
         held' = [held EXCEPT ![t] = @ \cup {e}], busy' = busy \cup {e}
  PROVE  StatusMatchesHolders'
<1>1. \A u \in Threads : held'[u] = IF u = t THEN held[u] \cup {e} ELSE held[u]
  OBVIOUS
<1>2. \A u \in Threads : e \notin held[u]
  BY DEF StatusMatchesHolders
<1>3. \A u, v \in Threads : u # v => held'[u] \cap held'[v] = {}
  BY <1>1, <1>2 DEF StatusMatchesHolders
<1>4. busy' = UNION {held'[u] : u \in Threads}
  BY <1>1, <1>2 DEF StatusMatchesHolders
<1> QED
  BY <1>3, <1>4 DEF StatusMatchesHolders

-----------------------------------------------------------------------------
(* The steps of the pool.                                                  *)

\* A get that is let past the wait loop has an entry to return: the list it
\* scans, grown or not, is longer than the number of entries in use.
LEMMA GetFindsAnEntry ==
  ASSUME PoolInv, ~MustWait
  PROVE  /\ Populated \in num..MaxNum
         /\ \E k \in 1..MaxNum : Populated = k * Amp
         /\ inuse < Populated
         /\ Free # {}
<1> USE DEF PoolInv, PTypeOK
<1>1. Amp \in Nat /\ Amp >= 1 /\ MaxNum \in Nat
  BY PoolAssumption
<1>2. num \in Nat /\ inuse \in Nat /\ inuse <= num
  BY <1>1, BusyFinite
<1>3. CASE Exhausted /\ num # MaxNum
  <2>1. Populated = num + Amp
    BY <1>3 DEF Populated
  <2>2. /\ num + Amp \in 0..MaxNum
        /\ \E k \in 1..MaxNum : num + Amp = k * Amp
    BY <1>3, GrowthFits
  <2>3. Populated \in num..MaxNum /\ inuse < Populated
    BY <1>1, <1>2, <2>1, <2>2
  <2>4. busy \in SUBSET (1..Populated)
    BY <1>1, <1>2, <2>3
  <2> QED
    BY <1>1, <2>1, <2>2, <2>3, <2>4, SomeEntryFree DEF Free
<1>4. CASE ~(Exhausted /\ num # MaxNum)
  <2>1. Populated = num /\ inuse < num
    BY <1>1, <1>2, <1>4 DEF Populated, MustWait, Exhausted
  <2>2. Populated \in num..MaxNum /\ busy \in SUBSET (1..Populated)
    BY <1>1, <1>2, <2>1
  <2> QED
    BY <1>1, <2>1, <2>2, SomeEntryFree DEF Free
<1> QED
  BY <1>3, <1>4

\* The invariant holds of the pool that buffer_pool_init sets up.
LEMMA InitInv == PInit => PoolInv
<1> SUFFICES ASSUME PInit PROVE PoolInv
  OBVIOUS
<1> USE DEF PInit, Init, Cond!Init
<1>1. Amp \in Nat /\ Amp >= 1 /\ MaxNum \in Nat
  BY PoolAssumption
<1>2. Amp = 1 * Amp /\ 1 \in 1..MaxNum /\ Amp <= MaxNum
  <2>1. PICK k \in 1..MaxNum : MaxNum = k * Amp
    BY PoolAssumption
  <2>2. k \in Nat /\ 1 <= k
    BY <1>1
  <2>3. 1 * Amp <= k * Amp
    BY <1>1, <2>2, MultMonotonic
  <2> QED
    BY <1>1, <2>1, <2>2, <2>3
<1>3. PTypeOK
  BY <1>1, <1>2 DEF PTypeOK
<1>4. StatusMatchesHolders
  BY DEF StatusMatchesHolders
<1>5. Cardinality({}) = 0
  BY FS_EmptySet
<1> QED
  BY <1>2, <1>3, <1>4, <1>5 DEF PoolInv, NoLostWakeup, NeverNull

\* A get that is let past the wait loop keeps the invariant, the growth of the
\* list included.
LEMMA GetInv ==
  ASSUME PoolInv, NEW t \in Threads, Get(t)
  PROVE  PoolInv'
<1> USE DEF PoolInv
<1>1. PICK e \in (1..Populated) \cup {Null} :
         /\ Grant(t, e)
         /\ held' = [held EXCEPT ![t] = @ \cup ({e} \ {Null})]
         /\ failed' = IF e = Null THEN failed \cup {t} ELSE failed
  BY DEF Get
<1>2. /\ num \in Nat /\ MaxNum \in Nat /\ inuse \in Nat
      /\ IsFiniteSet(busy)
  BY PoolAssumption, BusyFinite DEF PTypeOK
<1>3. /\ Populated \in num..MaxNum
      /\ \E k \in 1..MaxNum : Populated = k * Amp
      /\ inuse < Populated
      /\ Free # {}
  BY <1>1, GetFindsAnEntry DEF Grant
<1>4. e \in (1..Populated) \ busy /\ e # Null
  BY <1>1, <1>2, <1>3 DEF Grant, Found, Free, Null
<1>5. /\ num' = Populated
      /\ inuse' = inuse + 1
      /\ busy' = busy \cup {e}
      /\ held' = [held EXCEPT ![t] = @ \cup {e}]
      /\ failed' = failed
      /\ woken' = woken \ {t} /\ waiting' = waiting
  BY <1>1, <1>4 DEF Grant, Cond!Proceed
<1>6. PTypeOK'
  BY <1>2, <1>3, <1>4, <1>5 DEF PTypeOK, Entry
<1>7. inuse' = Cardinality(busy')
  BY <1>2, <1>4, <1>5, FS_AddElement
<1>8. StatusMatchesHolders'
  BY <1>4, <1>5, AddToHolders DEF PTypeOK
<1>9. waiting' \cap woken' = {} /\ (waiting' # {} => num' = MaxNum)
  BY <1>2, <1>3, <1>5
<1>10. NoLostWakeup'
  <2>1. SUFFICES ASSUME waiting' # {}
                 PROVE  num' - inuse' <= Cardinality(woken')
    BY DEF NoLostWakeup
  <2>2. num' = num
    BY <1>2, <1>3, <1>5, <2>1
  <2>3. num - inuse <= Cardinality(woken)
    BY <1>5, <2>1 DEF NoLostWakeup
  <2>4. Cardinality(woken) \in Nat /\ IsFiniteSet(woken)
    BY ThreadsFinite DEF PTypeOK
  <2>5. Cardinality(woken \ {t}) \in {Cardinality(woken), Cardinality(woken) - 1}
    BY <2>4, FS_RemoveElement
  <2> QED
    BY <1>2, <1>5, <2>2, <2>3, <2>4, <2>5
<1>11. NeverNull'
  BY <1>5 DEF NeverNull
<1> QED
  BY <1>3, <1>5, <1>6, <1>7, <1>8, <1>9, <1>10, <1>11

\* The wait of a get keeps the invariant: the pool has its full size by then
\* and no entry is free.
LEMMA GetBlocksInv ==
  ASSUME PoolInv, NEW t \in Threads, GetBlocks(t)
  PROVE  PoolInv'
<1> USE DEF PoolInv
<1>1. /\ MustWait
      /\ waiting' = waiting \cup {t}
      /\ woken' = woken \ {t}
      /\ UNCHANGED <<num, inuse, busy, held, failed>>
  BY DEF GetBlocks, Block, Cond!Wait
<1>2. num' - inuse' = 0 /\ num' = MaxNum
  BY <1>1, PoolAssumption DEF MustWait, PTypeOK
<1>3. PTypeOK'
  BY <1>1 DEF PTypeOK
<1>4. Cardinality(woken') \in Nat
  BY <1>3, ThreadsFinite DEF PTypeOK
<1>5. StatusMatchesHolders' /\ NeverNull'
  BY <1>1 DEF StatusMatchesHolders, NeverNull
<1>6. NoLostWakeup'
  BY <1>2, <1>4 DEF NoLostWakeup
<1> QED
  BY <1>1, <1>2, <1>3, <1>5, <1>6

\* Waking one sleeper keeps the bookkeeping of sleepers right, and leaves one
\* more woken thread for one more free entry.
LEMMA AwakenOne ==
  ASSUME waiting \subseteq Threads, woken \subseteq Threads,
         waiting \cap woken = {}, NEW s \in waiting, Cond!Awaken(s)
  PROVE  /\ waiting' \subseteq Threads /\ woken' \subseteq Threads
         /\ waiting' \cap woken' = {}
         /\ waiting' \subseteq waiting
         /\ Cardinality(woken') = Cardinality(woken) + 1
<1>1. waiting' = waiting \ {s} /\ woken' = woken \cup {s}
  BY DEF Cond!Awaken
<1>2. IsFiniteSet(woken) /\ s \notin woken
  BY ThreadsFinite
<1> QED
  BY <1>1, <1>2, FS_AddElement

\* A join keeps the invariant: the entry it frees is announced to a sleeper.
LEMMA ReturnInv ==
  ASSUME PoolInv, NEW t \in Threads, Return(t)
  PROVE  PoolInv'
<1> USE DEF PoolInv
<1>1. PICK e \in held[t] : Join(e) /\ held' = [held EXCEPT ![t] = @ \ {e}]
  BY DEF Return
<1>2. /\ e \in busy
      /\ busy' = busy \ {e} /\ inuse' = inuse - 1
      /\ num' = num /\ failed' = failed
      /\ Cond!Signal
  BY <1>1 DEF Join, Return
<1>3. /\ num \in Nat /\ inuse \in Nat /\ IsFiniteSet(busy) /\ MaxNum \in Nat
  BY PoolAssumption, BusyFinite DEF PTypeOK
<1>4. inuse' = Cardinality(busy') /\ inuse' \in Nat
  <2>1. Cardinality(busy \ {e}) = Cardinality(busy) - 1
    BY <1>2, <1>3, FS_RemoveElement
  <2>2. Cardinality(busy \ {e}) \in Nat
    BY <1>3, FS_RemoveElement, FS_CardinalityType
  <2> QED
    BY <1>2, <2>1, <2>2
<1>5. StatusMatchesHolders'
  BY <1>1, <1>2, TakeFromHolders DEF PTypeOK
<1>6. held' \in [Threads -> SUBSET Entry]
  BY <1>1 DEF PTypeOK
<1>7. NeverNull'
  BY <1>2 DEF NeverNull
<1>8. CASE waiting = {}
  <2>1. waiting' = {} /\ woken' = woken
    BY <1>2, <1>8 DEF Cond!Signal
  <2>2. PTypeOK'
    BY <1>2, <1>3, <1>4, <1>6, <2>1 DEF PTypeOK
  <2> QED
    BY <1>2, <1>4, <1>5, <1>7, <2>1, <2>2 DEF NoLostWakeup
<1>9. CASE waiting # {}
  <2>1. PICK s \in waiting : Cond!Awaken(s)
    BY <1>2, <1>9 DEF Cond!Signal
  <2>2. /\ waiting' \subseteq Threads /\ woken' \subseteq Threads
        /\ waiting' \cap woken' = {}
        /\ Cardinality(woken') = Cardinality(woken) + 1
    BY <2>1, AwakenOne DEF PTypeOK
  <2>3. PTypeOK'
    BY <1>2, <1>3, <1>4, <1>6, <2>2 DEF PTypeOK
  <2>4. Cardinality(woken) \in Nat
    BY ThreadsFinite DEF PTypeOK
  <2>5. NoLostWakeup'
    BY <1>2, <1>3, <1>9, <2>2, <2>4 DEF NoLostWakeup
  <2> QED
    BY <1>2, <1>4, <1>5, <1>7, <1>9, <2>2, <2>3, <2>5
<1> QED
  BY <1>8, <1>9

\* An entry that passes from one thread to another keeps the invariant.
LEMMA HandoverInv ==
  ASSUME PoolInv, NEW t \in Threads, NEW u \in Threads, Handover(t, u)
  PROVE  PoolInv'
<1> USE DEF PoolInv
<1>1. PICK e \in held[t] :
         held' = [held EXCEPT ![t] = @ \ {e}, ![u] = @ \cup {e}]
  BY DEF Handover
<1>2. t # u /\ UNCHANGED <<num, inuse, busy, waiting, woken, failed>>
  BY DEF Handover, poolVars
<1>3. \A v \in Threads : held'[v] = CASE v = t -> held[t] \ {e}
                                      [] v = u -> held[u] \cup {e}
                                      [] OTHER -> held[v]
  BY <1>1, <1>2 DEF PTypeOK
<1>4. PTypeOK'
  BY <1>1, <1>2 DEF PTypeOK
<1>5. StatusMatchesHolders'
  <2>1. \A v \in Threads : v # t => e \notin held[v]
    BY DEF StatusMatchesHolders
  <2>2. \A v, w \in Threads : v # w => held'[v] \cap held'[w] = {}
    BY <1>2, <1>3, <2>1 DEF StatusMatchesHolders
  <2>3. UNION {held'[v] : v \in Threads} = UNION {held[v] : v \in Threads}
    <3>1. \A x : (\E v \in Threads : x \in held'[v]) <=>
                 (\E v \in Threads : x \in held[v])
      BY <1>2, <1>3
    <3> QED
      BY <3>1
  <2> QED
    BY <1>2, <2>2, <2>3 DEF StatusMatchesHolders
<1>6. NoLostWakeup' /\ NeverNull'
  BY <1>2 DEF NoLostWakeup, NeverNull
<1> QED
  BY <1>2, <1>4, <1>5, <1>6

\* A wait that ends by itself leaves one more woken thread.
LEMMA SpuriousInv ==
  ASSUME PoolInv, Spurious
  PROVE  PoolInv'
<1> USE DEF PoolInv
<1>1. PICK s \in waiting : Cond!Awaken(s)
  BY DEF Spurious, SpuriousWakeup, Cond!SpuriousWakeup
<1>2. UNCHANGED <<num, inuse, busy, held, failed>>
  BY DEF Spurious, SpuriousWakeup
<1>3. /\ waiting' \subseteq Threads /\ woken' \subseteq Threads
      /\ waiting' \cap woken' = {} /\ waiting' \subseteq waiting
      /\ Cardinality(woken') = Cardinality(woken) + 1
  BY <1>1, AwakenOne DEF PTypeOK
<1>4. PTypeOK' /\ StatusMatchesHolders' /\ NeverNull'
  BY <1>2, <1>3 DEF PTypeOK, StatusMatchesHolders, NeverNull
<1>5. NoLostWakeup'
  <2>1. Cardinality(woken) \in Nat /\ num \in Nat /\ inuse \in Nat
    BY ThreadsFinite, PoolAssumption DEF PTypeOK
  <2> QED
    BY <1>1, <1>2, <1>3, <2>1 DEF NoLostWakeup
<1> QED
  BY <1>2, <1>3, <1>4, <1>5

-----------------------------------------------------------------------------
(* The theorems.                                                           *)

\* Every step of the pool's users keeps the invariant.
LEMMA NextInv == PoolInv /\ [PNext]_vars => PoolInv'
<1> SUFFICES ASSUME PoolInv, [PNext]_vars PROVE PoolInv'
  OBVIOUS
<1>1. ASSUME NEW t \in Threads, Get(t) PROVE PoolInv'
  BY <1>1, GetInv
<1>2. ASSUME NEW t \in Threads, GetBlocks(t) PROVE PoolInv'
  BY <1>2, GetBlocksInv
<1>3. ASSUME NEW t \in Threads, Return(t) PROVE PoolInv'
  BY <1>3, ReturnInv
<1>4. ASSUME NEW t \in Threads, NEW u \in Threads, Handover(t, u) PROVE PoolInv'
  BY <1>4, HandoverInv
<1>5. CASE Spurious
  BY <1>5, SpuriousInv
<1>6. CASE UNCHANGED vars
  BY <1>6 DEF vars, poolVars, PoolInv, PTypeOK, StatusMatchesHolders,
              NoLostWakeup, NeverNull
<1> QED
  BY <1>1, <1>2, <1>3, <1>4, <1>5, <1>6 DEF PNext

\* The counters, the statuses and the sets of sleeping and woken threads stay
\* consistent through every interleaving of gets, joins and hand-overs.
THEOREM PoolInvariant == PSpec => []PoolInv
<1>1. PInit => PoolInv
  BY InitInv
<1>2. PoolInv /\ [PNext]_vars => PoolInv'
  BY NextInv
<1> QED
  BY <1>1, <1>2, PTL DEF PSpec

\* The variables keep their types; in particular the pool never outgrows its
\* maximum.
THEOREM PoolTypes == PSpec => []PTypeOK
<1>1. PoolInv => PTypeOK
  BY DEF PoolInv
<1> QED
  BY <1>1, PoolInvariant, PTL

\* A get never returns NULL: the path of buffer_pool.c:71 is dead.
THEOREM GetNeverReturnsNull == PSpec => []NeverNull
<1>1. PoolInv => NeverNull
  BY DEF PoolInv
<1> QED
  BY <1>1, PoolInvariant, PTL

\* As long as threads sleep in a get, every free entry has been announced to
\* a thread that is on its way to take it.
THEOREM PoolLosesNoWakeup == PSpec => []NoLostWakeup
<1>1. PoolInv => NoLostWakeup
  BY DEF PoolInv
<1> QED
  BY <1>1, PoolInvariant, PTL

\* The list's statuses are exactly the entries the threads hold, each held by
\* one thread: the assert in the join functions never fails.
THEOREM PoolStatusesAreRight == PSpec => []StatusMatchesHolders
<1>1. PoolInv => StatusMatchesHolders
  BY DEF PoolInv
<1> QED
  BY <1>1, PoolInvariant, PTL

-----------------------------------------------------------------------------
(* The pool implements the allocator.                                      *)

\* A step of the pool's users is a step of the allocator or none of its
\* business.
LEMMA StepRefines ==
  ASSUME PoolInv, [PNext]_vars
  PROVE  [Alloc!Next]_held
<1> USE DEF PoolInv
<1>1. ASSUME NEW t \in Threads, Get(t) PROVE [Alloc!Next]_held
  <2>1. PICK e \in (1..Populated) \cup {Null} :
           /\ Grant(t, e)
           /\ held' = [held EXCEPT ![t] = @ \cup ({e} \ {Null})]
    BY <1>1 DEF Get
  <2>2. CASE e = Null
    BY <2>1, <2>2 DEF PTypeOK
  <2>3. CASE e # Null
    <3>1. e \in Free
      BY <2>1, <2>3 DEF Grant, Found
    <3>2. \A u \in Threads : e \notin held[u]
      BY <3>1 DEF Free, StatusMatchesHolders
    <3>3. held' = [held EXCEPT ![t] = @ \cup {e}]
      BY <2>1, <2>3
    <3>4. Populated \in num..MaxNum
      BY <2>1, GetFindsAnEntry DEF Grant
    <3>5. e \in Entry
      BY <2>1, <2>3, <3>4, PoolAssumption DEF PTypeOK, Entry
    <3> QED
      BY <3>2, <3>3, <3>5 DEF Alloc!Next, Alloc!Acquire
  <2> QED
    BY <2>2, <2>3
<1>2. ASSUME NEW t \in Threads, Return(t) PROVE [Alloc!Next]_held
  <2>1. PICK e \in held[t] : held' = [held EXCEPT ![t] = @ \ {e}]
    BY <1>2 DEF Return
  <2>2. e \in Entry
    BY DEF PTypeOK
  <2> QED
    BY <2>1, <2>2 DEF Alloc!Next, Alloc!Release
<1>3. ASSUME NEW t \in Threads, NEW u \in Threads, Handover(t, u)
      PROVE  [Alloc!Next]_held
  <2>1. PICK e \in held[t] :
           held' = [held EXCEPT ![t] = @ \ {e}, ![u] = @ \cup {e}]
    BY <1>3 DEF Handover
  <2>2. e \in Entry /\ t # u
    BY <1>3 DEF PTypeOK, Handover
  <2> QED
    BY <2>1, <2>2 DEF Alloc!Next, Alloc!Transfer
<1>4. ASSUME NEW t \in Threads, GetBlocks(t) PROVE held' = held
  BY <1>4 DEF GetBlocks
<1>5. CASE Spurious
  BY <1>5 DEF Spurious
<1>6. CASE UNCHANGED vars
  BY <1>6 DEF vars
<1> QED
  BY <1>1, <1>2, <1>3, <1>4, <1>5, <1>6 DEF PNext

\* A pool hands an entry only to a thread that asked for one, and only an
\* entry nobody has: it implements the allocator.
THEOREM PoolImplementsAllocator == PSpec => ImplementsAllocator
<1>1. PInit => Alloc!Init
  BY DEF PInit, Alloc!Init
<1>2. PoolInv /\ [PNext]_vars => [Alloc!Next]_held
  BY StepRefines
<1> QED
  BY <1>1, <1>2, PoolInvariant, PTL DEF PSpec, ImplementsAllocator, Alloc!Spec

=============================================================================
