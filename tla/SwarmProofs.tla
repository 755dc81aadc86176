----------------------------- MODULE SwarmProofs ------------------------------
(***************************************************************************)
(* Proofs about the peers of a torrent: for any workers, peers and number  *)
(* of announces, up to the moment memory is corrupted.                     *)
(***************************************************************************)
EXTENDS Swarm, FiniteSetTheorems, SequenceTheorems, TLAPS

Places == {"idle", "search", "make", "add", "update", "stop", "remove", "done",
           "free"}

Uses == {"free", "made", "listed", "removed", "lost"}

SwarmTypes ==
  /\ peers \in Seq(Entry)
  /\ mem \in [Entry -> Uses]
  /\ who \in [Entry -> [peer : Peers \cup {"none"}, left : {0, 1}]]
  /\ next \in [Entry -> Entry \cup {0}]
  /\ seeders \in Int /\ leechers \in Int /\ complete \in Int /\ peerCount \in Int
  /\ working \in Int
  /\ pc \in [Workers -> Places]
  /\ job \in [Workers -> Request \cup {NoRequest}]
  /\ pp \in [Workers -> Entry \cup {0}]

\* An entry is in the list once, and then its memory is used for nothing else.
ListedOnce == /\ \A i, j \in DOMAIN peers : peers[i] = peers[j] => i = j
              /\ \A e \in Entry : e \in Listed <=> mem[e] = "listed"

\* What a worker's place says of its announce and of what the search has found.
JobInv ==
  \A w \in Workers :
    /\ pc[w] # "idle" => job[w] \in Request
    /\ pc[w] = "update" => job[w].event # "stop" /\ pp[w] # 0
    /\ pc[w] \in {"stop", "remove", "free"} => job[w].event = "stop" /\ pp[w] # 0
    /\ pc[w] \in {"make", "add"} => job[w].event = "start"

\* A worker has removed an entry and not freed it yet.
Holds(w) == \/ pc[w] = "free"
            \/ pc[w] = "done" /\ job[w].event = "stop" /\ pp[w] # 0

\* What has been removed is freed by the one that removed it.
Owned == /\ \A w \in Workers : Holds(w) => mem[pp[w]] = "removed"
         /\ \A v, w \in Workers : Holds(v) /\ Holds(w) /\ pp[v] = pp[w] => v = w

\* An entry that has been made, and is not in the list yet, is with the one
\* worker that made it, and was filled in for the peer of its announce.
MadeInv == /\ \A w \in Workers : pc[w] = "add" =>
                /\ pp[w] \in Entry /\ mem[pp[w]] = "made"
                /\ who[pp[w]].peer = job[w].peer
           /\ \A v, w \in Workers :
                pc[v] = "add" /\ pc[w] = "add" /\ pp[v] = pp[w] => v = w
           /\ \A e \in Entry : mem[e] = "made"
                => \E w \in Workers : pc[w] = "add" /\ pp[w] = e

Leechers == {e \in Listed : who[e].left # 0}
Seeders == {e \in Listed : who[e].left = 0}

SwarmInv == /\ SwarmTypes /\ ListedOnce /\ JobInv /\ Owned /\ MadeInv
            /\ NoDuplicates /\ CountsRight /\ WorkingBalanced

-----------------------------------------------------------------------------
(* The list.                                                               *)

\* The entries of the list are finitely many.
LEMMA ListedFinite ==
  ASSUME SwarmTypes
  PROVE  /\ Listed \subseteq Entry
         /\ IsFiniteSet(Listed) /\ IsFiniteSet(Leechers) /\ IsFiniteSet(Seeders)
<1>1. Listed \subseteq Entry
  <2>1. peers \in Seq(Entry)
    BY DEF SwarmTypes
  <2> QED
    BY <2>1, LenProperties, ElementOfSeq DEF Listed
<1>2. IsFiniteSet(Entry)
  BY FS_Interval, SwarmAssumption DEF Entry
<1>3. IsFiniteSet(Listed)
  BY <1>1, <1>2, FS_Subset
<1>4. Leechers \subseteq Listed /\ Seeders \subseteq Listed
  BY DEF Leechers, Seeders
<1> QED
  BY <1>1, <1>3, <1>4, FS_Subset

\* LIST_INSERT_HEAD of an entry that is not in the list.
LEMMA InsertedAtHead ==
  ASSUME SwarmTypes, ListedOnce, NEW e \in Entry, e \notin Listed,
         peers' = <<e>> \o peers
  PROVE  /\ peers' \in Seq(Entry)
         /\ Len(peers') = Len(peers) + 1
         /\ Listed' = Listed \cup {e}
         /\ \A i, j \in DOMAIN peers' : peers'[i] = peers'[j] => i = j
<1> DEFINE n == Len(peers)
<1>1. peers \in Seq(Entry) /\ n \in Nat /\ DOMAIN peers = 1..n
  BY LenProperties DEF SwarmTypes
<1>2. <<e>> \in Seq(Entry) /\ Len(<<e>>) = 1 /\ <<e>>[1] = e
  OBVIOUS
<1>3. /\ peers' \in Seq(Entry) /\ Len(peers') = n + 1
      /\ \A i \in 1..(n + 1) :
           peers'[i] = IF i <= 1 THEN <<e>>[i] ELSE peers[i - 1]
  BY <1>1, <1>2, ConcatProperties
<1>4. DOMAIN peers' = 1..(n + 1)
  BY <1>3, LenProperties
<1>5. peers'[1] = e /\ \A i \in 2..(n + 1) : peers'[i] = peers[i - 1]
  BY <1>1, <1>2, <1>3
<1>6. \A i \in 1..n : peers'[i + 1] = peers[i]
  BY <1>1, <1>5
<1>7. Listed' = {peers'[i] : i \in 1..(n + 1)}
  BY <1>4 DEF Listed
<1>8. Listed = {peers[i] : i \in 1..n}
  BY <1>1 DEF Listed
<1>9. Listed' = Listed \cup {e}
  <2>1. ASSUME NEW x \in Listed' PROVE x \in Listed \cup {e}
    <3>1. PICK i \in 1..(n + 1) : x = peers'[i]
      BY <1>7, <2>1
    <3>2. CASE i = 1
      BY <1>5, <3>1, <3>2
    <3>3. CASE i # 1
      <4>1. i \in 2..(n + 1) /\ i - 1 \in 1..n
        BY <1>1, <3>3
      <4> QED
        BY <1>5, <1>8, <3>1, <4>1
    <3> QED
      BY <3>2, <3>3
  <2>2. e \in Listed'
    <3>1. 1 \in 1..(n + 1)
      BY <1>1
    <3> QED
      BY <1>5, <1>7, <3>1
  <2>3. ASSUME NEW x \in Listed PROVE x \in Listed'
    <3>1. PICK i \in 1..n : x = peers[i]
      BY <1>8, <2>3
    <3>2. i + 1 \in 1..(n + 1) /\ peers'[i + 1] = x
      BY <1>1, <1>6, <3>1
    <3> QED
      BY <1>7, <3>2
  <2> QED
    BY <2>1, <2>2, <2>3
<1>10. ASSUME NEW i \in 1..(n + 1), NEW j \in 1..(n + 1),
              peers'[i] = peers'[j]
       PROVE  i = j
  <2>1. \A k \in 2..(n + 1) : k - 1 \in 1..n /\ peers'[k] \in Listed
    <3> SUFFICES ASSUME NEW k \in 2..(n + 1)
                 PROVE  k - 1 \in 1..n /\ peers'[k] \in Listed
      OBVIOUS
    <3>1. k - 1 \in 1..n
      BY <1>1
    <3>2. peers'[k] = peers[k - 1]
      BY <1>5
    <3> QED
      BY <1>8, <3>1, <3>2
  <2>2. \A k \in 1..(n + 1) : k = 1 \/ k \in 2..(n + 1)
    BY <1>1
  <2>3. CASE i = 1 /\ j = 1
    BY <2>3
  <2>4. CASE i = 1 /\ j \in 2..(n + 1)
    BY <1>5, <1>10, <2>1, <2>4
  <2>5. CASE j = 1 /\ i \in 2..(n + 1)
    BY <1>5, <1>10, <2>1, <2>5
  <2>6. CASE i \in 2..(n + 1) /\ j \in 2..(n + 1)
    <3>1. peers[i - 1] = peers[j - 1]
      BY <1>5, <1>10, <2>6
    <3>2. i - 1 = j - 1
      BY <1>1, <2>1, <2>6, <3>1 DEF ListedOnce
    <3> QED
      BY <3>2
  <2> QED
    BY <2>2, <2>3, <2>4, <2>5, <2>6
<1> QED
  BY <1>3, <1>4, <1>9, <1>10

\* LIST_REMOVE of an entry that is in the list.
LEMMA RemovedOnce ==
  ASSUME SwarmTypes, ListedOnce, NEW e \in Listed, peers' = Without(e)
  PROVE  /\ peers' \in Seq(Entry)
         /\ Len(peers') = Len(peers) - 1
         /\ Listed' = Listed \ {e}
         /\ \A i, j \in DOMAIN peers' : peers'[i] = peers'[j] => i = j
<1> DEFINE n == Len(peers)
           p == Place(e)
<1>1. peers \in Seq(Entry) /\ n \in Nat /\ DOMAIN peers = 1..n
  BY LenProperties DEF SwarmTypes
<1>2. p \in 1..n /\ peers[p] = e
  <2>1. \E i \in DOMAIN peers : peers[i] = e
    BY DEF Listed
  <2> QED
    BY <1>1, <2>1 DEF Place
<1>3. \A i \in 1..n : peers[i] = e => i = p
  BY <1>1, <1>2 DEF ListedOnce
<1> HIDE DEF p
<1>4. n - 1 \in Nat
  BY <1>1, <1>2
<1>5. peers' = [i \in 1..(n - 1) |-> IF i < p THEN peers[i] ELSE peers[i + 1]]
  BY DEF Without, p
<1>6. \A i \in 1..(n - 1) : (IF i < p THEN peers[i] ELSE peers[i + 1]) \in Entry
  <2>1. \A i \in 1..n : peers[i] \in Entry
    BY <1>1, ElementOfSeq
  <2>2. \A i \in 1..(n - 1) : i \in 1..n /\ i + 1 \in 1..n
    BY <1>1, <1>4
  <2> QED
    BY <2>1, <2>2
<1>7. peers' \in [1..(n - 1) -> Entry]
  BY <1>5, <1>6
<1>8. peers' \in Seq(Entry) /\ DOMAIN peers' = 1..(n - 1)
  BY <1>4, <1>7, SeqDef
<1>9. Len(peers') = n - 1
  BY <1>4, <1>8, LenProperties
<1> HIDE DEF n
\* Where an entry that stays was before.
<1> DEFINE Old(i) == IF i < p THEN i ELSE i + 1
<1>10. \A i \in 1..(n - 1) : /\ Old(i) \in 1..n /\ Old(i) # p
                             /\ peers'[i] = peers[Old(i)]
  BY <1>1, <1>2, <1>5
<1>11. \A i, j \in 1..(n - 1) : Old(i) = Old(j) => i = j
  BY <1>1, <1>2
<1>12. \A j \in 1..n : j # p => \E i \in 1..(n - 1) : Old(i) = j
  <2> SUFFICES ASSUME NEW j \in 1..n, j # p
               PROVE  \E i \in 1..(n - 1) : Old(i) = j
    OBVIOUS
  <2>1. CASE j < p
    <3>1. j \in 1..(n - 1) /\ Old(j) = j
      BY <1>1, <1>2, <2>1
    <3> QED
      BY <3>1
  <2>2. CASE ~(j < p)
    <3>1. j - 1 \in 1..(n - 1) /\ Old(j - 1) = j
      BY <1>1, <1>2, <2>2
    <3> QED
      BY <3>1
  <2> QED
    BY <2>1, <2>2
<1> HIDE DEF Old
<1>13. Listed' = {peers'[i] : i \in 1..(n - 1)}
  BY <1>8 DEF Listed
<1>14. Listed = {peers[i] : i \in 1..n}
  BY <1>1 DEF Listed
<1>15. Listed' = Listed \ {e}
  <2>1. ASSUME NEW x \in Listed' PROVE x \in Listed \ {e}
    <3>1. PICK i \in 1..(n - 1) : x = peers'[i]
      BY <1>13, <2>1
    <3>2. Old(i) \in 1..n /\ Old(i) # p /\ x = peers[Old(i)]
      BY <1>10, <3>1
    <3> QED
      BY <1>3, <1>14, <3>2
  <2>2. ASSUME NEW x \in Listed \ {e} PROVE x \in Listed'
    <3>1. PICK j \in 1..n : x = peers[j]
      BY <1>14, <2>2
    <3>2. j # p
      BY <1>2, <2>2, <3>1
    <3>3. PICK i \in 1..(n - 1) : Old(i) = j
      BY <1>12, <3>1, <3>2
    <3>4. peers'[i] = x
      BY <1>10, <3>1, <3>3
    <3> QED
      BY <1>13, <3>4
  <2> QED
    BY <2>1, <2>2
<1>16. ASSUME NEW i \in 1..(n - 1), NEW j \in 1..(n - 1),
              peers'[i] = peers'[j]
       PROVE  i = j
  <2>1. Old(i) \in 1..n /\ Old(j) \in 1..n /\ peers[Old(i)] = peers[Old(j)]
    BY <1>10, <1>16
  <2>2. Old(i) = Old(j)
    BY <1>1, <2>1 DEF ListedOnce
  <2> QED
    BY <1>11, <2>2
<1> QED
  BY <1>8, <1>9, <1>15, <1>16 DEF n

-----------------------------------------------------------------------------
(* The steps that leave the list alone.                                    *)

\* Before the first announce.
LEMMA InitHolds == Init => SwarmInv
<1> SUFFICES ASSUME Init PROVE SwarmInv
  OBVIOUS
<1> USE DEF Init
<1>1. SwarmTypes
  <2>1. <<>> \in Seq(Entry)
    OBVIOUS
  <2>2. [peer |-> "none", left |-> 0] \in [peer : Peers \cup {"none"}, left : {0, 1}]
    OBVIOUS
  <2> QED
    BY <2>1, <2>2 DEF SwarmTypes, Places, Uses
<1>2. Listed = {}
  BY DEF Listed
<1>3. ListedOnce
  BY <1>2 DEF ListedOnce
<1>4. JobInv /\ Owned /\ MadeInv
  BY DEF JobInv, Owned, Holds, MadeInv
<1>5. Cardinality({}) = 0
  BY FS_EmptySet
<1>6. NoDuplicates
  BY <1>2, <1>5 DEF NoDuplicates
<1>7. CountsRight
  <2>1. /\ {e \in Listed : who[e].left # 0} = {}
        /\ {e \in Listed : who[e].left = 0} = {}
    BY <1>2
  <2> QED
    BY <1>2, <1>5, <2>1 DEF CountsRight
<1>8. WorkingBalanced
  <2>1. {w \in Workers : pc[w] \notin {"idle", "free"}} = {}
    OBVIOUS
  <2> QED
    BY <1>5, <2>1 DEF WorkingBalanced
<1> QED
  BY <1>1, <1>3, <1>4, <1>6, <1>7, <1>8 DEF SwarmInv

\* A worker that begins or ends an announce is one more or one fewer at work.
LEMMA Counted ==
  ASSUME SwarmInv, NEW w \in Workers, NEW l, pc' = [pc EXCEPT ![w] = l],
         \/ /\ pc[w] = "idle" /\ l \notin {"idle", "free"}
            /\ working' = working + 1
         \/ /\ pc[w] \notin {"idle", "free"} /\ l \in {"idle", "free"}
            /\ working' = working - 1
         \/ /\ pc[w] \notin {"idle", "free"} /\ l \notin {"idle", "free"}
            /\ working' = working
         \/ /\ pc[w] = "free" /\ l = "idle" /\ working' = working
  PROVE  WorkingBalanced'
<1> DEFINE Busy == {v \in Workers : pc[v] \notin {"idle", "free"}}
<1>0. pc \in [Workers -> Places]
  BY DEF SwarmInv, SwarmTypes
<1>1. IsFiniteSet(Busy)
  BY FS_Subset, SwarmAssumption
<1>2. working = Cardinality(Busy) /\ Cardinality(Busy) \in Nat
  BY <1>1, FS_CardinalityType DEF SwarmInv, WorkingBalanced
<1>3. CASE /\ pc[w] = "idle" /\ l \notin {"idle", "free"}
           /\ working' = working + 1
  <2>1. w \notin Busy /\ Busy' = Busy \cup {w}
    BY <1>0, <1>3
  <2> QED
    BY <1>1, <1>2, <1>3, <2>1, FS_AddElement DEF WorkingBalanced
<1>4. CASE /\ pc[w] \notin {"idle", "free"} /\ l \in {"idle", "free"}
           /\ working' = working - 1
  <2>1. w \in Busy /\ Busy' = Busy \ {w}
    BY <1>0, <1>4
  <2> QED
    BY <1>1, <1>2, <1>4, <2>1, FS_RemoveElement DEF WorkingBalanced
<1>5. CASE /\ pc[w] \notin {"idle", "free"} /\ l \notin {"idle", "free"}
           /\ working' = working
  <2>1. Busy' = Busy
    BY <1>0, <1>5
  <2> QED
    BY <1>2, <1>5, <2>1 DEF WorkingBalanced
<1>6. CASE pc[w] = "free" /\ l = "idle" /\ working' = working
  <2>1. Busy' = Busy
    BY <1>0, <1>6
  <2> QED
    BY <1>2, <1>6, <2>1 DEF WorkingBalanced
<1> QED
  BY <1>3, <1>4, <1>5, <1>6

\* A step of a worker that neither makes an entry nor uses the one it has made
\* leaves the entries that have been made to those who made them.
LEMMA MadeKept ==
  ASSUME SwarmInv, NEW w \in Workers, pc[w] # "add", pc'[w] # "add",
         \A v \in Workers : v # w => /\ pc'[v] = pc[v] /\ pp'[v] = pp[v]
                                     /\ job'[v] = job[v],
         who' = who,
         \A e \in Entry : mem'[e] = "made" <=> mem[e] = "made"
  PROVE  MadeInv'
<1>1. MadeInv
  BY DEF SwarmInv
<1>2. \A v \in Workers : pc'[v] = "add" <=> pc[v] = "add" /\ v # w
  OBVIOUS
<1>3. ASSUME NEW v \in Workers, pc'[v] = "add"
      PROVE  /\ pp'[v] \in Entry /\ mem'[pp'[v]] = "made"
             /\ who'[pp'[v]].peer = job'[v].peer
  <2>1. pc[v] = "add" /\ pp'[v] = pp[v] /\ job'[v] = job[v]
    BY <1>2, <1>3
  <2> QED
    BY <1>1, <2>1 DEF MadeInv
<1>4. \A u, v \in Workers :
        pc'[u] = "add" /\ pc'[v] = "add" /\ pp'[u] = pp'[v] => u = v
  BY <1>1, <1>2 DEF MadeInv
<1>5. ASSUME NEW e \in Entry, mem'[e] = "made"
      PROVE  \E v \in Workers : pc'[v] = "add" /\ pp'[v] = e
  <2>1. PICK v \in Workers : pc[v] = "add" /\ pp[v] = e
    BY <1>1, <1>5 DEF MadeInv
  <2> QED
    BY <1>2, <2>1
<1> QED
  BY <1>3, <1>4, <1>5 DEF MadeInv

\* A step that leaves the list and its counters alone keeps what is said of
\* them.
LEMMA ListKept ==
  ASSUME SwarmInv, UNCHANGED <<list, counters>>
  PROVE  ListedOnce' /\ NoDuplicates' /\ CountsRight'
<1>1. UNCHANGED <<peers, mem, who, peerCount, leechers, seeders>>
  BY DEF list, counters
<1>2. Listed' = Listed
  BY <1>1 DEF Listed
<1> QED
  BY <1>1, <1>2 DEF SwarmInv, ListedOnce, NoDuplicates, CountsRight

\* The next entry of one is an entry, or the end.
LEMMA AfterType ==
  ASSUME SwarmTypes, NEW e \in Entry PROVE After(e) \in Entry \cup {0}
<1>1. peers \in Seq(Entry) /\ Len(peers) \in Nat /\ DOMAIN peers = 1..Len(peers)
  BY LenProperties DEF SwarmTypes
<1>2. CASE e \in Listed
  <2>1. Place(e) \in 1..Len(peers)
    <3>1. \E i \in DOMAIN peers : peers[i] = e
      BY <1>2 DEF Listed
    <3> QED
      BY <1>1, <3>1 DEF Place
  <2>2. Place(e) # Len(peers) => Place(e) + 1 \in 1..Len(peers)
    BY <1>1, <2>1
  <2>3. Place(e) # Len(peers) => peers[Place(e) + 1] \in Entry
    BY <1>1, <2>2, ElementOfSeq
  <2> QED
    BY <1>2, <2>3 DEF After
<1>3. CASE e \notin Listed
  BY <1>3 DEF After, SwarmTypes
<1> QED
  BY <1>2, <1>3

\* An announce arrives.
LEMMA AnnounceKeeps ==
  ASSUME SwarmInv, NEW w \in Workers, Announce(w) PROVE SwarmInv'
<1> USE DEF SwarmInv
<1>1. PICK r \in Request : job' = [job EXCEPT ![w] = r]
  BY DEF Announce
<1>2. /\ pc[w] = "idle" /\ pc' = [pc EXCEPT ![w] = "search"]
      /\ pp' = [pp EXCEPT ![w] = First] /\ working' = working + 1
      /\ UNCHANGED <<list, counters>>
  BY DEF Announce, At, Goto
<1>3. First \in Entry \cup {0}
  BY HeadTailProperties DEF First, SwarmTypes
<1>4. SwarmTypes'
  BY <1>1, <1>2, <1>3 DEF SwarmTypes, Places, Uses, list, counters
<1>5. JobInv'
  BY <1>1, <1>2 DEF JobInv, SwarmTypes
<1>6. Owned'
  BY <1>1, <1>2 DEF Owned, Holds, SwarmTypes, list
<1>7. WorkingBalanced'
  BY <1>2, Counted
<1>8. MadeInv'
  BY <1>1, <1>2, MadeKept DEF SwarmTypes, list
<1> QED
  BY <1>2, <1>4, <1>5, <1>6, <1>7, <1>8, ListKept

\* The search, and its end.
LEMMA SearchKeeps ==
  ASSUME SwarmInv, NEW w \in Workers,
         \/ ReadsFreed(w) \/ SearchesOn(w) \/ Strays(w)
         \/ Finds(w) \/ FindsNothing(w)
  PROVE  SwarmInv'
<1> USE DEF SwarmInv
<1>1. pc[w] = "search" /\ UNCHANGED <<list, counters, working, job>>
  BY DEF ReadsFreed, SearchesOn, Strays, Finds, FindsNothing, At
<1>2. job[w] \in Request
  BY <1>1 DEF JobInv
<1>3. CASE ReadsFreed(w) \/ SearchesOn(w) \/ Strays(w)
  <2>1. PICK e \in Entry \cup {0} : pc' = pc /\ pp' = [pp EXCEPT ![w] = e]
    <3>1. pp \in [Workers -> Entry \cup {0}]
      BY DEF SwarmTypes
    <3>2. CASE ReadsFreed(w)
      BY <3>1, <3>2 DEF ReadsFreed
    <3>3. CASE SearchesOn(w)
      <4>1. After(pp[w]) \in Entry \cup {0}
        BY <3>1, <3>3, AfterType DEF SearchesOn
      <4> QED
        BY <3>3, <4>1 DEF SearchesOn
    <3>4. CASE Strays(w)
      BY <3>1, <3>4 DEF Strays
    <3> QED
      BY <1>3, <3>2, <3>3, <3>4
  <2>2. SwarmTypes'
    BY <1>1, <2>1 DEF SwarmTypes, list, counters
  <2>3. JobInv' /\ Owned'
    BY <1>1, <2>1 DEF JobInv, Owned, Holds, SwarmTypes, list
  <2>4. WorkingBalanced'
    BY <1>1, <2>1 DEF WorkingBalanced
  <2>5. MadeInv'
    BY <1>1, <2>1, MadeKept DEF SwarmTypes, list
  <2> QED
    BY <1>1, <2>2, <2>3, <2>4, <2>5, ListKept
<1>4. CASE Finds(w) \/ FindsNothing(w)
  <2>1. PICK l \in {"stop", "update", "make", "done"} :
          /\ pc' = [pc EXCEPT ![w] = l]
          /\ l = "stop" => job[w].event = "stop" /\ pp[w] # 0
          /\ l = "update" => job[w].event # "stop" /\ pp[w] # 0
          /\ l = "make" => job[w].event = "start"
          /\ l = "done" => pp[w] = 0
    BY <1>4 DEF Finds, FindsNothing, Goto
  <2>2. pp' = pp
    BY <1>4 DEF Finds, FindsNothing
  <2>3. SwarmTypes'
    BY <1>1, <2>1, <2>2 DEF SwarmTypes, Places, list, counters
  <2>4. JobInv'
    BY <1>1, <1>2, <2>1, <2>2 DEF JobInv, SwarmTypes
  <2>5. Owned'
    BY <1>1, <2>1, <2>2 DEF Owned, Holds, SwarmTypes, list
  <2>6. WorkingBalanced'
    BY <1>1, <2>1, Counted
  <2>7. MadeInv'
    BY <1>1, <2>1, <2>2, MadeKept DEF SwarmTypes, list
  <2> QED
    BY <1>1, <2>3, <2>4, <2>5, <2>6, <2>7, ListKept
<1> QED
  BY <1>3, <1>4

\* The announce of a known peer may change the counters of those who have
\* everything, upwards.
LEMMA UpdateKeeps ==
  ASSUME SwarmInv, NEW w \in Workers, Update(w) \/ UpdateStopped(w)
  PROVE  SwarmInv'
<1> USE DEF SwarmInv
<1>1. /\ pc[w] \in {"update", "stop"}
      /\ UNCHANGED <<list, working, job, pp, leechers, peerCount>>
      /\ seeders' \in {seeders, seeders + 1}
      /\ complete' \in {complete, complete + 1}
  BY DEF Update, UpdateStopped, Reply, At, counters
<1>2. \/ pc' = pc
      \/ pc[w] = "update" /\ pc' = [pc EXCEPT ![w] = "done"]
      \/ pc[w] = "stop" /\ pc' = [pc EXCEPT ![w] = "remove"]
  BY DEF Update, UpdateStopped, Reply, Goto, At
<1>3. SwarmTypes'
  BY <1>1, <1>2 DEF SwarmTypes, Places, list
<1>8. MadeInv'
  BY <1>1, <1>2, MadeKept DEF SwarmTypes, list
<1>4. JobInv'
  BY <1>1, <1>2 DEF JobInv, SwarmTypes
<1>5. Owned'
  BY <1>1, <1>2 DEF Owned, Holds, JobInv, SwarmTypes, list
<1>6. WorkingBalanced'
  <2>1. CASE pc' = pc
    BY <1>1, <2>1 DEF WorkingBalanced
  <2>2. CASE pc' # pc
    BY <1>1, <1>2, <2>2, Counted
  <2> QED
    BY <2>1, <2>2
<1>7. ListedOnce' /\ NoDuplicates' /\ CountsRight'
  <2>1. UNCHANGED <<peers, mem, who>>
    BY <1>1 DEF list
  <2>2. Listed' = Listed
    BY <2>1 DEF Listed
  <2>3. {e \in Listed : who[e].left = 0} = Seeders
    BY DEF Seeders
  <2>4. Cardinality(Seeders) \in Nat /\ seeders \in Int
        /\ seeders >= Cardinality(Seeders)
    BY <2>3, ListedFinite, FS_CardinalityType DEF CountsRight, SwarmTypes
  <2>5. seeders' >= Cardinality(Seeders)
    BY <1>1, <2>4
  <2> QED
    BY <1>1, <2>1, <2>2, <2>3, <2>5 DEF ListedOnce, NoDuplicates, CountsRight
<1> QED
  BY <1>3, <1>4, <1>5, <1>6, <1>7, <1>8

-----------------------------------------------------------------------------
(* The steps that change the list or its memory.                           *)

\* An entry is allocated and filled in.
LEMMA MakeKeeps ==
  ASSUME SwarmInv, NEW w \in Workers, MakePeer(w) PROVE SwarmInv'
<1> USE DEF SwarmInv
<1> DEFINE filled == [peer |-> job[w].peer, left |-> job[w].left]
<1>1. PICK e \in Entry :
        /\ mem[e] = "free" /\ mem' = [mem EXCEPT ![e] = "made"]
        /\ who' = [who EXCEPT ![e] = filled]
        /\ pp' = [pp EXCEPT ![w] = e]
  BY DEF MakePeer, Allocatable
<1>2. /\ pc[w] = "make" /\ pc' = [pc EXCEPT ![w] = "add"]
      /\ UNCHANGED <<peers, next, counters, working, job>>
  BY DEF MakePeer, At, Goto
<1>3. job[w] \in Request /\ job[w].event = "start"
  BY <1>2 DEF JobInv
<1>4. filled \in [peer : Peers \cup {"none"}, left : {0, 1}]
      /\ filled.peer = job[w].peer
  BY <1>3 DEF Request
<1> HIDE DEF filled
<1>5. SwarmTypes'
  BY <1>1, <1>2, <1>4 DEF SwarmTypes, Places, Uses, counters
<1>6. /\ mem'[e] = "made" /\ who'[e] = filled
      /\ \A d \in Entry : d # e => mem'[d] = mem[d] /\ who'[d] = who[d]
  BY <1>1 DEF SwarmTypes
<1>7. Listed' = Listed /\ e \notin Listed /\ Listed \subseteq Entry
  BY <1>1, <1>2, ListedFinite DEF Listed, ListedOnce
<1>8. ListedOnce'
  BY <1>1, <1>2, <1>6, <1>7 DEF ListedOnce
<1>9. JobInv'
  BY <1>1, <1>2, <1>3 DEF JobInv, SwarmTypes
<1>10. Owned'
  <2>1. \A v \in Workers : Holds(v)' <=> Holds(v) /\ v # w
    BY <1>1, <1>2, <1>3 DEF Holds, SwarmTypes
  <2>2. \A v \in Workers : Holds(v) => pp[v] \in Entry /\ pp[v] # e
    BY <1>1 DEF Owned, Holds, JobInv, SwarmTypes
  <2>3. \A v \in Workers : v # w => pp'[v] = pp[v]
    BY <1>1 DEF SwarmTypes
  <2> QED
    BY <1>6, <2>1, <2>2, <2>3 DEF Owned
<1>11. MadeInv'
  <2>1. /\ pc'[w] = "add" /\ pp'[w] = e /\ pc[w] # "add"
        /\ \A v \in Workers : v # w => pc'[v] = pc[v] /\ pp'[v] = pp[v]
    BY <1>1, <1>2 DEF SwarmTypes
  <2>2. \A v \in Workers : pc[v] = "add" => pp[v] \in Entry /\ pp[v] # e
    BY <1>1 DEF MadeInv
  <2>3. ASSUME NEW v \in Workers, pc'[v] = "add"
        PROVE  /\ pp'[v] \in Entry /\ mem'[pp'[v]] = "made"
               /\ who'[pp'[v]].peer = job'[v].peer
    <3>1. CASE v = w
      BY <1>2, <1>4, <1>6, <2>1, <3>1
    <3>2. CASE v # w
      BY <1>2, <1>6, <2>1, <2>2, <2>3, <3>2 DEF MadeInv
    <3> QED
      BY <3>1, <3>2
  <2>4. \A u, v \in Workers :
          pc'[u] = "add" /\ pc'[v] = "add" /\ pp'[u] = pp'[v] => u = v
    BY <2>1, <2>2 DEF MadeInv
  <2>5. ASSUME NEW d \in Entry, mem'[d] = "made"
        PROVE  \E v \in Workers : pc'[v] = "add" /\ pp'[v] = d
    <3>1. CASE d = e
      BY <2>1, <3>1
    <3>2. CASE d # e
      <4>1. PICK v \in Workers : pc[v] = "add" /\ pp[v] = d
        BY <1>6, <2>5, <3>2 DEF MadeInv
      <4> QED
        BY <2>1, <4>1
    <3> QED
      BY <3>1, <3>2
  <2> QED
    BY <2>3, <2>4, <2>5 DEF MadeInv
<1>12. NoDuplicates'
  <2>1. \A d \in Listed : who'[d] = who[d]
    BY <1>6, <1>7
  <2> QED
    BY <1>2, <1>7, <2>1 DEF NoDuplicates
<1>13. CountsRight'
  <2>1. \A d \in Listed : who'[d] = who[d]
    BY <1>6, <1>7
  <2>2. /\ {d \in Listed' : who'[d].left # 0} = {d \in Listed : who[d].left # 0}
        /\ {d \in Listed' : who'[d].left = 0} = {d \in Listed : who[d].left = 0}
    BY <1>7, <2>1
  <2> QED
    BY <1>2, <1>7, <2>2 DEF CountsRight, counters
<1>14. WorkingBalanced'
  BY <1>2, Counted
<1> QED
  BY <1>5, <1>8, <1>9, <1>10, <1>11, <1>12, <1>13, <1>14

\* The entry a worker has made is inserted, or is lost.
LEMMA MadeUsed ==
  ASSUME SwarmInv, NEW w \in Workers, pc[w] = "add",
         pc' = [pc EXCEPT ![w] = "done"], NEW u \in {"listed", "lost"},
         mem' = [mem EXCEPT ![pp[w]] = u], UNCHANGED <<who, job, pp>>
  PROVE  MadeInv'
<1>1. MadeInv /\ pc \in [Workers -> Places] /\ mem \in [Entry -> Uses]
  BY DEF SwarmInv, SwarmTypes
<1>2. \A v \in Workers : pc'[v] = "add" <=> pc[v] = "add" /\ v # w
  BY <1>1
<1>3. pp[w] \in Entry
  BY <1>1 DEF MadeInv
<1>4. \A d \in Entry : mem'[d] = "made" <=> mem[d] = "made" /\ d # pp[w]
  BY <1>1, <1>3
<1>5. ASSUME NEW v \in Workers, pc'[v] = "add"
      PROVE  /\ pp'[v] \in Entry /\ mem'[pp'[v]] = "made"
             /\ who'[pp'[v]].peer = job'[v].peer
  <2>1. pc[v] = "add" /\ pp[v] # pp[w] /\ pp[v] \in Entry
    BY <1>1, <1>2, <1>5 DEF MadeInv
  <2> QED
    BY <1>1, <1>4, <2>1 DEF MadeInv
<1>6. \A x, v \in Workers :
        pc'[x] = "add" /\ pc'[v] = "add" /\ pp'[x] = pp'[v] => x = v
  BY <1>1, <1>2 DEF MadeInv
<1>7. ASSUME NEW d \in Entry, mem'[d] = "made"
      PROVE  \E v \in Workers : pc'[v] = "add" /\ pp'[v] = d
  <2>1. PICK v \in Workers : pc[v] = "add" /\ pp[v] = d
    BY <1>1, <1>4, <1>7 DEF MadeInv
  <2>2. v # w
    BY <1>4, <1>7, <2>1
  <2> QED
    BY <1>2, <2>1, <2>2
<1> QED
  BY <1>5, <1>6, <1>7 DEF MadeInv

\* A peer that another worker has added meanwhile is not added again.
LEMMA NotNeededKeeps ==
  ASSUME SwarmInv, NEW w \in Workers, pc[w] = "add",
         pc' = [pc EXCEPT ![w] = "done"],
         mem' = [mem EXCEPT ![pp[w]] = "lost"],
         UNCHANGED <<peers, who, next, counters, working, job, pp>>
  PROVE  SwarmInv'
<1> USE DEF SwarmInv
<1>0. pp[w] \in Entry /\ mem[pp[w]] = "made"
  BY DEF MadeInv
<1>1. SwarmTypes'
  BY <1>0 DEF SwarmTypes, Places, Uses, counters
<1>2. Listed' = Listed
  BY DEF Listed
<1>3. ListedOnce'
  BY <1>0, <1>2 DEF ListedOnce, SwarmTypes
<1>4. JobInv'
  BY DEF JobInv, SwarmTypes
<1>5. Owned'
  <2>1. job[w].event = "start"
    BY DEF JobInv
  <2>2. \A v \in Workers : Holds(v)' <=> Holds(v)
    BY <2>1 DEF Holds, SwarmTypes
  <2>3. \A v \in Workers : Holds(v) => pp[v] \in Entry /\ pp[v] # pp[w]
    BY <1>0 DEF Owned, Holds, JobInv, SwarmTypes
  <2> QED
    BY <1>0, <2>2, <2>3 DEF Owned, SwarmTypes
<1>6. NoDuplicates' /\ CountsRight'
  BY <1>2 DEF NoDuplicates, CountsRight, counters
<1>7. WorkingBalanced'
  BY Counted
<1>8. MadeInv'
  BY MadeUsed
<1> QED
  BY <1>1, <1>3, <1>4, <1>5, <1>6, <1>7, <1>8

\* A new peer is listed and counted.
LEMMA InsertKeeps ==
  ASSUME SwarmInv, NEW w \in Workers, pc[w] = "add",
         pc' = [pc EXCEPT ![w] = "done"],
         ~Known(job[w].peer), Insert(pp[w]),
         UNCHANGED <<who, next, working, job, pp>>
  PROVE  SwarmInv'
<1> USE DEF SwarmInv
<1> DEFINE e == pp[w]
           left == who[e].left
<1>0. e \in Entry /\ mem[e] = "made" /\ who[e].peer = job[w].peer
  BY DEF MadeInv
<1>1. /\ peers' = <<e>> \o peers /\ mem' = [mem EXCEPT ![e] = "listed"]
      /\ peerCount' = peerCount + 1 /\ complete' = complete
      /\ left = 0 => seeders' = seeders + 1 /\ leechers' = leechers
      /\ left # 0 => leechers' = leechers + 1 /\ seeders' = seeders
  BY DEF Insert
<1>2. job[w].event = "start"
  BY DEF JobInv
<1>17. MadeInv'
  BY <1>1, MadeUsed
<1>12. Owned'
  <2>1. \A v \in Workers : Holds(v)' <=> Holds(v)
    BY <1>2 DEF Holds, SwarmTypes
  <2>2. \A v \in Workers : Holds(v) => pp[v] \in Entry /\ pp[v] # e
    BY <1>0 DEF Owned, Holds, JobInv, SwarmTypes
  <2> QED
    BY <1>0, <1>1, <2>1, <2>2 DEF Owned, SwarmTypes
<1>13. left = who[e].left
  OBVIOUS
<1> HIDE DEF e, left
<1>3. e \notin Listed
  BY <1>0 DEF ListedOnce
<1>4. /\ peers' \in Seq(Entry) /\ Len(peers') = Len(peers) + 1
      /\ Listed' = Listed \cup {e}
      /\ \A a, b \in DOMAIN peers' : peers'[a] = peers'[b] => a = b
  BY <1>0, <1>1, <1>3, InsertedAtHead
<1>5. /\ Listed \subseteq Entry /\ IsFiniteSet(Listed)
      /\ IsFiniteSet(Leechers) /\ IsFiniteSet(Seeders)
  BY ListedFinite
<1>6. /\ Cardinality(Listed) \in Nat /\ Cardinality(Leechers) \in Nat
      /\ Cardinality(Seeders) \in Nat
  BY <1>5, FS_CardinalityType
<1>7. /\ peerCount = Cardinality(Listed) /\ leechers = Cardinality(Leechers)
      /\ seeders >= Cardinality(Seeders) /\ Cardinality(Listed) = Len(peers)
  BY DEF CountsRight, NoDuplicates, Leechers, Seeders
<1>9. SwarmTypes'
  <2>1. peerCount' \in Int /\ seeders' \in Int /\ leechers' \in Int
    BY <1>1 DEF SwarmTypes
  <2> QED
    BY <1>1, <1>4, <2>1 DEF SwarmTypes, Places, Uses
<1>10. ListedOnce'
  <2>1. \A d \in Entry : d \in Listed' <=> mem'[d] = "listed"
    BY <1>0, <1>1, <1>4 DEF ListedOnce, SwarmTypes
  <2> QED
    BY <1>4, <2>1 DEF ListedOnce
<1>11. JobInv'
  BY DEF JobInv, SwarmTypes
<1>14. NoDuplicates'
  <2>1. \A d \in Listed : who[d].peer # who[e].peer
    BY <1>0 DEF Known
  <2>3. ASSUME NEW a \in Listed', NEW b \in Listed',
               who'[a].peer = who'[b].peer
        PROVE  a = b
    <3>1. CASE a \in Listed /\ b \in Listed
      BY <2>3, <3>1 DEF NoDuplicates
    <3>2. CASE a = e /\ b \in Listed
      BY <2>1, <2>3, <3>2
    <3>3. CASE b = e /\ a \in Listed
      BY <2>1, <2>3, <3>3
    <3>4. CASE a = e /\ b = e
      BY <3>4
    <3> QED
      BY <1>4, <2>3, <3>1, <3>2, <3>3, <3>4
  <2>4. Cardinality(Listed') = Len(peers')
    <3>1. Cardinality(Listed \cup {e}) = Cardinality(Listed) + 1
      BY <1>3, <1>5, FS_AddElement
    <3> QED
      BY <1>4, <1>7, <3>1
  <2> QED
    BY <2>3, <2>4 DEF NoDuplicates
<1>15. CountsRight'
  <2>1. Cardinality(Listed') = Cardinality(Listed) + 1
    BY <1>3, <1>4, <1>5, FS_AddElement
  <2>2. peerCount' = Cardinality(Listed')
    BY <1>1, <1>7, <2>1
  <2>3. e \notin Leechers /\ e \notin Seeders
    BY <1>3 DEF Leechers, Seeders
  <2>4. CASE left = 0
    <3>1. Leechers' = Leechers /\ Seeders' = Seeders \cup {e}
      BY <1>4, <1>13, <2>4 DEF Leechers, Seeders
    <3>2. Cardinality(Seeders') = Cardinality(Seeders) + 1
      BY <1>5, <2>3, <3>1, FS_AddElement
    <3>3. leechers' = Cardinality(Leechers')
      BY <1>1, <1>7, <2>4, <3>1
    <3>4. seeders' >= Cardinality(Seeders')
      <4>1. seeders \in Int
        BY DEF SwarmTypes
      <4> QED
        BY <1>1, <1>6, <1>7, <2>4, <3>2, <4>1
    <3> QED
      BY <2>2, <3>3, <3>4 DEF CountsRight, Leechers, Seeders
  <2>5. CASE left # 0
    <3>1. Seeders' = Seeders /\ Leechers' = Leechers \cup {e}
      BY <1>4, <1>13, <2>5 DEF Leechers, Seeders
    <3>2. Cardinality(Leechers') = Cardinality(Leechers) + 1
      BY <1>5, <2>3, <3>1, FS_AddElement
    <3>3. leechers' = Cardinality(Leechers')
      BY <1>1, <1>7, <2>5, <3>2
    <3>4. seeders' >= Cardinality(Seeders')
      BY <1>1, <1>7, <2>5, <3>1
    <3> QED
      BY <2>2, <3>3, <3>4 DEF CountsRight, Leechers, Seeders
  <2> QED
    BY <2>4, <2>5
<1>16. WorkingBalanced'
  BY Counted
<1> QED
  BY <1>9, <1>10, <1>11, <1>12, <1>14, <1>15, <1>16, <1>17

\* The peer leaves the list and the counters.
LEMMA RemoveKeeps ==
  ASSUME SwarmInv, NEW w \in Workers, Remove(w) PROVE SwarmInv'
<1> USE DEF SwarmInv
<1> DEFINE e == pp[w]
<1>1. /\ pc[w] = "remove" /\ e \in Listed /\ peers' = Without(e)
      /\ mem' = [mem EXCEPT ![e] = "removed"]
      /\ next' = [next EXCEPT ![e] = After(e)]
      /\ peerCount' = peerCount - 1 /\ pc' = [pc EXCEPT ![w] = "done"]
      /\ who[e].left = 0 => /\ seeders' = seeders - 1 /\ leechers' = leechers
                            /\ complete' = complete - 1
      /\ who[e].left # 0 => /\ leechers' = leechers - 1 /\ seeders' = seeders
                            /\ complete' = complete
      /\ UNCHANGED <<who, working, job, pp>>
  BY DEF Remove, At, Goto
<1>2. /\ Listed \subseteq Entry /\ IsFiniteSet(Listed)
      /\ IsFiniteSet(Leechers) /\ IsFiniteSet(Seeders)
  BY ListedFinite
<1>3. /\ peers' \in Seq(Entry) /\ Len(peers') = Len(peers) - 1
      /\ Listed' = Listed \ {e}
      /\ \A a, b \in DOMAIN peers' : peers'[a] = peers'[b] => a = b
  BY <1>1, RemovedOnce
<1>4. e \in Entry /\ mem[e] = "listed"
  BY <1>1, <1>2 DEF ListedOnce
<1> HIDE DEF e
<1>5. /\ Cardinality(Listed) \in Nat /\ Cardinality(Leechers) \in Nat
      /\ Cardinality(Seeders) \in Nat
  BY <1>2, FS_CardinalityType
<1>6. /\ peerCount = Cardinality(Listed) /\ leechers = Cardinality(Leechers)
      /\ seeders >= Cardinality(Seeders) /\ Cardinality(Listed) = Len(peers)
  BY DEF CountsRight, NoDuplicates, Leechers, Seeders
<1>7. SwarmTypes'
  <2>1. /\ peerCount' \in Int /\ seeders' \in Int /\ leechers' \in Int
        /\ complete' \in Int
    BY <1>1 DEF SwarmTypes
  <2>2. After(e) \in Entry \cup {0}
    BY <1>4, AfterType
  <2> QED
    BY <1>1, <1>3, <1>4, <2>1, <2>2 DEF SwarmTypes, Places, Uses
<1>8. ListedOnce'
  <2>1. \A d \in Entry : d \in Listed' <=> mem'[d] = "listed"
    BY <1>1, <1>3 DEF ListedOnce, SwarmTypes
  <2> QED
    BY <1>3, <2>1 DEF ListedOnce
<1>9. JobInv'
  BY <1>1 DEF JobInv, SwarmTypes
<1>10. Owned'
  <2>1. \A v \in Workers : Holds(v)' <=> Holds(v) \/ v = w
    BY <1>1, <1>4 DEF Holds, JobInv, SwarmTypes
  <2>2. \A v \in Workers : Holds(v) => pp[v] # e /\ v # w
    BY <1>1, <1>4 DEF Owned, Holds
  <2>3. mem'[e] = "removed" /\ \A d \in Entry : d # e => mem'[d] = mem[d]
    BY <1>1, <1>4 DEF SwarmTypes
  <2>4. \A v \in Workers : Holds(v) => pp[v] \in Entry
    BY DEF Holds, JobInv, SwarmTypes
  <2>5. pp[w] = e
    BY DEF e
  <2> QED
    BY <1>1, <2>1, <2>2, <2>3, <2>4, <2>5 DEF Owned
<1>11. NoDuplicates'
  <2>1. \A a, b \in Listed' : who'[a].peer = who'[b].peer => a = b
    BY <1>1, <1>3 DEF NoDuplicates
  <2>2. Cardinality(Listed') = Len(peers')
    <3>1. Cardinality(Listed \ {e}) = Cardinality(Listed) - 1
      BY <1>1, <1>2, FS_RemoveElement
    <3> QED
      BY <1>3, <1>6, <3>1
  <2> QED
    BY <2>1, <2>2 DEF NoDuplicates
<1>12. CountsRight'
  <2>1. Cardinality(Listed') = Cardinality(Listed) - 1
    BY <1>1, <1>2, <1>3, FS_RemoveElement
  <2>2. peerCount' = Cardinality(Listed')
    BY <1>1, <1>6, <2>1
  <2>3. CASE who[e].left = 0
    <3>1. /\ e \in Seeders /\ Leechers' = Leechers
          /\ Seeders' = Seeders \ {e}
      BY <1>1, <1>3, <2>3 DEF Leechers, Seeders
    <3>2. Cardinality(Seeders') = Cardinality(Seeders) - 1
      BY <1>2, <3>1, FS_RemoveElement
    <3>3. leechers' = Cardinality(Leechers')
      BY <1>1, <1>6, <2>3, <3>1
    <3>4. seeders' >= Cardinality(Seeders')
      <4>1. seeders \in Int
        BY DEF SwarmTypes
      <4> QED
        BY <1>1, <1>5, <1>6, <2>3, <3>2, <4>1
    <3> QED
      BY <2>2, <3>3, <3>4 DEF CountsRight, Leechers, Seeders
  <2>4. CASE who[e].left # 0
    <3>1. /\ e \in Leechers /\ Seeders' = Seeders
          /\ Leechers' = Leechers \ {e}
      BY <1>1, <1>3, <2>4 DEF Leechers, Seeders
    <3>2. Cardinality(Leechers') = Cardinality(Leechers) - 1
      BY <1>2, <3>1, FS_RemoveElement
    <3>3. leechers' = Cardinality(Leechers')
      BY <1>1, <1>6, <2>4, <3>2
    <3>4. seeders' >= Cardinality(Seeders')
      BY <1>1, <1>6, <2>4, <3>1
    <3> QED
      BY <2>2, <3>3, <3>4 DEF CountsRight, Leechers, Seeders
  <2> QED
    BY <2>3, <2>4
<1>13. WorkingBalanced'
  BY <1>1, Counted
<1>14. MadeInv'
  BY <1>1, <1>4, MadeKept DEF SwarmTypes
<1> QED
  BY <1>7, <1>8, <1>9, <1>10, <1>11, <1>12, <1>13, <1>14

\* An entry is freed by the one that removed it, and is not in the list.
LEMMA EndKeeps ==
  ASSUME SwarmInv, NEW w \in Workers, RemovesAgain(w) \/ Done(w) \/ Free(w)
  PROVE  SwarmInv'
<1> USE DEF SwarmInv
<1>1. CASE RemovesAgain(w)
  <2>1. UNCHANGED <<list, counters, working, pc, job, pp>>
    BY <1>1 DEF RemovesAgain
  <2>2. SwarmTypes' /\ JobInv' /\ Owned' /\ MadeInv' /\ WorkingBalanced'
    BY <2>1 DEF SwarmTypes, JobInv, Owned, MadeInv, Holds, WorkingBalanced, list,
                counters
  <2> QED
    BY <2>1, <2>2, ListKept
<1>2. CASE Done(w) /\ pc'[w] = "free"
  <2>1. /\ pc[w] = "done" /\ pc' = [pc EXCEPT ![w] = "free"]
        /\ job[w].event = "stop" /\ pp[w] # 0 /\ working' = working - 1
        /\ UNCHANGED <<list, counters, job, pp>>
    BY <1>2 DEF Done, Return, Goto, At, SwarmTypes
  <2>2. SwarmTypes'
    BY <2>1 DEF SwarmTypes, Places, list, counters
  <2>3. JobInv'
    BY <2>1 DEF JobInv, SwarmTypes
  <2>4. Owned'
    <3>1. \A v \in Workers : Holds(v)' <=> Holds(v)
      BY <2>1 DEF Holds, SwarmTypes
    <3> QED
      BY <2>1, <3>1 DEF Owned, list
  <2>5. WorkingBalanced'
    BY <2>1, Counted
  <2>6. MadeInv'
    BY <2>1, MadeKept DEF SwarmTypes, list
  <2> QED
    BY <2>1, <2>2, <2>3, <2>4, <2>5, <2>6, ListKept
<1>3. CASE Done(w) /\ pc'[w] # "free"
  <2>1. /\ pc[w] = "done" /\ ~(job[w].event = "stop" /\ pp[w] # 0)
        /\ Return(w) /\ working' = working - 1 /\ UNCHANGED <<list, counters>>
    BY <1>3 DEF Done, Goto, At, SwarmTypes
  <2>2. /\ pc' = [pc EXCEPT ![w] = "idle"]
        /\ job' = [job EXCEPT ![w] = NoRequest] /\ pp' = [pp EXCEPT ![w] = 0]
    BY <2>1 DEF Return, Goto
  <2>3. SwarmTypes'
    BY <2>1, <2>2 DEF SwarmTypes, Places, list, counters
  <2>4. JobInv'
    BY <2>2 DEF JobInv, SwarmTypes
  <2>5. Owned'
    <3>1. \A v \in Workers : Holds(v)' => Holds(v) /\ pp'[v] = pp[v]
      BY <2>1, <2>2 DEF Holds, SwarmTypes
    <3> QED
      BY <2>1, <3>1 DEF Owned, list
  <2>6. WorkingBalanced'
    BY <2>1, <2>2, Counted
  <2>7. MadeInv'
    BY <2>1, <2>2, MadeKept DEF SwarmTypes, list
  <2> QED
    BY <2>1, <2>3, <2>4, <2>5, <2>6, <2>7, ListKept
<1>4. CASE Free(w)
  <2>1. /\ pc[w] = "free" /\ pc' = [pc EXCEPT ![w] = "idle"]
        /\ mem' = [mem EXCEPT ![pp[w]] = "free"]
        /\ next' = [next EXCEPT ![pp[w]] = 0]
        /\ job' = [job EXCEPT ![w] = NoRequest] /\ pp' = [pp EXCEPT ![w] = 0]
        /\ UNCHANGED <<peers, who, counters, working>>
    BY <1>4 DEF Free, Return, Goto, At
  <2>2. pp[w] \in Entry /\ mem[pp[w]] = "removed"
    BY <2>1 DEF Owned, Holds, JobInv, SwarmTypes
  <2>3. SwarmTypes'
    BY <2>1, <2>2 DEF SwarmTypes, Places, Uses, counters
  <2>4. Listed' = Listed
    BY <2>1 DEF Listed
  <2>5. ListedOnce'
    BY <2>1, <2>2, <2>4 DEF ListedOnce, SwarmTypes
  <2>6. JobInv'
    BY <2>1 DEF JobInv, SwarmTypes
  <2>7. Owned'
    <3>1. \A v \in Workers : Holds(v)' => Holds(v) /\ v # w /\ pp'[v] = pp[v]
      BY <2>1 DEF Holds, SwarmTypes
    <3>2. \A v \in Workers : Holds(v) /\ v # w => pp[v] # pp[w]
      BY <2>1 DEF Owned, Holds
    <3>3. \A v \in Workers : Holds(v) => pp[v] \in Entry
      BY DEF Holds, JobInv, SwarmTypes
    <3>4. \A d \in Entry : d # pp[w] => mem'[d] = mem[d]
      BY <2>1 DEF SwarmTypes
    <3> QED
      BY <3>1, <3>2, <3>3, <3>4 DEF Owned
  <2>8. NoDuplicates' /\ CountsRight'
    BY <2>1, <2>4 DEF NoDuplicates, CountsRight, counters
  <2>9. WorkingBalanced'
    BY <2>1, Counted
  <2>10. MadeInv'
    BY <2>1, <2>2, MadeKept DEF SwarmTypes
  <2> QED
    BY <2>3, <2>5, <2>6, <2>7, <2>8, <2>9, <2>10
<1> QED
  BY <1>1, <1>2, <1>3, <1>4

-----------------------------------------------------------------------------
\* The invariant is inductive.
LEMMA NextKeeps == SwarmInv /\ [Next]_vars => SwarmInv'
<1> SUFFICES ASSUME SwarmInv, [Next]_vars PROVE SwarmInv'
  OBVIOUS
<1>1. ASSUME NEW w \in Workers, Add(w) PROVE SwarmInv'
  <2>1. /\ pc[w] = "add" /\ pc' = [pc EXCEPT ![w] = "done"]
        /\ UNCHANGED <<who, next, working, job, pp>>
    BY <1>1 DEF Add, At, Goto
  <2>2. CASE Known(job[w].peer)
    <3>1. mem' = [mem EXCEPT ![pp[w]] = "lost"] /\ UNCHANGED <<peers, counters>>
      BY <1>1, <2>2 DEF Add
    <3> QED
      BY <2>1, <3>1, NotNeededKeeps
  <2>3. CASE ~Known(job[w].peer)
    <3>1. Insert(pp[w])
      BY <1>1, <2>3 DEF Add
    <3> QED
      BY <2>1, <2>3, <3>1, InsertKeeps
  <2> QED
    BY <2>2, <2>3
<1>2. ASSUME NEW w \in Workers, WorkerNext(w) PROVE SwarmInv'
  BY <1>1, <1>2, AnnounceKeeps, SearchKeeps, MakeKeeps, UpdateKeeps,
     RemoveKeeps, EndKeeps DEF WorkerNext
<1>3. CASE UNCHANGED vars
  <2>1. UNCHANGED <<list, counters, working, pc, job, pp>>
    BY <1>3 DEF vars
  <2>2. SwarmTypes' /\ JobInv' /\ Owned' /\ MadeInv' /\ WorkingBalanced'
    BY <2>1 DEF SwarmInv, SwarmTypes, JobInv, Owned, MadeInv, Holds,
                WorkingBalanced, list, counters
  <2> QED
    BY <2>1, <2>2, ListKept DEF SwarmInv
<1> QED
  BY <1>2, <1>3 DEF Next

\* SwarmInv holds throughout.
THEOREM SwarmInvariant == Spec => []SwarmInv
<1> QED
  BY InitHolds, NextKeeps, PTL DEF Spec

\* The variables of a swarm have their types, and no counter but complete goes
\* below zero.
THEOREM SwarmTypesHold == Spec => []SwarmTypeOK
<1>1. SwarmInv => SwarmTypeOK
  <2> SUFFICES ASSUME SwarmInv PROVE SwarmTypeOK
    OBVIOUS
  <2>1. IsFiniteSet(Listed) /\ IsFiniteSet(Leechers) /\ IsFiniteSet(Seeders)
    BY ListedFinite DEF SwarmInv
  <2>2. /\ Cardinality(Listed) \in Nat /\ Cardinality(Leechers) \in Nat
        /\ Cardinality(Seeders) \in Nat
    BY <2>1, FS_CardinalityType
  <2>3. /\ peerCount = Cardinality(Listed) /\ leechers = Cardinality(Leechers)
        /\ seeders >= Cardinality(Seeders) /\ seeders \in Int
    BY DEF SwarmInv, SwarmTypes, CountsRight, Leechers, Seeders
  <2>4. seeders \in Nat
    BY <2>2, <2>3
  <2> QED
    BY <2>2, <2>3, <2>4 DEF SwarmInv, SwarmTypes, SwarmTypeOK, Uses
<1> QED
  BY <1>1, SwarmInvariant, PTL

\* No peer is listed twice, however many workers add it at once.
THEOREM PeersListedOnce == Spec => []NoDuplicates
<1>1. SwarmInv => NoDuplicates
  BY DEF SwarmInv
<1> QED
  BY <1>1, SwarmInvariant, PTL

\* The counters of torrent_ctx_t agree with its list of peers.
THEOREM CountersAreRight == Spec => []CountsRight
<1>1. SwarmInv => CountsRight
  BY DEF SwarmInv
<1> QED
  BY <1>1, SwarmInvariant, PTL

\* torrent_list_t.working is the number of announces between their workon and
\* their jobdone.
THEOREM AnnouncesAreCounted == Spec => []WorkingBalanced
<1>1. SwarmInv => WorkingBalanced
  BY DEF SwarmInv
<1> QED
  BY <1>1, SwarmInvariant, PTL

-----------------------------------------------------------------------------
(* Who stopped, and whose entries leave the list.                          *)

\* A worker handles a stop.
Stopping(w) == pc[w] # "idle" /\ job[w].event = "stop"

\* The history tells of every stop that is handled.
StopsCounted ==
  /\ stops \in [Peers -> Nat]
  /\ \A w \in Workers : Stopping(w) => stops[job[w].peer] >= 1
  /\ \A v, w \in Workers :
       Stopping(v) /\ Stopping(w) /\ job[v].peer = job[w].peer /\ v # w
         => stops[job[w].peer] >= 2

\* No peer has stopped twice.
StoppedOnce == \A p \in Peers : stops[p] <= 1

\* What a stop has found, and what it has removed, is the entry of its peer.
FindsItsOwn ==
  \A w \in Workers : pc[w] \in {"stop", "remove"} \/ Holds(w)
    => who[pp[w]].peer = job[w].peer /\ mem[pp[w]] # "free"

\* The memory of a peer that was removed tells of its stop.
GoneByStop ==
  \A e \in Entry : mem[e] \in {"free", "removed"} /\ who[e].peer \in Peers
    => stops[who[e].peer] >= 1

\* An entry was not needed as its peer was in the list already; the peer stays
\* there until it stops.
LostListed ==
  \A e \in Entry : mem[e] = "lost"
    => /\ who[e].peer \in Peers
       /\ stops[who[e].peer] = 0 => Known(who[e].peer)

\* A peer whose start has found or added it stays in the list until it stops,
\* or is about to be inserted into it.
StaysListed ==
  \A w \in Workers :
    (pc[w] \in {"update", "done"} /\ job[w].event = "start" /\ stops[job[w].peer] = 0)
      => Known(job[w].peer) \/ BeingAdded(job[w].peer)

HistoryInv ==
  /\ StopsCounted
  /\ StoppedOnce => FindsItsOwn /\ GoneByStop /\ LostListed /\ StaysListed

\* Before the first announce.
LEMMA HistoryInit == Init => HistoryInv
<1> SUFFICES ASSUME Init PROVE HistoryInv
  OBVIOUS
<1> USE DEF Init
<1>1. StopsCounted
  BY DEF StopsCounted, Stopping
<1>2. FindsItsOwn /\ LostListed /\ StaysListed
  BY DEF FindsItsOwn, Holds, LostListed, StaysListed
<1>3. GoneByStop
  BY SwarmAssumption DEF GoneByStop
<1> QED
  BY <1>1, <1>2, <1>3 DEF HistoryInv

\* A stop is counted when its announce comes.
LEMMA StopsKept ==
  ASSUME SwarmInv, StopsCounted, [Next]_vars
  PROVE  /\ StopsCounted'
         /\ \A p \in Peers : stops[p] <= stops'[p]
<1>0. /\ stops \in [Peers -> Nat] /\ pc \in [Workers -> Places]
      /\ job \in [Workers -> Request \cup {NoRequest}]
      /\ \A w \in Workers : pc[w] # "idle" => job[w] \in Request
  BY DEF StopsCounted, SwarmInv, SwarmTypes, JobInv
<1>1. CASE \E w \in Workers : Announce(w)
  <2>1. PICK w \in Workers : Announce(w)
    BY <1>1
  <2>2. PICK r \in Request :
          /\ job' = [job EXCEPT ![w] = r]
          /\ stops' = IF r.event = "stop" THEN [stops EXCEPT ![r.peer] = @ + 1] ELSE stops
    BY <2>1 DEF Announce
  <2>3. pc[w] = "idle" /\ pc' = [pc EXCEPT ![w] = "search"]
    BY <2>1 DEF Announce, At, Goto
  <2>4. r.peer \in Peers
    BY DEF Request
  <2>5. stops' \in [Peers -> Nat] /\ \A p \in Peers : stops[p] <= stops'[p]
    BY <1>0, <2>2, <2>4
  <2>6. r.event = "stop" => stops'[r.peer] = stops[r.peer] + 1
    BY <1>0, <2>2, <2>4
  <2>7. \A v \in Workers : v # w => /\ Stopping(v)' <=> Stopping(v)
                                   /\ job'[v] = job[v]
    BY <1>0, <2>2, <2>3 DEF Stopping
  <2>8. job'[w] = r /\ (Stopping(w)' => r.event = "stop")
    BY <1>0, <2>2 DEF Stopping
  <2>9. \A v \in Workers : Stopping(v) => job[v].peer \in Peers
    BY <1>0 DEF Stopping, Request
  <2>10. ASSUME NEW v \in Workers, Stopping(v)' PROVE stops'[job'[v].peer] >= 1
    <3>1. CASE v = w
      BY <1>0, <2>4, <2>6, <2>8, <2>10, <3>1
    <3>2. CASE v # w
      <4>1. Stopping(v) /\ job'[v] = job[v] /\ stops[job[v].peer] >= 1
        BY <2>7, <2>10, <3>2 DEF StopsCounted
      <4> QED
        BY <1>0, <2>5, <2>9, <4>1
    <3> QED
      BY <3>1, <3>2
  <2>11. ASSUME NEW u \in Workers, NEW v \in Workers, Stopping(u)', Stopping(v)',
                job'[u].peer = job'[v].peer, u # v
         PROVE  stops'[job'[v].peer] >= 2
    <3>1. CASE u = w
      <4>1. Stopping(v) /\ job[v].peer = r.peer /\ stops[r.peer] >= 1 /\ r.event = "stop"
        BY <2>7, <2>8, <2>11, <3>1 DEF StopsCounted
      <4> QED
        BY <1>0, <2>4, <2>6, <2>8, <2>11, <3>1, <4>1
    <3>2. CASE v = w
      <4>1. Stopping(u) /\ job[u].peer = r.peer /\ stops[r.peer] >= 1 /\ r.event = "stop"
        BY <2>7, <2>8, <2>11, <3>2 DEF StopsCounted
      <4> QED
        BY <1>0, <2>4, <2>6, <2>8, <2>11, <3>2, <4>1
    <3>3. CASE u # w /\ v # w
      <4>1. /\ Stopping(u) /\ Stopping(v) /\ job[u].peer = job[v].peer
            /\ job'[v] = job[v] /\ stops[job[v].peer] >= 2
        BY <2>7, <2>11, <3>3 DEF StopsCounted
      <4> QED
        BY <1>0, <2>5, <2>9, <4>1
    <3> QED
      BY <3>1, <3>2, <3>3
  <2> QED
    BY <2>5, <2>10, <2>11 DEF StopsCounted
<1>2. CASE ~\E w \in Workers : Announce(w)
  <2>1. /\ stops' = stops
        /\ \A v \in Workers : pc'[v] # "idle" => pc[v] # "idle" /\ job'[v] = job[v]
    <3>1. ASSUME NEW w \in Workers, WorkerNext(w), ~Announce(w)
          PROVE  /\ stops' = stops
                 /\ \A v \in Workers :
                      pc'[v] # "idle" => pc[v] # "idle" /\ job'[v] = job[v]
      BY <1>0, <3>1
      DEF WorkerNext, ReadsFreed, SearchesOn, Strays, Finds, FindsNothing, MakePeer,
        Add, Update, UpdateStopped, Reply, Remove, RemovesAgain, Done, Free, Return,
        At, Goto, arrivals
    <3>2. CASE UNCHANGED vars
      BY <3>2 DEF vars, arrivals
    <3> QED
      BY <1>2, <3>1, <3>2 DEF Next
  <2>2. \A v \in Workers : Stopping(v)' => Stopping(v) /\ job'[v] = job[v]
    BY <2>1 DEF Stopping
  <2> QED
    BY <1>0, <2>1, <2>2 DEF StopsCounted
<1> QED
  BY <1>1, <1>2

\* The steps that leave the list and its memory alone.
Looks(w) == \/ Announce(w) \/ ReadsFreed(w) \/ SearchesOn(w) \/ Strays(w)
            \/ Finds(w) \/ FindsNothing(w) \/ Update(w) \/ UpdateStopped(w)
            \/ RemovesAgain(w) \/ Done(w)

\* They keep that what a worker has found is its peer's, and that its peer is
\* still in the list if it has not stopped.
LEMMA SearchKeepsHistory ==
  ASSUME SwarmInv, HistoryInv, StoppedOnce, NEW w \in Workers, Looks(w)
  PROVE  FindsItsOwn' /\ GoneByStop' /\ LostListed' /\ StaysListed'
<1>0. /\ pc \in [Workers -> Places] /\ pp \in [Workers -> Entry \cup {0}]
      /\ job \in [Workers -> Request \cup {NoRequest}]
      /\ stops \in [Peers -> Nat] /\ stops' \in [Peers -> Nat]
      /\ mem \in [Entry -> Uses]
      /\ \A p \in Peers : stops[p] <= stops'[p]
      /\ \A v \in Workers : pc[v] # "idle" => job[v].peer \in Peers
  <2>1. StopsCounted' /\ \A p \in Peers : stops[p] <= stops'[p]
    BY StopsKept DEF Looks, Next, WorkerNext, HistoryInv
  <2> QED
    BY <2>1 DEF SwarmInv, SwarmTypes, JobInv, Request, HistoryInv, StopsCounted
<1>1. FindsItsOwn /\ GoneByStop /\ LostListed /\ StaysListed
  BY DEF HistoryInv
<1>2. /\ UNCHANGED <<peers, mem, who>>
      /\ \A v \in Workers : v # w => pc'[v] = pc[v] /\ pp'[v] = pp[v] /\ job'[v] = job[v]
      /\ pc[w] # "add"
  BY <1>0 DEF Looks, Announce, ReadsFreed, SearchesOn, Strays, Finds, FindsNothing,
    Update, UpdateStopped, Reply, RemovesAgain, Done, Return, At, Goto, list
<1>3. Listed' = Listed /\ \A p : Known(p)' <=> Known(p)
  BY <1>2 DEF Listed, Known
<1>4. \A p : BeingAdded(p) => BeingAdded(p)'
  BY <1>2 DEF BeingAdded
<1> DEFINE Has(v) == pc[v] \in {"stop", "remove"} \/ Holds(v)
           Right(v) == pp[v] # 0 /\ who[pp[v]].peer = job[v].peer /\ mem[pp[v]] # "free"
           Listing(v) == pc[v] \in {"update", "done"} /\ job[v].event = "start"
\* Where a worker comes from that has found something.
<1>5. ASSUME NEW v \in Workers
      PROVE  /\ Has(v)' => /\ job'[v] = job[v] /\ pp'[v] = pp[v]
                           /\ Has(v) \/ Right(v)
             /\ Listing(v)' => /\ job'[v] = job[v] /\ pc[v] # "idle"
                               /\ Listing(v) \/ Right(v)
  <2>1. CASE v # w
    <3>1. pc'[v] = pc[v] /\ pp'[v] = pp[v] /\ job'[v] = job[v]
      BY <1>2, <2>1
    <3> QED
      BY <3>1 DEF Holds
  <2>2. CASE v = w /\ Announce(w)
    <3>1. pc'[v] = "search"
      BY <1>0, <2>2 DEF Announce, Goto
    <3> QED
      BY <3>1 DEF Holds
  <2>3. CASE v = w /\ (ReadsFreed(w) \/ SearchesOn(w) \/ Strays(w) \/ RemovesAgain(w))
    <3>1. /\ pc' = pc /\ job' = job /\ pc[v] \in {"search", "remove"}
          /\ pc[v] = "remove" => pp' = pp
      BY <2>3 DEF ReadsFreed, SearchesOn, Strays, RemovesAgain, At
    <3> QED
      BY <3>1 DEF Holds
  <2>4. CASE v = w /\ Finds(w)
    <3>1. job' = job /\ pp' = pp /\ Right(v) /\ pc[v] = "search"
      BY <2>4 DEF Finds, At
    <3> QED
      BY <3>1
  <2>5. CASE v = w /\ FindsNothing(w)
    <3>1. /\ job' = job /\ pp' = pp /\ pp[v] = 0 /\ pc[v] = "search"
          /\ pc'[v] \in {"make", "done"}
          /\ job[v].event = "start" => pc'[v] = "make"
      BY <1>0, <2>5 DEF FindsNothing, At, Goto
    <3> QED
      BY <3>1 DEF Holds
  <2>6. CASE v = w /\ (Update(w) \/ UpdateStopped(w))
    <3>1. /\ job' = job /\ pp' = pp
          /\ \/ pc[v] = "update" /\ pc'[v] \in {"update", "done"}
             \/ pc[v] = "stop" /\ pc'[v] \in {"stop", "remove"}
      BY <1>0, <2>6 DEF Update, UpdateStopped, Reply, At, Goto
    <3>2. pc[v] = "update" => job[v].event # "stop"
      BY DEF SwarmInv, JobInv
    <3> QED
      BY <3>1, <3>2 DEF Holds
  <2>7. CASE v = w /\ Done(w)
    <3>1. /\ pc[v] = "done"
          /\ \/ pc'[v] = "idle"
             \/ /\ pc'[v] = "free" /\ job[v].event = "stop" /\ pp[v] # 0
                /\ job' = job /\ pp' = pp
      BY <1>0, <2>7 DEF Done, Return, At, Goto
    <3> QED
      BY <3>1 DEF Holds
  <2> QED
    BY <2>1, <2>2, <2>3, <2>4, <2>5, <2>6, <2>7 DEF Looks
<1>6. FindsItsOwn'
  <2>1. \A v \in Workers : Has(v)' => Right(v)'
    <3> SUFFICES ASSUME NEW v \in Workers, Has(v)' PROVE Right(v)'
      OBVIOUS
    <3>1. job'[v] = job[v] /\ pp'[v] = pp[v] /\ (Has(v) \/ Right(v))
      BY <1>5
    <3>2. Has(v) => pp[v] # 0
      BY DEF Holds, SwarmInv, JobInv
    <3>3. Right(v)
      BY <1>1, <3>1, <3>2 DEF FindsItsOwn
    <3> QED
      BY <1>2, <3>1, <3>3
  <2> QED
    BY <2>1 DEF FindsItsOwn
<1>7. GoneByStop'
  <2> SUFFICES ASSUME NEW e \in Entry, mem[e] \in {"free", "removed"},
                      who[e].peer \in Peers
               PROVE  stops'[who[e].peer] >= 1
    BY <1>2 DEF GoneByStop
  <2>1. stops[who[e].peer] >= 1
    BY <1>1 DEF GoneByStop
  <2> QED
    BY <1>0, <2>1
<1>8. LostListed'
  <2> SUFFICES ASSUME NEW e \in Entry, mem[e] = "lost"
               PROVE  /\ who[e].peer \in Peers
                      /\ stops'[who[e].peer] = 0 => Known(who[e].peer)
    BY <1>2, <1>3 DEF LostListed, Known
  <2>1. /\ who[e].peer \in Peers
        /\ stops[who[e].peer] = 0 => Known(who[e].peer)
    BY <1>1 DEF LostListed
  <2>2. stops'[who[e].peer] = 0 => stops[who[e].peer] = 0
    BY <1>0, <2>1
  <2> QED
    BY <2>1, <2>2
<1>9. ASSUME NEW v \in Workers, Right(v), job[v].peer \in Peers,
             stops[job[v].peer] = 0
      PROVE  Known(job[v].peer) \/ BeingAdded(job[v].peer)
  <2> DEFINE e == pp[v]
  <2>1. e \in Entry /\ who[e].peer = job[v].peer /\ mem[e] \in Uses \ {"free"}
    BY <1>0, <1>9
  <2>2. CASE mem[e] = "listed"
    <3>1. e \in Listed
      BY <2>1, <2>2 DEF SwarmInv, ListedOnce
    <3> QED
      BY <2>1, <3>1 DEF Known
  <2>3. CASE mem[e] = "made"
    <3>1. PICK u \in Workers : pc[u] = "add" /\ pp[u] = e
      BY <2>1, <2>3 DEF SwarmInv, MadeInv
    <3>2. job[u].peer = job[v].peer
      BY <2>1, <3>1 DEF SwarmInv, MadeInv
    <3> QED
      BY <3>1, <3>2 DEF BeingAdded
  <2>4. CASE mem[e] = "lost"
    <3>1. stops[who[e].peer] = 0 => Known(who[e].peer)
      BY <1>1, <2>1, <2>4 DEF LostListed
    <3>2. who[e].peer = job[v].peer
      BY <2>1
    <3> QED
      BY <1>9, <3>1, <3>2
  <2>5. CASE mem[e] = "removed"
    BY <1>1, <1>9, <2>1, <2>5 DEF GoneByStop
  <2> QED
    BY <2>1, <2>2, <2>3, <2>4, <2>5 DEF Uses
<1>10. StaysListed'
  <2>1. ASSUME NEW v \in Workers, Listing(v)', stops'[job'[v].peer] = 0
        PROVE  Known(job[v].peer) \/ BeingAdded(job[v].peer)
    <3>1. /\ job'[v] = job[v] /\ job[v].peer \in Peers
          /\ Listing(v) \/ Right(v)
      BY <1>0, <1>5, <2>1
    <3>2. stops[job[v].peer] = 0
      BY <1>0, <2>1, <3>1
    <3>3. CASE Listing(v)
      BY <1>1, <3>1, <3>2, <3>3 DEF StaysListed
    <3>4. CASE Right(v)
      BY <1>9, <3>1, <3>2, <3>4
    <3> QED
      BY <3>1, <3>3, <3>4
  <2>2. ASSUME NEW v \in Workers, Listing(v)', stops'[job'[v].peer] = 0
        PROVE  Known(job[v].peer)' \/ BeingAdded(job[v].peer)'
    <3>1. PICK p : p = job[v].peer
      OBVIOUS
    <3>2. Known(p)' \/ BeingAdded(p)'
      BY <1>3, <1>4, <2>1, <2>2, <3>1
    <3>3. job'[v].peer = p
      BY <1>5, <2>2, <3>1
    <3> QED
      BY <3>2, <3>3 DEF Known, BeingAdded
  <2> QED
    BY <2>2 DEF StaysListed
<1> QED
  BY <1>6, <1>7, <1>8, <1>10

\* The steps that change the list, or use memory again: nobody else has what is
\* freed, what is allocated was nobody's, and only a peer that has stopped leaves.
LEMMA ChangeKeepsHistory ==
  ASSUME SwarmInv, HistoryInv, StoppedOnce, NEW w \in Workers,
         MakePeer(w) \/ Add(w) \/ Remove(w) \/ Free(w)
  PROVE  FindsItsOwn' /\ GoneByStop' /\ LostListed' /\ StaysListed'
<1> DEFINE Has(v) == pc[v] \in {"stop", "remove"} \/ Holds(v)
           Listing(v) == pc[v] \in {"update", "done"} /\ job[v].event = "start"
<1>0. /\ pc \in [Workers -> Places] /\ pp \in [Workers -> Entry \cup {0}]
      /\ job \in [Workers -> Request \cup {NoRequest}]
      /\ stops \in [Peers -> Nat]
      /\ mem \in [Entry -> Uses]
      /\ who \in [Entry -> [peer : Peers \cup {"none"}, left : {0, 1}]]
      /\ \A v \in Workers : pc[v] # "idle" => job[v].peer \in Peers
      /\ \A v \in Workers : Has(v) => pp[v] \in Entry /\ Stopping(v)
  BY DEF SwarmInv, SwarmTypes, JobInv, Request, HistoryInv, StopsCounted, Holds, Stopping
<1>1. FindsItsOwn /\ GoneByStop /\ LostListed /\ StaysListed /\ StopsCounted
  BY DEF HistoryInv
<1>2. /\ stops' = stops
      /\ \A v \in Workers : v # w => /\ pc'[v] = pc[v] /\ pp'[v] = pp[v]
                                      /\ job'[v] = job[v]
  BY <1>0 DEF MakePeer, Add, Remove, Free, Return, Goto, arrivals
<1>3. \A v \in Workers : v # w => (Has(v)' <=> Has(v)) /\ (Listing(v)' <=> Listing(v))
  BY <1>2 DEF Holds
<1>4. \A v \in Workers : Has(v) => who[pp[v]].peer = job[v].peer /\ mem[pp[v]] # "free"
  BY <1>1 DEF FindsItsOwn
<1>5. Listed \subseteq Entry /\ \A e \in Entry : e \in Listed <=> mem[e] = "listed"
  BY ListedFinite DEF SwarmInv, ListedOnce
\* Who was listed before, or is about to be, still is.
<1>6. ASSUME \A p : stops[p] = 0 /\ p \in Peers /\ (Known(p) \/ BeingAdded(p))
                    => Known(p)' \/ BeingAdded(p)',
             Listing(w)' => Known(job[w].peer)'
      PROVE  StaysListed'
  <2>1. ASSUME NEW v \in Workers, Listing(v)', stops'[job'[v].peer] = 0, v # w
        PROVE  Known(job[v].peer)' \/ BeingAdded(job[v].peer)'
    <3>1. PICK p : p = job[v].peer
      OBVIOUS
    <3>2. Listing(v) /\ job'[v].peer = p /\ p \in Peers /\ stops[p] = 0
      BY <1>0, <1>2, <1>3, <2>1, <3>1
    <3>3. Known(p) \/ BeingAdded(p)
      BY <1>1, <3>1, <3>2 DEF StaysListed
    <3>4. Known(p)' \/ BeingAdded(p)'
      BY <1>6, <3>2, <3>3
    <3> QED
      BY <3>2, <3>4 DEF Known, BeingAdded
  <2> QED
    BY <1>6, <2>1 DEF StaysListed
<1>7. CASE MakePeer(w)
  <2>1. PICK e \in Entry :
          /\ mem[e] = "free" /\ mem' = [mem EXCEPT ![e] = "made"]
          /\ \A d \in Entry : d # e => who'[d] = who[d]
    BY <1>0, <1>7 DEF MakePeer, Allocatable
  <2>2. pc[w] = "make" /\ pc'[w] = "add" /\ peers' = peers /\ job' = job
    BY <1>0, <1>7 DEF MakePeer, At, Goto
  <2>3. /\ mem'[e] = "made" /\ \A d \in Entry : d # e => mem'[d] = mem[d]
        /\ ~Has(w)' /\ ~Listing(w)'
    BY <1>0, <2>1, <2>2 DEF Holds
  <2>4. Listed' = Listed /\ \A d \in Listed : who'[d] = who[d]
    BY <1>5, <2>1, <2>2 DEF Listed
  <2>5. \A p : (Known(p) => Known(p)') /\ (BeingAdded(p) => BeingAdded(p)')
    BY <1>2, <2>2, <2>4 DEF Known, BeingAdded
  <2>6. FindsItsOwn'
    <3>1. \A v \in Workers : Has(v)' => v # w /\ pp[v] # e /\ pp[v] \in Entry
      BY <1>0, <1>3, <1>4, <2>1, <2>3
    <3>2. \A v \in Workers : Has(v)' => who'[pp'[v]].peer = job'[v].peer /\ mem'[pp'[v]] # "free"
      BY <1>2, <1>3, <1>4, <2>1, <2>3, <3>1
    <3> QED
      BY <3>2 DEF FindsItsOwn
  <2>7. GoneByStop'
    BY <1>1, <1>2, <2>1, <2>3 DEF GoneByStop
  <2>8. LostListed'
    <3> SUFFICES ASSUME NEW d \in Entry, mem'[d] = "lost"
                 PROVE  /\ who'[d].peer \in Peers
                        /\ stops[who'[d].peer] = 0 => Known(who[d].peer)'
      BY <1>2 DEF LostListed
    <3>1. mem[d] = "lost" /\ who'[d] = who[d]
      BY <2>1, <2>3
    <3>2. PICK p : p = who[d].peer
      OBVIOUS
    <3>3. p \in Peers /\ (stops[p] = 0 => Known(p))
      BY <1>1, <3>1, <3>2 DEF LostListed
    <3>4. stops[p] = 0 => Known(p)'
      BY <2>5, <3>3
    <3> QED
      BY <3>1, <3>2, <3>3, <3>4 DEF Known
  <2> QED
    BY <1>6, <2>3, <2>5, <2>6, <2>7, <2>8
<1>8. CASE Add(w)
  <2>0. PICK e, p0 : e = pp[w] /\ p0 = job[w].peer
    OBVIOUS
  <2>1. /\ pc[w] = "add" /\ pc'[w] = "done" /\ job[w].event = "start"
        /\ UNCHANGED <<who, job, pp>>
    BY <1>0, <1>8 DEF Add, At, Goto, SwarmInv, JobInv
  <2>2. e \in Entry /\ mem[e] = "made" /\ who[e].peer = p0
    BY <2>0, <2>1 DEF SwarmInv, MadeInv
  <2>3. \/ /\ Known(p0) /\ Listed' = Listed
           /\ mem' = [mem EXCEPT ![e] = "lost"]
        \/ /\ Listed' = Listed \cup {e}
           /\ mem' = [mem EXCEPT ![e] = "listed"]
    <3>1. CASE Known(p0)
      BY <1>8, <2>0, <3>1 DEF Add, Listed
    <3>2. CASE ~Known(p0)
      <4>1. peers' = <<e>> \o peers /\ mem' = [mem EXCEPT ![e] = "listed"]
        BY <1>8, <2>0, <3>2 DEF Add, Insert
      <4>2. e \notin Listed
        BY <1>5, <2>2
      <4>3. Listed' = Listed \cup {e}
        BY <2>2, <4>1, <4>2, InsertedAtHead DEF SwarmInv
      <4> QED
        BY <4>1, <4>3
    <3> QED
      BY <3>1, <3>2
  <2>4. Known(p0)' /\ \A p : Known(p) => Known(p)'
    BY <2>1, <2>2, <2>3 DEF Known
  <2>5. /\ mem'[e] \in {"listed", "lost"}
        /\ \A d \in Entry : d # e => mem'[d] = mem[d]
    BY <1>0, <2>2, <2>3
  <2>6. \A p : BeingAdded(p) => BeingAdded(p)' \/ Known(p)'
    <3> SUFFICES ASSUME NEW p, NEW v \in Workers, pc[v] = "add", job[v].peer = p
                 PROVE  BeingAdded(p)' \/ Known(p)'
      BY DEF BeingAdded
    <3>1. CASE v = w
      <4>1. p = p0
        BY <2>0, <3>1
      <4> QED
        BY <2>4, <4>1 DEF Known
    <3>2. CASE v # w
      BY <1>2, <3>2 DEF BeingAdded
    <3> QED
      BY <3>1, <3>2
  <2>7. FindsItsOwn'
    <3>1. ~Has(w)'
      BY <2>1 DEF Holds
    <3>2. \A v \in Workers : Has(v)' => /\ pp[v] \in Entry /\ mem[pp[v]] # "free"
                                        /\ who[pp[v]].peer = job[v].peer
      BY <1>0, <1>3, <1>4, <3>1
    <3>3. \A v \in Workers : Has(v)' => who'[pp'[v]].peer = job'[v].peer /\ mem'[pp'[v]] # "free"
      BY <2>1, <2>5, <3>2
    <3> QED
      BY <3>3 DEF FindsItsOwn
  <2>8. GoneByStop'
    BY <1>1, <1>2, <2>1, <2>5 DEF GoneByStop
  <2>9. LostListed'
    <3> SUFFICES ASSUME NEW d \in Entry, mem'[d] = "lost"
                 PROVE  /\ who[d].peer \in Peers
                        /\ stops[who[d].peer] = 0 => Known(who[d].peer)'
      BY <1>2, <2>1 DEF LostListed, Known
    <3>1. CASE d = e
      <4>1. who[d].peer = p0 /\ p0 \in Peers
        BY <1>0, <2>0, <2>1, <2>2, <3>1
      <4> QED
        BY <2>1, <2>4, <4>1 DEF Known
    <3>2. CASE d # e
      <4>1. PICK p : p = who[d].peer
        OBVIOUS
      <4>2. p \in Peers /\ (stops[p] = 0 => Known(p))
        BY <1>1, <2>5, <3>2, <4>1 DEF LostListed
      <4>3. stops[p] = 0 => Known(p)'
        BY <2>4, <4>2
      <4> QED
        BY <2>1, <4>1, <4>2, <4>3 DEF Known
    <3> QED
      BY <3>1, <3>2
  <2>10. Known(job[w].peer)'
    BY <2>0, <2>1, <2>4 DEF Known
  <2> QED
    BY <1>6, <2>4, <2>6, <2>7, <2>8, <2>9, <2>10
<1>9. CASE Remove(w)
  <2>1. /\ pc[w] = "remove" /\ pc'[w] = "done" /\ job[w].event = "stop"
        /\ pp[w] \in Listed /\ peers' = Without(pp[w])
        /\ mem' = [mem EXCEPT ![pp[w]] = "removed"]
        /\ UNCHANGED <<who, job, pp>>
    BY <1>0, <1>9 DEF Remove, At, Goto, SwarmInv, JobInv
  <2>2. Has(w) /\ ~Listing(w)'
    BY <2>1
  <2>3. who[pp[w]].peer = job[w].peer /\ stops[job[w].peer] >= 1
    BY <1>0, <1>1, <1>4, <2>2 DEF StopsCounted
  <2>4. Listed' = Listed \ {pp[w]}
    BY <2>1, RemovedOnce DEF SwarmInv
  <2>5. \A p \in Peers : stops[p] = 0 /\ Known(p) => Known(p)'
    <3> SUFFICES ASSUME NEW p \in Peers, stops[p] = 0, NEW d \in Listed, who[d].peer = p
                 PROVE  Known(p)'
      BY DEF Known
    <3>1. d # pp[w]
      BY <2>3
    <3> QED
      BY <2>1, <2>4, <3>1 DEF Known
  <2>6. \A p : BeingAdded(p) => BeingAdded(p)'
    BY <1>2, <2>1 DEF BeingAdded
  <2>7. FindsItsOwn'
    <3>1. \A v \in Workers : Has(v)' => Has(v) /\ pp[v] \in Entry
      BY <1>0, <1>3, <2>2
    <3>2. \A d \in Entry : mem[d] # "free" => mem'[d] # "free"
      BY <1>0, <2>1
    <3>3. \A v \in Workers : Has(v)' => who'[pp'[v]].peer = job'[v].peer /\ mem'[pp'[v]] # "free"
      BY <1>4, <2>1, <3>1, <3>2
    <3> QED
      BY <3>3 DEF FindsItsOwn
  <2>8. GoneByStop'
    <3> SUFFICES ASSUME NEW d \in Entry, mem'[d] \in {"free", "removed"}, who[d].peer \in Peers
                 PROVE  stops[who[d].peer] >= 1
      BY <1>2, <2>1 DEF GoneByStop
    <3>1. d # pp[w] => mem[d] \in {"free", "removed"}
      BY <1>0, <2>1
    <3> QED
      BY <1>1, <2>3, <3>1 DEF GoneByStop
  <2>9. LostListed'
    <3> SUFFICES ASSUME NEW d \in Entry, mem'[d] = "lost"
                 PROVE  /\ who[d].peer \in Peers
                        /\ stops[who[d].peer] = 0 => Known(who[d].peer)'
      BY <1>2, <2>1 DEF LostListed, Known
    <3>1. mem[d] = "lost"
      BY <1>0, <1>5, <2>1
    <3>2. PICK p : p = who[d].peer
      OBVIOUS
    <3>3. p \in Peers /\ (stops[p] = 0 => Known(p))
      BY <1>1, <3>1, <3>2 DEF LostListed
    <3>4. stops[p] = 0 => Known(p)'
      BY <2>5, <3>3
    <3> QED
      BY <2>1, <3>2, <3>3, <3>4 DEF Known
  <2> QED
    BY <1>6, <2>2, <2>5, <2>6, <2>7, <2>8, <2>9
<1>10. CASE Free(w)
  <2>1. /\ pc[w] = "free" /\ pc'[w] = "idle" /\ peers' = peers /\ who' = who
        /\ mem' = [mem EXCEPT ![pp[w]] = "free"]
    BY <1>0, <1>10 DEF Free, Return, At, Goto
  <2>2. Has(w) /\ Holds(w) /\ ~Has(w)' /\ ~Listing(w)'
    BY <2>1 DEF Holds
  <2>3. mem[pp[w]] = "removed" /\ pp[w] \in Entry
    BY <1>0, <2>2 DEF SwarmInv, Owned
  <2>4. Listed' = Listed /\ \A p : Known(p)' <=> Known(p)
    BY <2>1 DEF Listed, Known
  <2>5. \A p : BeingAdded(p) => BeingAdded(p)'
    BY <1>2, <2>1 DEF BeingAdded
  <2>6. FindsItsOwn'
    <3>1. ASSUME NEW v \in Workers, Has(v)'
          PROVE  v # w /\ Has(v) /\ pp[v] # pp[w] /\ pp[v] \in Entry
      <4>1. v # w /\ Has(v) /\ Stopping(v) /\ Stopping(w) /\ pp[v] \in Entry
        BY <1>0, <1>3, <2>2, <3>1
      <4>2. job[v].peer # job[w].peer
        <5>1. job[w].peer \in Peers /\ stops[job[w].peer] \in Nat /\ stops[job[w].peer] <= 1
          BY <1>0, <2>1 DEF StoppedOnce
        <5> QED
          BY <1>1, <4>1, <5>1 DEF StopsCounted
      <4> QED
        BY <1>4, <2>2, <4>1, <4>2
    <3>2. \A v \in Workers : Has(v)' => who'[pp'[v]].peer = job'[v].peer /\ mem'[pp'[v]] # "free"
      BY <1>0, <1>2, <1>4, <2>1, <3>1
    <3> QED
      BY <3>2 DEF FindsItsOwn
  <2>7. GoneByStop'
    <3> SUFFICES ASSUME NEW d \in Entry, mem'[d] \in {"free", "removed"}, who[d].peer \in Peers
                 PROVE  stops[who[d].peer] >= 1
      BY <1>2, <2>1 DEF GoneByStop
    <3>1. mem[d] \in {"free", "removed"}
      BY <1>0, <2>1, <2>3
    <3> QED
      BY <1>1, <3>1 DEF GoneByStop
  <2>8. LostListed'
    <3> SUFFICES ASSUME NEW d \in Entry, mem'[d] = "lost"
                 PROVE  /\ who[d].peer \in Peers
                        /\ stops[who[d].peer] = 0 => Known(who[d].peer)
      BY <1>2, <2>1, <2>4 DEF LostListed, Known
    <3>1. mem[d] = "lost"
      BY <1>0, <2>1, <2>3
    <3> QED
      BY <1>1, <3>1 DEF LostListed
  <2> QED
    BY <1>6, <2>2, <2>4, <2>5, <2>6, <2>7, <2>8
<1> QED
  BY <1>7, <1>8, <1>9, <1>10

\* The history is kept.
LEMMA HistoryKept == SwarmInv /\ HistoryInv /\ [Next]_vars => HistoryInv'
<1> SUFFICES ASSUME SwarmInv, HistoryInv, [Next]_vars PROVE HistoryInv'
  OBVIOUS
<1>1. StopsCounted' /\ \A p \in Peers : stops[p] <= stops'[p]
  BY StopsKept DEF HistoryInv
<1>2. ASSUME StoppedOnce' PROVE StoppedOnce
  <2>1. stops \in [Peers -> Nat] /\ stops' \in [Peers -> Nat]
    BY <1>1 DEF HistoryInv, StopsCounted
  <2> QED
    BY <1>1, <1>2, <2>1 DEF StoppedOnce
<1>3. ASSUME StoppedOnce
      PROVE  FindsItsOwn' /\ GoneByStop' /\ LostListed' /\ StaysListed'
  <2>1. ASSUME NEW w \in Workers, WorkerNext(w)
        PROVE  FindsItsOwn' /\ GoneByStop' /\ LostListed' /\ StaysListed'
    BY <1>3, <2>1, SearchKeepsHistory, ChangeKeepsHistory DEF WorkerNext, Looks
  <2>2. CASE UNCHANGED vars
    <3>1. UNCHANGED <<peers, mem, who, stops, pc, job, pp>>
      BY <2>2 DEF vars, list, arrivals
    <3>2. \A p : (Known(p)' <=> Known(p)) /\ (BeingAdded(p)' <=> BeingAdded(p))
      BY <3>1 DEF Known, BeingAdded, Listed
    <3> QED
      BY <1>3, <3>1, <3>2 DEF HistoryInv, FindsItsOwn, GoneByStop, LostListed,
        StaysListed, Holds, Known, BeingAdded, Listed
  <2> QED
    BY <2>1, <2>2 DEF Next
<1> QED
  BY <1>1, <1>2, <1>3 DEF HistoryInv

\* A peer leaves the list only when a worker removes it.
LEMMA LeavesByRemove ==
  ASSUME SwarmInv, [Next]_vars, NEW e \in Listed \ Listed'
  PROVE  \E w \in Workers : Remove(w) /\ pp[w] = e
<1>1. peers' # peers
  BY DEF Listed
<1>2. PICK w \in Workers : Add(w) \/ Remove(w)
  BY <1>1 DEF Next, WorkerNext, Announce, ReadsFreed, SearchesOn, Strays, Finds,
    FindsNothing, MakePeer, Update, UpdateStopped, Reply, RemovesAgain, Done, Free,
    list, vars
<1>3. ~Add(w)
  <2> SUFFICES ASSUME Add(w) PROVE FALSE
    OBVIOUS
  <2>1. PICK d \in Entry : mem[d] = "made" /\ peers' = <<d>> \o peers
    <3>1. pp[w] \in Entry /\ mem[pp[w]] = "made"
      BY DEF Add, At, SwarmInv, MadeInv
    <3> QED
      BY <1>1, <3>1 DEF Add, Insert
  <2>2. d \notin Listed
    BY <2>1 DEF SwarmInv, ListedOnce
  <2>3. Listed' = Listed \cup {d}
    BY <2>1, <2>2, InsertedAtHead DEF SwarmInv
  <2> QED
    BY <2>3
<1>4. Remove(w)
  BY <1>2, <1>3
<1>5. pp[w] \in Listed /\ peers' = Without(pp[w])
  BY <1>4 DEF Remove
<1>6. Listed' = Listed \ {pp[w]}
  BY <1>5, RemovedOnce DEF SwarmInv
<1> QED
  BY <1>4, <1>6

\* If no peer has stopped twice, a peer that leaves the list has stopped, and
\* the worker that handles its stop removes it: what torrent_remove_peer is given
\* is the peer's entry, although the search for it took no lock, entries were
\* freed and allocated meanwhile, and nothing is asserted (torrent.c:265).
THEOREM StopsRemoveTheirOwn == Spec => OnlyStopRemoves
<1> DEFINE Leaves == \A e \in Listed \ Listed' :
                       \/ \E w \in Workers : /\ pc[w] = "remove" /\ pp[w] = e
                                             /\ job[w].event = "stop"
                                             /\ job[w].peer = who[e].peer
                       \/ \E p \in Peers : stops[p] > 1
<1>1. SwarmInv /\ HistoryInv /\ [Next]_vars => [Leaves]_vars
  <2> SUFFICES ASSUME SwarmInv, HistoryInv, [Next]_vars, NEW e \in Listed \ Listed',
                      ~\E p \in Peers : stops[p] > 1
               PROVE  \E w \in Workers : /\ pc[w] = "remove" /\ pp[w] = e
                                         /\ job[w].event = "stop"
                                         /\ job[w].peer = who[e].peer
    OBVIOUS
  <2>1. PICK w \in Workers : Remove(w) /\ pp[w] = e
    BY LeavesByRemove
  <2>2. pc[w] = "remove" /\ job[w].event = "stop"
    BY <2>1 DEF Remove, At, SwarmInv, JobInv
  <2>3. StoppedOnce
    <3>1. stops \in [Peers -> Nat]
      BY DEF HistoryInv, StopsCounted
    <3> QED
      BY <3>1 DEF StoppedOnce
  <2>4. who[pp[w]].peer = job[w].peer
    BY <2>2, <2>3 DEF HistoryInv, FindsItsOwn
  <2> QED
    BY <2>1, <2>2, <2>4
<1> QED
  BY <1>1, InitHolds, NextKeeps, HistoryInit, HistoryKept, PTL DEF Spec, OnlyStopRemoves

\* A peer whose start has been handled is in the list, or about to be inserted
\* by another start of it that is at work, whoever added it and whatever was
\* inserted, removed and used again during the search without the lock, unless
\* it has stopped or some peer has stopped twice.
THEOREM StartsAreListed == Spec => []StartListsPeer
<1>1. SwarmInv /\ HistoryInv => StartListsPeer
  <2> SUFFICES ASSUME SwarmInv, HistoryInv, NEW w \in Workers,
                      pc[w] = "done", job[w].event = "start", stops[job[w].peer] = 0,
                      ~\E p \in Peers : stops[p] > 1
               PROVE  Known(job[w].peer) \/ BeingAdded(job[w].peer)
    BY DEF StartListsPeer
  <2>1. StoppedOnce
    <3>1. stops \in [Peers -> Nat]
      BY DEF HistoryInv, StopsCounted
    <3> QED
      BY <3>1 DEF StoppedOnce
  <2> QED
    BY <2>1 DEF HistoryInv, StaysListed
<1> QED
  BY <1>1, InitHolds, NextKeeps, HistoryInit, HistoryKept, PTL DEF Spec
=============================================================================
