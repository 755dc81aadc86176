----------------------------- MODULE CacheProofs ------------------------------
(***************************************************************************)
(* Proofs about the cache of torrents: for any workers, hashes, requests   *)
(* and contents of memory.                                                 *)
(***************************************************************************)
EXTENDS TorrentCache, FiniteSetTheorems, SequenceTheorems,
        WellFoundedInduction, TLAPS

Torrents == [hash : Hashes, memory : {"zero", "used"}, swarm : SUBSET Peers]

Jobs == Announces \cup [type : {"scrape"}, asked : Seq(Hashes)]

Reports == Seq([hash : Hashes, peers : SUBSET Peers])

\* What each worker has, part by part.
WorkerTypes == /\ job \in [Workers -> Jobs]
               /\ todo \in [Workers -> Seq(Wanted)]
               /\ tries \in [Workers -> 0..MaxTry]
               /\ report \in [Workers -> Reports]
               /\ at \in [Workers -> 0..Len(torrents)]

\* A worker that looks something up has something to look up, and one that uses
\* a torrent has got one.
InHand == \A w \in Workers :
            /\ pc[w] \in {"lookup", "query", "spin", "use"} => todo[w] # <<>>
            /\ pc[w] = "use" => at[w] # 0

\* Who asks the database has the mutex.
Locked == /\ lock \in Workers \cup {NoWorker}
          /\ \A w \in Workers : pc[w] \in {"query", "spin"} <=> lock = w

\* What a worker asks the database for is not in the list, since the search
\* before it was right or worked on used memory.
AskedIsMissing ==
  \A w \in Workers : pc[w] = "query" /\ Head(todo[w]).memory = "zero" =>
    \A i \in DOMAIN torrents : torrents[i].hash # Head(todo[w]).hash

CacheInv == /\ torrents \in Seq(Torrents)
            /\ pc \in [Workers -> {"idle", "lookup", "query", "spin", "use",
                                   "done", "missing"}]
            /\ working \in Int /\ jobs \in Nat
            /\ WorkerTypes /\ InHand /\ Locked
            /\ OneTorrentPerHash /\ AskedIsMissing
            /\ CacheWorkingBalanced

-----------------------------------------------------------------------------
\* Before the first job.
LEMMA InitHolds == Init => CacheInv
<1> SUFFICES ASSUME Init PROVE CacheInv
  OBVIOUS
<1> USE DEF Init
<1>1. /\ torrents \in Seq(Torrents) /\ Len(torrents) = 0
      /\ DOMAIN torrents = {}
  OBVIOUS
<1>2. WorkerTypes
  <2>1. Scrape(<<>>) \in Jobs
    BY DEF Scrape, Jobs
  <2>2. <<>> \in Seq(Wanted) /\ <<>> \in Reports
    BY DEF Reports
  <2>3. 0 \in 0..MaxTry /\ 0 \in 0..Len(torrents)
    BY <1>1, CacheAssumption
  <2> QED
    BY <2>1, <2>2, <2>3 DEF WorkerTypes
<1>3. InHand /\ Locked
  BY CacheAssumption DEF InHand, Locked
<1>4. OneTorrentPerHash /\ AskedIsMissing
  BY <1>1 DEF OneTorrentPerHash, AskedIsMissing
<1>5. CacheWorkingBalanced
  <2>1. {w \in Workers : pc[w] # "idle"} = {}
    OBVIOUS
  <2> QED
    BY <2>1, FS_EmptySet DEF CacheWorkingBalanced
<1> QED
  BY <1>1, <1>2, <1>3, <1>4, <1>5, CacheAssumption DEF CacheInv

\* A worker that begins or ends a job is one more or one fewer at work.
LEMMA Counted ==
  ASSUME CacheInv, NEW w \in Workers, NEW l,
         pc' = [pc EXCEPT ![w] = l],
         \/ pc[w] = "idle" /\ l # "idle" /\ working' = working + 1
         \/ pc[w] # "idle" /\ l = "idle" /\ working' = working - 1
         \/ pc[w] # "idle" /\ l # "idle" /\ working' = working
  PROVE  CacheWorkingBalanced'
<1> DEFINE Busy == {v \in Workers : pc[v] # "idle"}
<1>0. pc \in [Workers -> {"idle", "lookup", "query", "spin", "use", "done",
                          "missing"}]
  BY DEF CacheInv
<1>1. IsFiniteSet(Busy) /\ Busy' = {v \in Workers : pc'[v] # "idle"}
  BY FS_Subset, CacheAssumption
<1>2. working = Cardinality(Busy) /\ Cardinality(Busy) \in Nat
  BY <1>1, FS_CardinalityType DEF CacheInv, CacheWorkingBalanced
<1>3. CASE pc[w] = "idle" /\ l # "idle" /\ working' = working + 1
  <2>1. w \notin Busy /\ Busy' = Busy \cup {w}
    BY <1>0, <1>3
  <2> QED
    BY <1>1, <1>2, <1>3, <2>1, FS_AddElement DEF CacheWorkingBalanced
<1>4. CASE pc[w] # "idle" /\ l = "idle" /\ working' = working - 1
  <2>1. w \in Busy /\ Busy' = Busy \ {w}
    BY <1>0, <1>4
  <2> QED
    BY <1>1, <1>2, <1>4, <2>1, FS_RemoveElement DEF CacheWorkingBalanced
<1>5. CASE pc[w] # "idle" /\ l # "idle" /\ working' = working
  <2>1. Busy' = Busy
    BY <1>0, <1>5
  <2> QED
    BY <1>1, <1>2, <1>5, <2>1 DEF CacheWorkingBalanced
<1> QED
  BY <1>3, <1>4, <1>5

-----------------------------------------------------------------------------
\* torrent_list_workon: the worker has hashes to look up.
LEMMA BeginKeeps ==
  ASSUME CacheInv, NEW w \in Workers, NEW j \in Jobs,
         NEW hashes \in Seq(Wanted), hashes # <<>>, Begin(w, j, hashes)
  PROVE  CacheInv'
<1> USE DEF CacheInv
<1>1. /\ pc[w] = "idle" /\ pc' = [pc EXCEPT ![w] = "lookup"]
      /\ torrents' = torrents /\ lock' = lock /\ at' = at /\ tries' = tries
      /\ job' = [job EXCEPT ![w] = j] /\ todo' = [todo EXCEPT ![w] = hashes]
      /\ report' = [report EXCEPT ![w] = <<>>]
      /\ working' = working + 1 /\ jobs > 0 /\ jobs' = jobs - 1
  BY DEF Begin, Goto
<1>2. WorkerTypes'
  <2>1. <<>> \in Reports
    BY DEF Reports
  <2> QED
    BY <1>1, <2>1 DEF WorkerTypes
<1>3. InHand'
  BY <1>1 DEF InHand, WorkerTypes
<1>4. Locked'
  BY <1>1 DEF Locked
<1>5. OneTorrentPerHash'
  BY <1>1 DEF OneTorrentPerHash
<1>6. AskedIsMissing'
  BY <1>1 DEF AskedIsMissing, WorkerTypes
<1>7. CacheWorkingBalanced'
  BY <1>1, Counted
<1>8. working' \in Int /\ jobs' \in Nat
  BY <1>1
<1> QED
  BY <1>1, <1>2, <1>3, <1>4, <1>5, <1>6, <1>7, <1>8

\* A set of numbers with a bound has a greatest one.
LEMMA GreatestExists ==
  ASSUME NEW n \in Nat, NEW T, T \subseteq 1..n, T # {}
  PROVE  \E i \in T : \A j \in T : j <= i
<1> DEFINE S == {n - i : i \in T}
<1>1. S \subseteq Nat /\ S # {}
  <2>1. \A i \in T : n - i \in Nat
    OBVIOUS
  <2>2. PICK i \in T : TRUE
    OBVIOUS
  <2>3. n - i \in S
    OBVIOUS
  <2> QED
    BY <2>1, <2>3
<1>2. PICK m \in S : \A k \in S : ~ (<<k, m>> \in OpToRel(<, Nat))
  <2> HIDE DEF S
  <2> QED
    BY <1>1, NatLessThanWellFounded, WFMin
<1>3. \A k \in S : ~ (k < m)
  BY <1>1, <1>2 DEF OpToRel
<1>4. PICK i \in T : m = n - i
  OBVIOUS
<1>5. ASSUME NEW j \in T PROVE j <= i
  <2>1. n - j \in S
    OBVIOUS
  <2>2. ~ (n - j < n - i)
    BY <1>3, <1>4, <2>1
  <2> QED
    BY <2>2
<1> QED
  BY <1>5

\* A search that finds nothing leads to a query for what is missing.
LEMMA SearchKeeps ==
  ASSUME CacheInv, NEW w \in Workers, Search(w) PROVE CacheInv'
<1> USE DEF CacheInv
<1> DEFINE e == Head(todo[w])
           t == Match(e)
<1>1. /\ pc[w] = "lookup" /\ lock = NoWorker
      /\ UNCHANGED <<torrents, working, job, todo, report, jobs>>
  BY DEF Search
<1>2. Len(torrents) \in Nat /\ DOMAIN torrents = 1..Len(torrents)
  BY LenProperties
<1>3. /\ t \in 0..Len(torrents)
      /\ t = 0 /\ e.memory = "zero" =>
           \A i \in DOMAIN torrents : torrents[i].hash # e.hash
  <2>1. CASE e.memory = "zero"
    <3> DEFINE known == {i \in DOMAIN torrents : torrents[i].hash = e.hash}
    <3>1. t = IF known = {} THEN 0
              ELSE CHOOSE i \in known : \A j \in known : j <= i
      BY <2>1 DEF Match, Newest
    <3>2. CASE known = {}
      BY <1>2, <3>1, <3>2
    <3>3. CASE known # {}
      <4>1. PICK m \in known : \A j \in known : j <= m
        <5>1. known \subseteq 1..Len(torrents)
          BY <1>2
        <5> HIDE DEF known
        <5> QED
          BY <1>2, <3>3, <5>1, GreatestExists
      <4>2. t \in known
        BY <3>1, <3>3, <4>1
      <4> QED
        BY <1>2, <4>2
    <3> QED
      BY <3>2, <3>3
  <2>2. CASE e.memory # "zero"
    BY <1>2, <2>2 DEF Match
  <2> QED
    BY <2>1, <2>2
<1>4. CASE t # 0
  <2>1. /\ at' = [at EXCEPT ![w] = t] /\ pc' = [pc EXCEPT ![w] = "use"]
        /\ UNCHANGED <<lock, tries>>
    BY <1>4 DEF Search, Goto
  <2>2. WorkerTypes'
    BY <1>1, <1>3, <2>1 DEF WorkerTypes
  <2>3. InHand'
    BY <1>1, <1>4, <2>1 DEF InHand, WorkerTypes
  <2>4. Locked'
    BY <1>1, <2>1 DEF Locked
  <2>5. OneTorrentPerHash'
    BY <1>1 DEF OneTorrentPerHash
  <2>6. AskedIsMissing'
    BY <1>1, <2>1 DEF AskedIsMissing
  <2>7. CacheWorkingBalanced'
    BY <1>1, <2>1, Counted
  <2> QED
    BY <1>1, <2>1, <2>2, <2>3, <2>4, <2>5, <2>6, <2>7
<1>5. CASE t = 0
  <2>1. /\ lock' = w /\ tries' = [tries EXCEPT ![w] = MaxTry]
        /\ pc' = [pc EXCEPT ![w] = "query"] /\ at' = at
    BY <1>5 DEF Search, Goto
  <2>2. WorkerTypes'
    <3>1. MaxTry \in 0..MaxTry
      BY CacheAssumption
    <3> QED
      BY <1>1, <2>1, <3>1 DEF WorkerTypes
  <2>3. InHand'
    BY <1>1, <2>1 DEF InHand, WorkerTypes
  <2>4. Locked'
    BY <1>1, <2>1, CacheAssumption DEF Locked
  <2>5. OneTorrentPerHash'
    BY <1>1 DEF OneTorrentPerHash
  <2>6. AskedIsMissing'
    <3> SUFFICES ASSUME NEW v \in Workers, pc'[v] = "query",
                        Head(todo[v]).memory = "zero"
                 PROVE  \A i \in DOMAIN torrents :
                          torrents[i].hash # Head(todo[v]).hash
      BY <1>1 DEF AskedIsMissing
    <3>1. CASE v = w
      BY <1>3, <1>5, <3>1
    <3>2. CASE v # w
      BY <2>1, <3>2 DEF AskedIsMissing
    <3> QED
      BY <3>1, <3>2
  <2>7. CacheWorkingBalanced'
    BY <1>1, <2>1, Counted
  <2> QED
    BY <1>1, <2>1, <2>2, <2>3, <2>4, <2>5, <2>6, <2>7
<1> QED
  BY <1>4, <1>5

\* What a worker does that leaves the list, the mutex and its hashes alone and
\* is not at an end.
LEMMA MovesKeep ==
  ASSUME CacheInv, NEW w \in Workers, NEW l \in {"use", "done", "missing"},
         pc' = [pc EXCEPT ![w] = l], l = "use" => todo[w] # <<>> /\ at'[w] # 0,
         pc[w] # "idle", lock' = IF lock = w THEN NoWorker ELSE lock,
         UNCHANGED <<todo, working>>,
         \A v \in Workers : v # w => at'[v] = at[v]
  PROVE  InHand' /\ Locked' /\ CacheWorkingBalanced'
<1> USE DEF CacheInv
<1>1. InHand'
  BY DEF InHand
<1>2. Locked'
  BY CacheAssumption DEF Locked
<1>3. CacheWorkingBalanced'
  BY Counted
<1> QED
  BY <1>1, <1>2, <1>3

-----------------------------------------------------------------------------
\* A busy database is asked again.
LEMMA BusyKeeps ==
  ASSUME CacheInv, NEW w \in Workers, QueryBusy(w) PROVE CacheInv'
<1> USE DEF CacheInv
<1>1. /\ tries[w] > 0 /\ tries' = [tries EXCEPT ![w] = @ - 1]
      /\ UNCHANGED <<torrents, lock, working, pc, job, todo, at, report, jobs>>
  BY DEF QueryBusy
<1>2. WorkerTypes'
  <2>1. tries[w] \in 0..MaxTry /\ MaxTry \in Nat
    BY CacheAssumption DEF WorkerTypes
  <2>2. tries[w] - 1 \in 0..MaxTry
    BY <1>1, <2>1
  <2> QED
    BY <1>1, <2>2 DEF WorkerTypes
<1>3. InHand' /\ Locked' /\ OneTorrentPerHash' /\ AskedIsMissing'
  BY <1>1 DEF InHand, Locked, OneTorrentPerHash, AskedIsMissing
<1>4. CacheWorkingBalanced'
  BY <1>1 DEF CacheWorkingBalanced
<1> QED
  BY <1>1, <1>2, <1>3, <1>4

\* The row is inserted: it is the only one of its hash, or its memory was used.
LEMMA FindsKeeps ==
  ASSUME CacheInv, NEW w \in Workers, QueryFinds(w) PROVE CacheInv'
<1> USE DEF CacheInv
<1> DEFINE e == Head(todo[w])
           t == [hash |-> e.hash, memory |-> e.memory, swarm |-> {}]
           n == Len(torrents)
<1>1. /\ pc[w] = "query" /\ torrents' = Append(torrents, t)
      /\ at' = [at EXCEPT ![w] = n + 1] /\ lock' = NoWorker
      /\ pc' = [pc EXCEPT ![w] = "use"]
      /\ UNCHANGED <<working, job, todo, tries, report, jobs>>
  BY DEF QueryFinds, Goto
<1>2. todo[w] \in Seq(Wanted) /\ todo[w] # <<>> /\ lock = w
  BY <1>1 DEF WorkerTypes, InHand, Locked
<1>3. e \in Wanted
  BY <1>2, HeadTailProperties
<1>4. t \in Torrents
  BY <1>3 DEF Wanted, Torrents
<1>5. /\ n \in Nat /\ DOMAIN torrents = 1..n
      /\ torrents' \in Seq(Torrents) /\ Len(torrents') = n + 1
      /\ DOMAIN torrents' = 1..(n + 1)
      /\ \A i \in 1..n : torrents'[i] = torrents[i]
      /\ torrents'[n + 1] = t
  <2>1. n \in Nat /\ DOMAIN torrents = 1..n
    BY LenProperties
  <2>2. /\ Append(torrents, t) \in Seq(Torrents)
        /\ Len(Append(torrents, t)) = n + 1
        /\ \A i \in 1..n : Append(torrents, t)[i] = torrents[i]
        /\ Append(torrents, t)[n + 1] = t
    BY <1>4, AppendProperties
  <2>3. DOMAIN torrents' = 1..(n + 1)
    BY <1>1, <2>2, LenProperties
  <2> QED
    BY <1>1, <2>1, <2>2, <2>3
<1> HIDE DEF t, e, n
<1>6. WorkerTypes'
  <2>1. n + 1 \in 0..(n + 1) /\ (\A i \in 0..n : i \in 0..(n + 1))
    BY <1>5
  <2>2. at' \in [Workers -> 0..(n + 1)]
    BY <1>1, <2>1 DEF WorkerTypes, n
  <2> QED
    BY <1>1, <1>5, <2>2 DEF WorkerTypes
<1>7. InHand' /\ Locked' /\ CacheWorkingBalanced'
  <2>1. at'[w] # 0 /\ \A v \in Workers : v # w => at'[v] = at[v]
    BY <1>1, <1>5 DEF WorkerTypes
  <2> QED
    BY <1>1, <1>2, <2>1, MovesKeep
<1>8. OneTorrentPerHash'
  <2> SUFFICES ASSUME NEW i \in 1..(n + 1), NEW j \in 1..(n + 1), i < j,
                      torrents'[i].hash = torrents'[j].hash
               PROVE  torrents'[j].memory = "used"
    BY <1>5 DEF OneTorrentPerHash
  <2>1. i \in 1..n
    BY <1>5
  <2>2. CASE j \in 1..n
    BY <1>5, <2>1, <2>2 DEF OneTorrentPerHash
  <2>3. CASE j = n + 1
    <3>1. torrents[i].hash = e.hash /\ torrents'[j].memory = e.memory
      BY <1>5, <2>1, <2>3 DEF t
    <3>2. e.memory # "zero"
      BY <1>1, <1>5, <2>1, <3>1 DEF AskedIsMissing, e
    <3> QED
      BY <1>3, <3>1, <3>2 DEF Wanted
  <2> QED
    BY <1>5, <2>2, <2>3
<1>9. AskedIsMissing'
  BY <1>1, <1>2 DEF AskedIsMissing, Locked
<1> QED
  BY <1>1, <1>5, <1>6, <1>7, <1>8, <1>9

\* An endless query keeps the mutex.
LEMMA SpinKeeps ==
  ASSUME CacheInv, NEW w \in Workers, QuerySpins(w) PROVE CacheInv'
<1> USE DEF CacheInv
<1>1. /\ pc[w] = "query" /\ pc' = [pc EXCEPT ![w] = "spin"]
      /\ UNCHANGED <<torrents, lock, working, job, todo, at, tries, report, jobs>>
  BY DEF QuerySpins, Goto
<1>2. WorkerTypes'
  BY <1>1 DEF WorkerTypes
<1>3. InHand' /\ Locked'
  BY <1>1 DEF InHand, Locked
<1>4. OneTorrentPerHash' /\ AskedIsMissing'
  BY <1>1 DEF OneTorrentPerHash, AskedIsMissing
<1>5. CacheWorkingBalanced'
  BY <1>1, Counted
<1> QED
  BY <1>1, <1>2, <1>3, <1>4, <1>5

\* A query without a result gives the mutex back.
LEMMA FailsKeeps ==
  ASSUME CacheInv, NEW w \in Workers, QueryFails(w) PROVE CacheInv'
<1> USE DEF CacheInv
<1>1. /\ pc[w] = "query" /\ pc' = [pc EXCEPT ![w] = "missing"]
      /\ lock' = NoWorker
      /\ UNCHANGED <<torrents, working, job, todo, at, tries, report, jobs>>
  BY DEF QueryFails, Goto
<1>2. WorkerTypes'
  BY <1>1 DEF WorkerTypes
<1>3. InHand' /\ Locked' /\ CacheWorkingBalanced'
  <2>1. lock = w
    BY <1>1 DEF Locked
  <2> QED
    BY <1>1, <2>1, MovesKeep
<1>4. OneTorrentPerHash' /\ AskedIsMissing'
  BY <1>1 DEF OneTorrentPerHash, AskedIsMissing
<1> QED
  BY <1>1, <1>2, <1>3, <1>4

\* An announce changes the swarm of its torrent and nothing else in the list.
LEMMA AnnounceKeeps ==
  ASSUME CacheInv, NEW w \in Workers, UseAnnounce(w) PROVE CacheInv'
<1> USE DEF CacheInv
<1> DEFINE a == at[w]
           s == After(job[w], torrents[a].swarm)
<1>1. /\ pc[w] = "use" /\ job[w].type = "announce"
      /\ torrents' = [torrents EXCEPT ![a].swarm = s]
      /\ pc' = [pc EXCEPT ![w] = "done"]
      /\ UNCHANGED <<lock, working, job, todo, at, tries, report, jobs>>
  BY DEF UseAnnounce, Goto
<1>2. /\ Len(torrents) \in Nat /\ DOMAIN torrents = 1..Len(torrents)
      /\ a \in DOMAIN torrents /\ torrents[a] \in Torrents
  <2>1. Len(torrents) \in Nat /\ DOMAIN torrents = 1..Len(torrents)
    BY LenProperties
  <2>2. a \in 1..Len(torrents)
    BY <1>1, <2>1 DEF WorkerTypes, InHand
  <2> QED
    BY <2>1, <2>2, ElementOfSeq
<1>3. s \subseteq Peers
  <2>1. job[w] \in Announces
    BY <1>1 DEF WorkerTypes, Jobs
  <2> QED
    BY <1>2, <2>1 DEF After, Announces, Torrents
<1>4. torrents' \in Seq(Torrents) /\ Len(torrents') = Len(torrents)
  <2>1. [torrents[a] EXCEPT !.swarm = s] \in Torrents
    BY <1>2, <1>3 DEF Torrents
  <2>2. torrents' = [torrents EXCEPT ![a] = [torrents[a] EXCEPT !.swarm = s]]
    BY <1>1
  <2> HIDE DEF s, a
  <2> QED
    BY <1>2, <2>1, <2>2, ExceptSeq
<1>5. /\ DOMAIN torrents' = DOMAIN torrents
      /\ \A i \in DOMAIN torrents : /\ torrents'[i].hash = torrents[i].hash
                                    /\ torrents'[i].memory = torrents[i].memory
  BY <1>1, <1>2 DEF Torrents
<1> HIDE DEF s, a
<1>6. WorkerTypes'
  BY <1>1, <1>4 DEF WorkerTypes
<1>7. InHand' /\ Locked' /\ CacheWorkingBalanced'
  BY <1>1, MovesKeep DEF Locked
<1>8. OneTorrentPerHash'
  BY <1>5 DEF OneTorrentPerHash
<1>9. AskedIsMissing'
  BY <1>1, <1>5 DEF AskedIsMissing
<1> QED
  BY <1>1, <1>4, <1>6, <1>7, <1>8, <1>9

\* A torrent of a scrape is noted.
LEMMA SnapshotKeeps ==
  ASSUME CacheInv, NEW w \in Workers, Snapshot(w) PROVE CacheInv'
<1> USE DEF CacheInv
<1> DEFINE l == IF Len(todo[w]) = 1 THEN "done" ELSE "lookup"
           r == <<[hash  |-> torrents[at[w]].hash,
                   peers |-> torrents[at[w]].swarm]>>
<1>1. /\ pc[w] = "use" /\ pc' = [pc EXCEPT ![w] = l]
      /\ todo' = [todo EXCEPT ![w] = Tail(@)]
      /\ report' = [report EXCEPT ![w] = r \o @]
      /\ UNCHANGED <<torrents, lock, working, job, at, tries, jobs>>
  BY DEF Snapshot, Goto
<1>2. todo[w] \in Seq(Wanted) /\ todo[w] # <<>> /\ report[w] \in Reports
  BY <1>1 DEF WorkerTypes, InHand
<1>3. Tail(todo[w]) \in Seq(Wanted) /\ Len(Tail(todo[w])) = Len(todo[w]) - 1
  BY <1>2, HeadTailProperties
<1>4. r \o report[w] \in Reports
  <2>1. at[w] \in DOMAIN torrents
    BY <1>1, LenProperties DEF WorkerTypes, InHand
  <2>2. torrents[at[w]] \in Torrents
    BY <2>1, LenProperties, ElementOfSeq
  <2>3. r \in Reports
    BY <2>2 DEF Torrents, Reports
  <2> QED
    BY <1>2, <2>3, ConcatProperties DEF Reports
<1> HIDE DEF r
<1>5. WorkerTypes'
  BY <1>1, <1>3, <1>4 DEF WorkerTypes
<1>6. l = "lookup" => Tail(todo[w]) # <<>>
  <2>1. ASSUME l = "lookup" PROVE Len(Tail(todo[w])) # 0
    <3>1. Len(todo[w]) # 1
      BY <2>1
    <3>2. Len(todo[w]) \in Nat
      BY <1>2, LenProperties
    <3> QED
      BY <1>3, <3>1, <3>2
  <2>2. Len(<<>>) = 0
    OBVIOUS
  <2> QED
    BY <2>1, <2>2, Zenon
<1>7. l \in {"done", "lookup"}
  OBVIOUS
<1> HIDE DEF l
<1>8. InHand'
  BY <1>1, <1>6, <1>7 DEF InHand, WorkerTypes
<1>9. Locked'
  BY <1>1, <1>7 DEF Locked
<1>10. OneTorrentPerHash'
  BY <1>1 DEF OneTorrentPerHash
<1>11. AskedIsMissing'
  BY <1>1, <1>7 DEF AskedIsMissing, WorkerTypes
<1>12. CacheWorkingBalanced'
  BY <1>1, <1>7, Counted
<1> QED
  BY <1>1, <1>5, <1>7, <1>8, <1>9, <1>10, <1>11, <1>12

\* A job ends, with its reply or as missing.
LEMMA EndKeeps ==
  ASSUME CacheInv, NEW w \in Workers, Done(w) \/ Missing(w) PROVE CacheInv'
<1> USE DEF CacheInv
<1>1. /\ pc[w] \in {"done", "missing"} /\ lock = NoWorker
      /\ pc' = [pc EXCEPT ![w] = "idle"]
      /\ working' = working - 1
      /\ job' = [job EXCEPT ![w] = Scrape(<<>>)]
      /\ todo' = [todo EXCEPT ![w] = <<>>] /\ at' = [at EXCEPT ![w] = 0]
      /\ tries' = [tries EXCEPT ![w] = 0]
      /\ report' = [report EXCEPT ![w] = <<>>]
      /\ UNCHANGED <<torrents, lock, jobs>>
  BY DEF Done, Missing, Idle, Goto
<1>2. WorkerTypes'
  <2>1. Scrape(<<>>) \in Jobs
    BY DEF Scrape, Jobs
  <2>2. <<>> \in Seq(Wanted) /\ <<>> \in Reports
    BY DEF Reports
  <2>3. 0 \in 0..MaxTry /\ 0 \in 0..Len(torrents)
    BY CacheAssumption, LenProperties
  <2> QED
    BY <1>1, <2>1, <2>2, <2>3 DEF WorkerTypes
<1>3. InHand'
  BY <1>1 DEF InHand, WorkerTypes
<1>4. Locked'
  BY <1>1 DEF Locked
<1>5. OneTorrentPerHash' /\ AskedIsMissing'
  BY <1>1 DEF OneTorrentPerHash, AskedIsMissing, WorkerTypes
<1>6. CacheWorkingBalanced'
  BY <1>1, Counted
<1>7. working' \in Int
  BY <1>1
<1> QED
  BY <1>1, <1>2, <1>3, <1>4, <1>5, <1>6, <1>7

-----------------------------------------------------------------------------
\* The invariant is inductive.
LEMMA NextKeeps == CacheInv /\ [Next]_vars => CacheInv'
<1> SUFFICES ASSUME CacheInv, [Next]_vars PROVE CacheInv'
  OBVIOUS
<1>1. ASSUME NEW w \in Workers, BeginAnnounce(w) PROVE CacheInv'
  <2>1. PICK j \in Announces, h \in Hashes :
          Begin(w, j, <<[hash |-> h, memory |-> "zero"]>>)
    BY <1>1 DEF BeginAnnounce
  <2> DEFINE s == <<[hash |-> h, memory |-> "zero"]>>
  <2>2. s \in Seq(Wanted) /\ s # <<>>
    BY DEF Wanted
  <2>3. j \in Jobs
    BY DEF Jobs
  <2> HIDE DEF s
  <2> QED
    BY <2>1, <2>2, <2>3, BeginKeeps DEF s
<1>2. ASSUME NEW w \in Workers, BeginScrape(w) PROVE CacheInv'
  <2>1. PICK s \in Scrapes : \E m \in [DOMAIN s -> Memory] :
          Begin(w, Scrape(s),
                [i \in DOMAIN s |-> [hash |-> s[i], memory |-> m[i]]])
    BY <1>2 DEF BeginScrape
  <2>2. PICK m \in [DOMAIN s -> Memory] :
          Begin(w, Scrape(s),
                [i \in DOMAIN s |-> [hash |-> s[i], memory |-> m[i]]])
    BY <2>1
  <2> DEFINE q == [i \in DOMAIN s |-> [hash |-> s[i], memory |-> m[i]]]
  <2>3. s \in Seq(Hashes) /\ s # <<>>
    BY CacheAssumption
  <2>4. Scrape(s) \in Jobs
    BY <2>3 DEF Scrape, Jobs
  <2>5. /\ Len(s) \in Nat /\ Len(s) # 0 /\ DOMAIN s = 1..Len(s)
    BY <2>3, LenProperties, EmptySeq
  <2>6. \A i \in 1..Len(s) : [hash |-> s[i], memory |-> m[i]] \in Wanted
    BY <2>3, <2>5, ElementOfSeq, CacheAssumption DEF Wanted
  <2>7. q \in Seq(Wanted) /\ Len(q) = Len(s)
    BY <2>5, <2>6, SeqDef, LenProperties
  <2>8. q # <<>>
    BY <2>5, <2>7
  <2> HIDE DEF q
  <2> QED
    BY <2>2, <2>4, <2>7, <2>8, BeginKeeps DEF q
<1>3. ASSUME NEW w \in Workers, WorkerNext(w) PROVE CacheInv'
  BY <1>3, SearchKeeps, BusyKeeps, FindsKeeps, SpinKeeps, FailsKeeps,
     AnnounceKeeps, SnapshotKeeps, EndKeeps DEF WorkerNext
<1>4. CASE UNCHANGED vars
  <2>1. WorkerTypes'
    BY <1>4 DEF CacheInv, vars, WorkerTypes
  <2>2. InHand' /\ Locked'
    BY <1>4 DEF CacheInv, vars, InHand, Locked
  <2>3. OneTorrentPerHash' /\ AskedIsMissing' /\ CacheWorkingBalanced'
    BY <1>4 DEF CacheInv, vars, OneTorrentPerHash, AskedIsMissing,
                CacheWorkingBalanced
  <2> QED
    BY <1>4, <2>1, <2>2, <2>3 DEF CacheInv, vars
<1> QED
  BY <1>1, <1>2, <1>3, <1>4 DEF Next

\* CacheInv holds throughout.
THEOREM CacheInvariant == Spec => []CacheInv
<1> QED
  BY InitHolds, NextKeeps, PTL DEF Spec

\* The variables of the cache have their types, and who asks the database, and
\* nobody else, has the mutex of the list.
THEOREM CacheTypes == Spec => []CacheTypeOK
<1>1. CacheInv => CacheTypeOK
  BY DEF CacheInv, WorkerTypes, Locked, CacheTypeOK, Torrents, Jobs, Reports
<1> QED
  BY <1>1, CacheInvariant, PTL

\* torrent_lookup_torrent inserts a torrent once, however many workers look it
\* up, unless a scrape works on used memory.
THEOREM CachedOnce == Spec => []OneTorrentPerHash
<1>1. CacheInv => OneTorrentPerHash
  BY DEF CacheInv
<1> QED
  BY <1>1, CacheInvariant, PTL

\* torrent_list_t.working is the number of workers at work.
THEOREM CacheJobsAreCounted == Spec => []CacheWorkingBalanced
<1>1. CacheInv => CacheWorkingBalanced
  BY DEF CacheInv
<1> QED
  BY <1>1, CacheInvariant, PTL

-----------------------------------------------------------------------------
(* What a lookup finds.                                                    *)

\* Newest, of any list of torrents.
NewestIn(ts, h) == LET known == {i \in DOMAIN ts : ts[i].hash = h}
                   IN  IF known = {} THEN 0
                       ELSE CHOOSE i \in known : \A j \in known : j <= i

\* It is NULL if there is no torrent of that hash, and the last of them if there
\* is.
LEMMA NewestFound ==
  ASSUME NEW ts \in Seq(Torrents), NEW h
  PROVE  \/ /\ NewestIn(ts, h) = 0
            /\ \A i \in DOMAIN ts : ts[i].hash # h
         \/ /\ NewestIn(ts, h) \in DOMAIN ts /\ NewestIn(ts, h) # 0
            /\ ts[NewestIn(ts, h)].hash = h
            /\ \A i \in DOMAIN ts : ts[i].hash = h => i <= NewestIn(ts, h)
<1> DEFINE known == {i \in DOMAIN ts : ts[i].hash = h}
<1>1. Len(ts) \in Nat /\ DOMAIN ts = 1..Len(ts)
  BY LenProperties
<1>2. NewestIn(ts, h) = IF known = {} THEN 0
                        ELSE CHOOSE i \in known : \A j \in known : j <= i
  BY DEF NewestIn
<1>3. CASE known = {}
  BY <1>2, <1>3
<1>4. CASE known # {}
  <2>1. known \subseteq 1..Len(ts)
    BY <1>1
  <2>2. PICK m \in known : \A j \in known : j <= m
    <3> HIDE DEF known
    <3> QED
      BY <1>1, <1>4, <2>1, GreatestExists
  <2>3. /\ NewestIn(ts, h) \in known
        /\ \A j \in known : j <= NewestIn(ts, h)
    <3> HIDE DEF known
    <3> QED
      BY <1>2, <1>4, <2>2
  <2> QED
    BY <1>1, <2>3
<1> QED
  BY <1>3, <1>4

\* A torrent of that hash that none comes after is the one found.
LEMMA NewestIs ==
  ASSUME NEW ts \in Seq(Torrents), NEW h, NEW m \in DOMAIN ts, ts[m].hash = h,
         \A i \in DOMAIN ts : ts[i].hash = h => i <= m
  PROVE  NewestIn(ts, h) = m
<1>1. DOMAIN ts = 1..Len(ts) /\ Len(ts) \in Nat
  BY LenProperties
<1>2. /\ NewestIn(ts, h) \in DOMAIN ts
      /\ NewestIn(ts, h) <= m /\ m <= NewestIn(ts, h)
  BY NewestFound
<1> QED
  BY <1>1, <1>2

\* The torrents stay where they are in the list.
LEMMA TorrentsStay ==
  ASSUME CacheInv, [Next]_vars
  PROVE  /\ DOMAIN torrents \subseteq DOMAIN torrents'
         /\ \A i \in DOMAIN torrents : /\ torrents'[i].hash = torrents[i].hash
                                       /\ torrents'[i].memory = torrents[i].memory
<1>0. torrents \in Seq(Torrents) /\ DOMAIN torrents = 1..Len(torrents) /\ Len(torrents) \in Nat
  BY LenProperties DEF CacheInv
<1>1. ASSUME NEW w \in Workers, QueryFinds(w)
      PROVE  /\ DOMAIN torrents \subseteq DOMAIN torrents'
             /\ \A i \in DOMAIN torrents : torrents'[i] = torrents[i]
  <2>1. PICK t : torrents' = Append(torrents, t)
    BY <1>1 DEF QueryFinds
  <2>2. /\ DOMAIN torrents' = 1..(Len(torrents) + 1)
        /\ \A i \in 1..Len(torrents) : torrents'[i] = torrents[i]
    BY <1>0, <2>1
  <2> QED
    BY <1>0, <2>2
<1>2. ASSUME NEW w \in Workers, UseAnnounce(w)
      PROVE  /\ DOMAIN torrents' = DOMAIN torrents
             /\ \A i \in DOMAIN torrents : /\ torrents'[i].hash = torrents[i].hash
                                           /\ torrents'[i].memory = torrents[i].memory
  <2>1. PICK a, s : torrents' = [torrents EXCEPT ![a].swarm = s]
    BY <1>2 DEF UseAnnounce
  <2>2. \A i \in DOMAIN torrents : torrents[i] \in Torrents
    BY <1>0, ElementOfSeq
  <2> QED
    BY <2>1, <2>2 DEF Torrents
<1>3. \/ torrents' = torrents
      \/ \E w \in Workers : QueryFinds(w) \/ UseAnnounce(w)
  BY DEF Next, WorkerNext, BeginAnnounce, BeginScrape, Begin, Search, QueryBusy,
    QuerySpins, QueryFails, Snapshot, Done, Missing, vars
<1> QED
  BY <1>1, <1>2, <1>3

-----------------------------------------------------------------------------
(* The jobs.                                                               *)

Looking == {"lookup", "query", "spin", "use"}

\* What has been noted is the beginning of what was asked for, the last first,
\* and what is still to be looked up is the rest.
Noted(asked, rep, rest) ==
  /\ Len(asked) = Len(rep) + Len(rest)
  /\ \A i \in 1..Len(rep) : rep[Len(rep) + 1 - i].hash = asked[i]
  /\ \A i \in 1..Len(rest) : rest[i].hash = asked[Len(rep) + i]

\* The job of a worker and how far it has got.
JobRight(w) ==
  /\ pc[w] = "use" => torrents[at[w]].hash = Head(todo[w]).hash
  /\ job[w].type = "announce" /\ pc[w] \in Looking => Head(todo[w]).memory = "zero"
  /\ \A i \in DOMAIN todo[w] : todo[w][i].memory \in Memory \cup {"zero"}
  /\ job[w].type = "scrape" /\ pc[w] \in Looking \cup {"done"}
       => Noted(job[w].asked, report[w], todo[w])
  /\ job[w].type = "scrape" /\ pc[w] = "done" => Len(todo[w]) = 0

JobsRight == \A w \in Workers : JobRight(w)

\* A torrent is noted: the first of what is to be looked up is done.
LEMMA NotedOneMore ==
  ASSUME NEW asked \in Seq(Hashes), NEW rep \in Reports, NEW rest \in Seq(Wanted),
         rest # <<>>, Noted(asked, rep, rest),
         NEW x \in [hash : Hashes, peers : SUBSET Peers], x.hash = Head(rest).hash
  PROVE  Noted(asked, <<x>> \o rep, Tail(rest))
<1> DEFINE n == Len(rep)
           m == Len(rest)
           r == <<x>> \o rep
<1>1. n \in Nat /\ m \in Nat /\ m # 0 /\ Len(asked) = n + m
  BY LenProperties, EmptySeq DEF Reports, Noted
<1>2. Len(r) = n + 1 /\ r[1] = x /\ \A i \in 1..n : r[i + 1] = rep[i]
  <2>1. <<x>> \in Reports /\ Len(<<x>>) = 1 /\ <<x>>[1] = x
    BY DEF Reports
  <2>2. /\ Len(r) = 1 + n
        /\ \A i \in 1..(1 + n) : r[i] = IF i <= 1 THEN <<x>>[i] ELSE rep[i - 1]
    BY <2>1, ConcatProperties DEF Reports
  <2>3. \A i \in 1..n : i + 1 \in 1..(1 + n) /\ ~(i + 1 <= 1) /\ (i + 1) - 1 = i
    BY <1>1
  <2>4. 1 \in 1..(1 + n)
    BY <1>1
  <2> QED
    BY <1>1, <2>1, <2>2, <2>3, <2>4
<1>3. /\ Len(Tail(rest)) = m - 1 /\ Head(rest) = rest[1]
      /\ \A i \in 1..(m - 1) : Tail(rest)[i] = rest[i + 1]
  BY HeadTailProperties
<1> HIDE DEF r, n, m
<1>4. Len(asked) = Len(r) + Len(Tail(rest))
  BY <1>1, <1>2, <1>3
<1>5. ASSUME NEW i \in 1..(n + 1) PROVE r[(n + 1) + 1 - i].hash = asked[i]
  <2>1. CASE i = n + 1
    <3>1. 1 \in 1..m /\ (n + 1) + 1 - i = 1
      BY <1>1, <2>1
    <3>2. rest[1].hash = asked[n + 1]
      BY <3>1 DEF Noted, n, m
    <3> QED
      BY <1>2, <1>3, <2>1, <3>1, <3>2
  <2>2. CASE i # n + 1
    <3>1. i \in 1..n /\ n + 1 - i \in 1..n /\ (n + 1) + 1 - i = (n + 1 - i) + 1
      BY <1>1, <2>2
    <3>2. rep[n + 1 - i].hash = asked[i]
      BY <3>1 DEF Noted, n
    <3> QED
      BY <1>2, <3>1, <3>2
  <2> QED
    BY <2>1, <2>2
<1>6. ASSUME NEW i \in 1..(m - 1) PROVE Tail(rest)[i].hash = asked[(n + 1) + i]
  <2>1. i + 1 \in 1..m /\ n + (i + 1) = (n + 1) + i
    BY <1>1
  <2>2. rest[i + 1].hash = asked[n + (i + 1)]
    BY <2>1 DEF Noted, n, m
  <2> QED
    BY <1>3, <2>1, <2>2
<1> QED
  BY <1>2, <1>3, <1>4, <1>5, <1>6 DEF Noted, r

\* Before the first job.
LEMMA JobsInit == Init => JobsRight
BY DEF Init, JobsRight, JobRight, Looking, Scrape, Noted

\* A job begins with all that was asked for still to be looked up.
LEMMA BeginsRight ==
  ASSUME CacheInv, NEW w \in Workers, BeginAnnounce(w) \/ BeginScrape(w)
  PROVE  JobRight(w)'
<1>0. /\ pc \in [Workers -> {"idle", "lookup", "query", "spin", "use", "done", "missing"}]
      /\ WorkerTypes
  BY DEF CacheInv
<1>1. CASE BeginAnnounce(w)
  <2>1. PICK j \in Announces, h \in Hashes : Begin(w, j, <<[hash |-> h, memory |-> "zero"]>>)
    BY <1>1 DEF BeginAnnounce
  <2>2. /\ pc'[w] = "lookup" /\ job'[w] = j
        /\ todo'[w] = <<[hash |-> h, memory |-> "zero"]>>
    BY <1>0, <2>1 DEF Begin, Goto, WorkerTypes
  <2>3. j.type = "announce"
    BY DEF Announces
  <2>4. /\ Head(todo'[w]).memory = "zero"
        /\ \A i \in DOMAIN todo'[w] : todo'[w][i].memory = "zero"
    BY <2>2
  <2> QED
    BY <2>2, <2>3, <2>4 DEF JobRight
<1>2. CASE BeginScrape(w)
  <2>1. PICK s \in Scrapes : \E m \in [DOMAIN s -> Memory] :
          Begin(w, Scrape(s), [i \in DOMAIN s |-> [hash |-> s[i], memory |-> m[i]]])
    BY <1>2 DEF BeginScrape
  <2>2. PICK m \in [DOMAIN s -> Memory] :
          Begin(w, Scrape(s), [i \in DOMAIN s |-> [hash |-> s[i], memory |-> m[i]]])
    BY <2>1
  <2> DEFINE q == [i \in DOMAIN s |-> [hash |-> s[i], memory |-> m[i]]]
  <2>3. /\ pc'[w] = "lookup" /\ job'[w] = Scrape(s) /\ todo'[w] = q /\ report'[w] = <<>>
    BY <1>0, <2>2 DEF Begin, Goto, WorkerTypes
  <2>4. s \in Seq(Hashes) /\ DOMAIN s = 1..Len(s) /\ Len(s) \in Nat
    BY CacheAssumption, LenProperties
  <2>5. DOMAIN q = 1..Len(s) /\ Len(q) = Len(s)
    <3>1. \A i \in 1..Len(s) : [hash |-> s[i], memory |-> m[i]] \in [hash : Hashes, memory : Memory]
      BY <2>4, ElementOfSeq
    <3>2. q \in Seq([hash : Hashes, memory : Memory]) /\ Len(q) = Len(s)
      BY <2>4, <3>1, SeqDef, LenProperties
    <3> QED
      BY <2>4, <3>2
  <2>6. \A i \in 1..Len(s) : q[i].hash = s[i] /\ q[i].memory \in Memory
    BY <2>4
  <2> HIDE DEF q
  <2>7. Noted(s, <<>>, q)
    BY <2>4, <2>5, <2>6 DEF Noted
  <2>8. job'[w].type = "scrape" /\ job'[w].asked = s
    BY <2>3 DEF Scrape
  <2> QED
    BY <2>3, <2>5, <2>6, <2>7, <2>8 DEF JobRight
<1> QED
  BY <1>1, <1>2

\* What a worker has got from its lookup has the hash it looked up.
LEMMA SearchesRight ==
  ASSUME CacheInv, NEW w \in Workers, JobRight(w), Search(w)
  PROVE  JobRight(w)'
<1> DEFINE e == Head(todo[w])
<1>0. /\ pc \in [Workers -> {"idle", "lookup", "query", "spin", "use", "done", "missing"}]
      /\ WorkerTypes /\ torrents \in Seq(Torrents)
  BY DEF CacheInv
<1>1. /\ pc[w] = "lookup" /\ pc'[w] \in {"use", "query"}
      /\ UNCHANGED <<torrents, job, todo, report>>
      /\ pc'[w] = "use" => at'[w] = Match(e) /\ Match(e) # 0
  BY <1>0 DEF Search, Goto, WorkerTypes
<1>2. Match(e) # 0 => torrents[Match(e)].hash = e.hash
  <2>1. Match(e) # 0 => Match(e) = NewestIn(torrents, e.hash)
    BY DEF Match, Newest, NewestIn
  <2> QED
    BY <1>0, <2>1, NewestFound
<1> QED
  BY <1>1, <1>2 DEF JobRight, Looking

\* A row has the hash that was asked for.
LEMMA FindsRight ==
  ASSUME CacheInv, NEW w \in Workers, JobRight(w), QueryFinds(w)
  PROVE  JobRight(w)'
<1>0. /\ pc \in [Workers -> {"idle", "lookup", "query", "spin", "use", "done", "missing"}]
      /\ WorkerTypes /\ torrents \in Seq(Torrents)
  BY DEF CacheInv
<1> DEFINE t == [hash |-> Head(todo[w]).hash, memory |-> Head(todo[w]).memory, swarm |-> {}]
<1>1. /\ pc[w] = "query" /\ pc'[w] = "use" /\ UNCHANGED <<job, todo, report>>
      /\ torrents' = Append(torrents, t) /\ at'[w] = Len(torrents) + 1
  BY <1>0 DEF QueryFinds, Goto, WorkerTypes
<1>2. torrents'[Len(torrents) + 1] = t
  <2> HIDE DEF t
  <2> QED
    BY <1>0, <1>1
<1> QED
  BY <1>1, <1>2 DEF JobRight, Looking

\* A scrape goes on, with one more noted.
LEMMA SnapshotsRight ==
  ASSUME CacheInv, NEW w \in Workers, JobRight(w), Snapshot(w)
  PROVE  JobRight(w)'
<1>0. /\ pc \in [Workers -> {"idle", "lookup", "query", "spin", "use", "done", "missing"}]
      /\ WorkerTypes /\ torrents \in Seq(Torrents)
  BY DEF CacheInv
<1> DEFINE x == [hash |-> torrents[at[w]].hash, peers |-> torrents[at[w]].swarm]
           q == todo[w]
<1>1. /\ pc[w] = "use" /\ pc'[w] = IF Len(q) = 1 THEN "done" ELSE "lookup"
      /\ todo'[w] = Tail(q) /\ report'[w] = <<x>> \o report[w]
      /\ UNCHANGED <<torrents, job, at>> /\ job[w].type = "scrape"
  BY <1>0 DEF Snapshot, Goto, WorkerTypes
<1>2. q \in Seq(Wanted) /\ q # <<>> /\ report[w] \in Reports
  BY <1>0, <1>1 DEF WorkerTypes, InHand, CacheInv
<1>3. x \in [hash : Hashes, peers : SUBSET Peers]
  <2>1. at[w] \in 1..Len(torrents)
    BY <1>0, <1>1 DEF WorkerTypes, InHand, CacheInv
  <2>2. torrents[at[w]] \in Torrents
    BY <1>0, <2>1, ElementOfSeq
  <2> QED
    BY <2>2 DEF Torrents
<1>4. job[w].asked \in Seq(Hashes)
  BY <1>0, <1>1 DEF WorkerTypes, Jobs, Announces
<1>5. Noted(job[w].asked, report[w], q) /\ x.hash = Head(q).hash
  BY <1>1 DEF JobRight, Looking
<1> HIDE DEF x
<1>6. Noted(job[w].asked, <<x>> \o report[w], Tail(q))
  BY <1>2, <1>3, <1>4, <1>5, NotedOneMore
<1>7. /\ Len(q) \in Nat /\ DOMAIN q = 1..Len(q) /\ Len(q) # 0
      /\ Len(Tail(q)) = Len(q) - 1 /\ DOMAIN Tail(q) = 1..(Len(q) - 1)
      /\ \A i \in 1..(Len(q) - 1) : Tail(q)[i] = q[i + 1]
  <2>1. Tail(q) \in Seq(Wanted) /\ Len(Tail(q)) = Len(q) - 1
    BY <1>2, HeadTailProperties
  <2>2. Len(q) # 0
    BY <1>2, EmptySeq
  <2> QED
    BY <1>2, <2>1, <2>2, HeadTailProperties, LenProperties
<1>8. \A i \in DOMAIN Tail(q) : Tail(q)[i].memory \in Memory \cup {"zero"}
  <2>1. \A i \in 1..(Len(q) - 1) : i + 1 \in DOMAIN q
    BY <1>7
  <2> QED
    BY <1>7, <2>1 DEF JobRight
<1>9. Len(q) = 1 => Len(Tail(q)) = 0
  BY <1>7
<1>10. /\ pc'[w] \in {"done", "lookup"} /\ pc'[w] = "done" => Len(q) = 1
       /\ job'[w] = job[w]
  BY <1>1
<1> QED
  BY <1>1, <1>6, <1>8, <1>9, <1>10 DEF JobRight

\* The other steps of a worker leave its hashes and its notes alone, or end them.
LEMMA OthersRight ==
  ASSUME CacheInv, NEW w \in Workers, JobRight(w),
         QueryBusy(w) \/ QuerySpins(w) \/ QueryFails(w) \/ UseAnnounce(w) \/ Done(w) \/ Missing(w)
  PROVE  JobRight(w)'
<1>0. /\ pc \in [Workers -> {"idle", "lookup", "query", "spin", "use", "done", "missing"}]
      /\ WorkerTypes
  BY DEF CacheInv
<1>1. CASE QueryBusy(w)
  <2>1. UNCHANGED <<torrents, pc, job, todo, at, report>>
    BY <1>1 DEF QueryBusy
  <2> QED
    BY <2>1 DEF JobRight
<1>2. CASE QuerySpins(w) \/ QueryFails(w)
  <2>1. /\ UNCHANGED <<job, todo, report>> /\ pc[w] = "query"
        /\ pc'[w] \in {"spin", "missing"}
    BY <1>0, <1>2 DEF QuerySpins, QueryFails, Goto
  <2> QED
    BY <2>1 DEF JobRight, Looking
<1>3. CASE UseAnnounce(w)
  <2>1. UNCHANGED <<job, todo>> /\ pc'[w] = "done" /\ job[w].type = "announce"
    BY <1>0, <1>3 DEF UseAnnounce, Goto
  <2> QED
    BY <2>1 DEF JobRight, Looking
<1>4. CASE Done(w) \/ Missing(w)
  <2>1. pc'[w] = "idle" /\ todo'[w] = <<>>
    BY <1>0, <1>4 DEF Done, Missing, Idle, Goto, WorkerTypes
  <2> QED
    BY <2>1 DEF JobRight, Looking
<1> QED
  BY <1>1, <1>2, <1>3, <1>4

\* A step of another worker.
LEMMA ElsewhereRight ==
  ASSUME CacheInv, [Next]_vars, NEW w \in Workers, JobRight(w),
         pc'[w] = pc[w], job'[w] = job[w], todo'[w] = todo[w], at'[w] = at[w],
         report'[w] = report[w]
  PROVE  JobRight(w)'
<1>1. pc[w] = "use" => torrents'[at[w]].hash = torrents[at[w]].hash
  <2>1. pc[w] = "use" => at[w] \in DOMAIN torrents
    BY LenProperties DEF CacheInv, WorkerTypes, InHand
  <2> QED
    BY <2>1, TorrentsStay
<1> QED
  BY <1>1 DEF JobRight

\* JobsRight is kept by every step.
LEMMA JobsKept == CacheInv /\ JobsRight /\ [Next]_vars => JobsRight'
<1> SUFFICES ASSUME CacheInv, JobsRight, [Next]_vars, NEW v \in Workers PROVE JobRight(v)'
  BY DEF JobsRight
<1>0. WorkerTypes /\ JobRight(v)
  BY DEF CacheInv, JobsRight
<1>1. CASE UNCHANGED vars
  BY <1>0, <1>1, ElsewhereRight DEF vars
<1>2. ASSUME NEW w \in Workers, BeginAnnounce(w) \/ BeginScrape(w) \/ WorkerNext(w), w # v
      PROVE  JobRight(v)'
  <2> DEFINE Same == /\ pc'[v] = pc[v] /\ job'[v] = job[v] /\ todo'[v] = todo[v]
                     /\ at'[v] = at[v] /\ report'[v] = report[v]
  <2>0. pc \in [Workers -> {"idle", "lookup", "query", "spin", "use", "done", "missing"}]
    BY DEF CacheInv
  <2>1. ASSUME NEW j, NEW hashes, Begin(w, j, hashes) PROVE Same
    BY <1>0, <1>2, <2>0, <2>1 DEF Begin, Goto, WorkerTypes
  <2>2. WorkerNext(w) => Same
    BY <1>0, <1>2, <2>0
    DEF WorkerTypes, WorkerNext, Search, QueryBusy, QueryFinds, QuerySpins, QueryFails,
      UseAnnounce, Snapshot, Done, Missing, Idle, Goto
  <2>3. Same
    BY <1>2, <2>1, <2>2 DEF BeginAnnounce, BeginScrape
  <2> QED
    BY <1>0, <2>3, ElsewhereRight
<1>3. CASE BeginAnnounce(v) \/ BeginScrape(v) \/ WorkerNext(v)
  BY <1>0, <1>3, BeginsRight, SearchesRight, FindsRight, SnapshotsRight, OthersRight
  DEF WorkerNext
<1> QED
  BY <1>1, <1>2, <1>3 DEF Next

\* A scrape that comes to its reply has noted all it has asked for, each as often
\* as asked and in the order asked, whatever was loaded, announced and scraped by
\* others between its lookups.
THEOREM ScrapesAreWhole == Spec => []ScrapeIsWhole
<1>1. CacheInv /\ JobsRight => ScrapeIsWhole
  <2> SUFFICES ASSUME CacheInv, JobsRight, NEW w \in Workers,
                      pc[w] = "done", job[w].type = "scrape"
               PROVE  /\ Len(report[w]) = Len(job[w].asked)
                      /\ \A i \in DOMAIN report[w] :
                           report[w][Len(report[w]) + 1 - i].hash = job[w].asked[i]
    BY DEF ScrapeIsWhole
  <2>1. Noted(job[w].asked, report[w], todo[w]) /\ Len(todo[w]) = 0
    BY DEF JobsRight, JobRight
  <2>2. DOMAIN report[w] = 1..Len(report[w]) /\ Len(report[w]) \in Nat
    BY LenProperties DEF CacheInv, WorkerTypes, Reports
  <2> QED
    BY <2>1, <2>2 DEF Noted
<1> QED
  BY <1>1, InitHolds, NextKeeps, JobsInit, JobsKept, PTL DEF Spec

-----------------------------------------------------------------------------
(* The cache as a registry of swarms.                                      *)

\* The announce of a worker that is still to take effect.
AskedOf(w) == IF job[w].type = "announce" /\ pc[w] \in Looking
                THEN {[hash |-> Head(todo[w]).hash, announce |-> job[w]]}
                ELSE {}

\* What the registry's variables are, before and after a step.
LEMMA RegistryValues ==
  /\ SwarmOf = [h \in Hashes |-> IF NewestIn(torrents, h) = 0 THEN {}
                                 ELSE torrents[NewestIn(torrents, h)].swarm]
  /\ SwarmOf' = [h \in Hashes |-> IF NewestIn(torrents', h) = 0 THEN {}
                                  ELSE torrents'[NewestIn(torrents', h)].swarm]
  /\ Asked = [w \in Workers |-> AskedOf(w)]
  /\ Asked' = [w \in Workers |-> AskedOf(w)']
BY DEF SwarmOf, Newest, NewestIn, Asked, AskedOf, Looking

\* Nobody is in a swarm before the first job.
LEMMA RegistryStarts == Init => RegistrySpec!Init
<1> SUFFICES ASSUME Init PROVE RegistrySpec!Init
  OBVIOUS
<1>1. torrents = <<>> /\ \A w \in Workers : AskedOf(w) = {}
  BY DEF Init, AskedOf, Looking
<1>2. \A h : NewestIn(torrents, h) = 0
  BY <1>1 DEF NewestIn
<1>3. SwarmOf = [h \in Hashes |-> {}] /\ Asked = [w \in Workers |-> {}]
  BY <1>1, <1>2, RegistryValues
<1>4. Reloaded = {}
  BY <1>1 DEF Reloaded
<1> QED
  BY <1>3, <1>4 DEF RegistrySpec!Init

\* A step of the worker w, for the other workers.
LEMMA StepIsOnesOwn ==
  ASSUME CacheInv, NEW w \in Workers, BeginAnnounce(w) \/ BeginScrape(w) \/ WorkerNext(w)
  PROVE  Asked' = [Asked EXCEPT ![w] = AskedOf(w)']
<1>0. /\ pc \in [Workers -> {"idle", "lookup", "query", "spin", "use", "done", "missing"}]
      /\ WorkerTypes
  BY DEF CacheInv
<1> SUFFICES ASSUME NEW v \in Workers, v # w PROVE AskedOf(v)' = AskedOf(v)
  BY RegistryValues
<1> DEFINE Same == pc'[v] = pc[v] /\ job'[v] = job[v] /\ todo'[v] = todo[v]
<1>1. ASSUME NEW j, NEW hashes, Begin(w, j, hashes) PROVE Same
  BY <1>0, <1>1 DEF Begin, Goto, WorkerTypes
<1>2. WorkerNext(w) => Same
  BY <1>0
  DEF WorkerTypes, WorkerNext, Search, QueryBusy, QueryFinds, QuerySpins, QueryFails,
    UseAnnounce, Snapshot, Done, Missing, Idle, Goto
<1>3. Same
  BY <1>1, <1>2 DEF BeginAnnounce, BeginScrape
<1> QED
  BY <1>3 DEF AskedOf

\* A step that leaves the torrents alone and takes no effect.
LEMMA NothingChanges ==
  ASSUME CacheInv, NEW w \in Workers,
         BeginAnnounce(w) \/ BeginScrape(w) \/ WorkerNext(w),
         torrents' = torrents, AskedOf(w)' = AskedOf(w)
  PROVE  UNCHANGED <<SwarmOf, Asked, Reloaded>>
<1>1. Asked' = Asked
  BY StepIsOnesOwn, RegistryValues
<1> QED
  BY <1>1, RegistryValues DEF Reloaded

\* An announce begins.
LEMMA BeginAsks ==
  ASSUME CacheInv, NEW w \in Workers, BeginAnnounce(w)
  PROVE  RegistrySpec!Ask(w)
<1>0. /\ pc \in [Workers -> {"idle", "lookup", "query", "spin", "use", "done", "missing"}]
      /\ WorkerTypes
  BY DEF CacheInv
<1>1. PICK j \in Announces, h \in Hashes : Begin(w, j, <<[hash |-> h, memory |-> "zero"]>>)
  BY DEF BeginAnnounce
<1>2. /\ pc[w] = "idle" /\ pc'[w] = "lookup" /\ job'[w] = j /\ torrents' = torrents
      /\ todo'[w] = <<[hash |-> h, memory |-> "zero"]>>
  BY <1>0, <1>1 DEF Begin, Goto, WorkerTypes
<1>3. AskedOf(w) = {} /\ AskedOf(w)' = {[hash |-> h, announce |-> j]}
  BY <1>2 DEF AskedOf, Looking, Announces
<1>4. Asked[w] = {} /\ Asked' = [Asked EXCEPT ![w] = {[hash |-> h, announce |-> j]}]
  BY <1>3, StepIsOnesOwn, RegistryValues
<1>5. UNCHANGED <<SwarmOf, Reloaded>>
  BY <1>2, RegistryValues DEF Reloaded
<1> QED
  BY <1>4, <1>5 DEF RegistrySpec!Ask

\* A row is inserted: for the first time, or in front of a torrent that was missed.
LEMMA FindsReloads ==
  ASSUME CacheInv, JobsRight, NEW w \in Workers, QueryFinds(w)
  PROVE  \/ UNCHANGED <<SwarmOf, Asked, Reloaded>>
         \/ \E h \in Hashes : RegistrySpec!Reload(h)
<1> DEFINE e == Head(todo[w])
           t == [hash |-> e.hash, memory |-> e.memory, swarm |-> {}]
           n == Len(torrents)
<1>0. /\ pc \in [Workers -> {"idle", "lookup", "query", "spin", "use", "done", "missing"}]
      /\ WorkerTypes /\ torrents \in Seq(Torrents)
  BY DEF CacheInv
<1>1. /\ pc[w] = "query" /\ pc'[w] = "use" /\ UNCHANGED <<job, todo>>
      /\ torrents' = Append(torrents, t)
  BY <1>0 DEF QueryFinds, Goto
<1>2. todo[w] \in Seq(Wanted) /\ todo[w] # <<>>
  BY <1>0, <1>1 DEF CacheInv, WorkerTypes, InHand
<1>3. e \in Wanted /\ e.memory \in Memory \cup {"zero"}
  <2>1. e \in Wanted
    BY <1>2, HeadTailProperties
  <2>2. 1 \in DOMAIN todo[w] /\ e = todo[w][1]
    BY <1>2, LenProperties, EmptySeq, HeadTailProperties
  <2> QED
    BY <2>1, <2>2 DEF JobsRight, JobRight
<1>4. t \in Torrents
  BY <1>3 DEF Wanted, Torrents
<1> HIDE DEF t
<1>5. /\ n \in Nat /\ DOMAIN torrents = 1..n
      /\ torrents' \in Seq(Torrents) /\ DOMAIN torrents' = 1..(n + 1)
      /\ \A i \in 1..n : torrents'[i] = torrents[i]
      /\ torrents'[n + 1] = t
  <2>1. n \in Nat /\ DOMAIN torrents = 1..n
    BY <1>0, LenProperties
  <2>2. /\ Append(torrents, t) \in Seq(Torrents)
        /\ Len(Append(torrents, t)) = n + 1
        /\ \A i \in 1..n : Append(torrents, t)[i] = torrents[i]
        /\ Append(torrents, t)[n + 1] = t
    BY <1>0, <1>4, AppendProperties
  <2>3. DOMAIN torrents' = 1..(n + 1)
    BY <1>1, <2>2, LenProperties
  <2> QED
    BY <1>1, <2>1, <2>2, <2>3
<1> HIDE DEF n
<1>6. e.hash \in Hashes /\ t.hash = e.hash /\ t.memory = e.memory /\ t.swarm = {}
  BY <1>3 DEF t, Wanted
<1>7. Asked' = Asked
  <2>1. AskedOf(w)' = AskedOf(w)
    BY <1>1 DEF AskedOf, Looking
  <2>2. WorkerNext(w)
    BY DEF WorkerNext
  <2> QED
    BY <2>1, <2>2, StepIsOnesOwn, RegistryValues
\* The new torrent is the newest of its hash, and the others stay as they are.
<1>8. NewestIn(torrents', e.hash) = n + 1
  <2>1. n + 1 \in DOMAIN torrents' /\ \A i \in DOMAIN torrents' : i <= n + 1
    BY <1>5
  <2> QED
    BY <1>5, <1>6, <2>1, NewestIs
<1>9. ASSUME NEW h \in Hashes, h # e.hash PROVE SwarmOf'[h] = SwarmOf[h]
  <2> DEFINE k == NewestIn(torrents, h)
             l == NewestIn(torrents', h)
  <2>1. CASE k = 0
    <3>1. \A i \in 1..n : torrents[i].hash # h
      BY <1>0, <1>5, <2>1, NewestFound
    <3>2. \A i \in 1..(n + 1) : torrents'[i].hash # h
      <4>1. \A i \in 1..(n + 1) : i \in 1..n \/ i = n + 1
        BY <1>5
      <4> QED
        BY <1>5, <1>6, <1>9, <3>1, <4>1
    <3>3. l = 0
      BY <1>5, <3>2, NewestFound
    <3> QED
      BY <2>1, <3>3, RegistryValues
  <2>2. CASE k # 0
    <3>1. /\ k \in 1..n /\ torrents[k].hash = h
          /\ \A i \in 1..n : torrents[i].hash = h => i <= k
      BY <1>0, <1>5, <2>2, NewestFound
    <3>2. /\ k \in DOMAIN torrents' /\ torrents'[k] = torrents[k]
          /\ \A i \in DOMAIN torrents' : torrents'[i].hash = h => i <= k
      <4>1. \A i \in 1..(n + 1) : i \in 1..n \/ i = n + 1
        BY <1>5
      <4>2. 1..n \subseteq 1..(n + 1)
        BY <1>5
      <4> QED
        BY <1>5, <1>6, <1>9, <3>1, <4>1, <4>2
    <3>3. l = k
      BY <1>5, <3>1, <3>2, NewestIs
    <3> HIDE DEF k, l
    <3>4. SwarmOf[h] = torrents[k].swarm
      BY <2>2, RegistryValues DEF k
    <3>5. SwarmOf'[h] = torrents'[l].swarm
      BY <2>2, <3>3, RegistryValues DEF l
    <3> QED
      BY <3>2, <3>3, <3>4, <3>5
  <2> QED
    BY <2>1, <2>2
<1>10. SwarmOf'[e.hash] = {}
  <2>1. n + 1 # 0
    BY <1>5
  <2> QED
    BY <1>5, <1>6, <1>8, <2>1, RegistryValues
<1>11. SwarmOf' = [SwarmOf EXCEPT ![e.hash] = {}]
  <2>1. /\ SwarmOf = [h \in Hashes |-> SwarmOf[h]]
        /\ SwarmOf' = [h \in Hashes |-> SwarmOf'[h]]
    BY RegistryValues
  <2> HIDE DEF e
  <2> QED
    BY <1>6, <1>9, <1>10, <2>1
<1>12. Reloaded' = IF e.memory = "used" THEN Reloaded \cup {e.hash} ELSE Reloaded
  <2> DEFINE Loads(ts, h) == \E i \in DOMAIN ts : ts[i].hash = h /\ ts[i].memory = "used"
  <2>1. /\ Reloaded = {h \in Hashes : Loads(torrents, h)}
        /\ Reloaded' = {h \in Hashes : Loads(torrents', h)}
    BY DEF Reloaded
  <2>2. ASSUME NEW h \in Hashes
        PROVE  Loads(torrents', h) <=> Loads(torrents, h) \/ (h = e.hash /\ e.memory = "used")
    <3>1. \A i \in 1..(n + 1) : i \in 1..n \/ i = n + 1
      BY <1>5
    <3>2. 1..n \subseteq 1..(n + 1) /\ n + 1 \in 1..(n + 1)
      BY <1>5
    <3> QED
      BY <1>5, <1>6, <3>1, <3>2
  <2> HIDE DEF Loads, e
  <2> QED
    BY <1>6, <2>1, <2>2
<1>13. CASE e.memory = "used"
  <2>1. "used" \in Memory
    BY <1>3, <1>13
  <2>2. RegistrySpec!Reload(e.hash)
    BY <1>7, <1>11, <1>12, <1>13, <2>1 DEF RegistrySpec!Reload
  <2> QED
    BY <1>6, <2>2
<1>14. CASE e.memory # "used"
  <2>1. e.memory = "zero"
    BY <1>3, <1>14 DEF Wanted
  <2>2. \A i \in DOMAIN torrents : torrents[i].hash # e.hash
    BY <1>1, <2>1 DEF CacheInv, AskedIsMissing
  <2>3. NewestIn(torrents, e.hash) = 0
    BY <1>0, <2>2, NewestFound
  <2>4. SwarmOf[e.hash] = {}
    BY <1>6, <2>3, RegistryValues
  <2>5. SwarmOf' = SwarmOf
    BY <1>11, <2>4, RegistryValues
  <2> QED
    BY <1>7, <1>12, <1>14, <2>5
<1> QED
  BY <1>13, <1>14

\* A query without a result refuses an announce while nobody is in the swarm.
LEMMA FailsRefuses ==
  ASSUME CacheInv, JobsRight, NEW w \in Workers, QueryFails(w)
  PROVE  \/ UNCHANGED <<SwarmOf, Asked, Reloaded>>
         \/ RegistrySpec!Refuse(w)
<1> DEFINE h == Head(todo[w]).hash
<1>0. /\ pc \in [Workers -> {"idle", "lookup", "query", "spin", "use", "done", "missing"}]
      /\ WorkerTypes /\ torrents \in Seq(Torrents)
  BY DEF CacheInv
<1>1. /\ pc[w] = "query" /\ pc'[w] = "missing" /\ UNCHANGED <<torrents, job, todo>>
  BY <1>0 DEF QueryFails, Goto
<1>2. WorkerNext(w)
  BY DEF WorkerNext
<1>3. AskedOf(w)' = {}
  BY <1>1 DEF AskedOf, Looking
<1>4. CASE job[w].type # "announce"
  <2>1. AskedOf(w) = {}
    BY <1>4 DEF AskedOf
  <2> QED
    BY <1>1, <1>2, <1>3, <2>1, NothingChanges
<1>5. CASE job[w].type = "announce"
  <2>1. /\ AskedOf(w) = {[hash |-> h, announce |-> job[w]]}
        /\ Head(todo[w]).memory = "zero"
    BY <1>1, <1>5 DEF AskedOf, Looking, JobsRight, JobRight
  <2>2. \A i \in DOMAIN torrents : torrents[i].hash # h
    BY <1>1, <2>1 DEF CacheInv, AskedIsMissing
  <2>3. NewestIn(torrents, h) = 0
    BY <1>0, <2>2, NewestFound
  <2>4. h \in Hashes
    <3>1. todo[w] \in Seq(Wanted) /\ todo[w] # <<>>
      BY <1>0, <1>1 DEF CacheInv, WorkerTypes, InHand
    <3>2. Head(todo[w]) \in Wanted
      BY <3>1, HeadTailProperties
    <3> QED
      BY <3>2 DEF Wanted
  <2>5. SwarmOf[h] = {}
    BY <2>3, <2>4, RegistryValues
  <2>6. Asked' = [Asked EXCEPT ![w] = {}] /\ UNCHANGED <<SwarmOf, Reloaded>>
    BY <1>1, <1>2, <1>3, StepIsOnesOwn, RegistryValues DEF Reloaded
  <2>7. Asked[w] = {[hash |-> h, announce |-> job[w]]}
    BY <2>1, RegistryValues
  <2> QED
    BY <2>5, <2>6, <2>7 DEF RegistrySpec!Refuse, RegistrySpec!Ends
<1> QED
  BY <1>4, <1>5

\* An announce takes effect on the swarm of its hash, unless that was lost.
LEMMA AnnounceApplies ==
  ASSUME CacheInv, JobsRight, NEW w \in Workers, UseAnnounce(w)
  PROVE  RegistrySpec!Apply(w) \/ RegistrySpec!Lose(w)
<1> DEFINE h == Head(todo[w]).hash
           a == at[w]
           s == After(job[w], torrents[a].swarm)
           x == [hash |-> h, announce |-> job[w]]
<1>0. /\ pc \in [Workers -> {"idle", "lookup", "query", "spin", "use", "done", "missing"}]
      /\ WorkerTypes /\ torrents \in Seq(Torrents)
  BY DEF CacheInv
<1>1. /\ pc[w] = "use" /\ pc'[w] = "done" /\ UNCHANGED <<job, todo>>
      /\ job[w].type = "announce"
      /\ torrents' = [torrents EXCEPT ![a].swarm = s]
  BY <1>0 DEF UseAnnounce, Goto
<1>2. /\ Len(torrents) \in Nat /\ DOMAIN torrents = 1..Len(torrents)
      /\ a \in DOMAIN torrents /\ a # 0 /\ torrents[a].hash = h
      /\ h \in Hashes
  <2>1. Len(torrents) \in Nat /\ DOMAIN torrents = 1..Len(torrents)
    BY <1>0, LenProperties
  <2>2. a \in 1..Len(torrents) /\ a # 0
    BY <1>0, <1>1, <2>1 DEF CacheInv, WorkerTypes, InHand
  <2>3. torrents[a].hash = h
    BY <1>1 DEF JobsRight, JobRight
  <2>4. torrents[a] \in Torrents
    BY <1>0, <2>2, ElementOfSeq
  <2> QED
    BY <2>1, <2>2, <2>3, <2>4 DEF Torrents
<1>3. torrents' \in Seq(Torrents)
  <2>1. WorkerNext(w)
    BY DEF WorkerNext
  <2> QED
    BY <2>1, NextKeeps DEF Next, CacheInv
<1>4. /\ DOMAIN torrents' = DOMAIN torrents
      /\ \A i \in DOMAIN torrents : /\ torrents'[i].hash = torrents[i].hash
                                    /\ torrents'[i].memory = torrents[i].memory
                                    /\ i # a => torrents'[i].swarm = torrents[i].swarm
      /\ torrents'[a].swarm = s
  <2>1. \A i \in DOMAIN torrents : torrents[i] \in Torrents
    BY <1>0, ElementOfSeq
  <2> HIDE DEF s
  <2> QED
    BY <1>1, <1>2, <2>1 DEF Torrents
<1>5. ASSUME NEW g \in Hashes PROVE NewestIn(torrents', g) = NewestIn(torrents, g)
  <2>1. CASE NewestIn(torrents, g) = 0
    <3>1. \A i \in DOMAIN torrents' : torrents'[i].hash # g
      BY <1>0, <1>4, <2>1, NewestFound
    <3> QED
      BY <1>3, <2>1, <3>1, NewestFound
  <2>2. CASE NewestIn(torrents, g) # 0
    <3> DEFINE k == NewestIn(torrents, g)
    <3>1. /\ k \in DOMAIN torrents /\ torrents[k].hash = g
          /\ \A i \in DOMAIN torrents : torrents[i].hash = g => i <= k
      BY <1>0, <2>2, NewestFound
    <3>2. /\ k \in DOMAIN torrents' /\ torrents'[k].hash = g
          /\ \A i \in DOMAIN torrents' : torrents'[i].hash = g => i <= k
      BY <1>4, <3>1
    <3> QED
      BY <1>3, <3>2, NewestIs
  <2> QED
    BY <2>1, <2>2
<1>6. Reloaded' = Reloaded
  BY <1>4 DEF Reloaded
<1>7. Asked[w] = {x} /\ Asked' = [Asked EXCEPT ![w] = {}]
  <2>1. AskedOf(w) = {x} /\ AskedOf(w)' = {}
    BY <1>1 DEF AskedOf, Looking
  <2>2. WorkerNext(w)
    BY DEF WorkerNext
  <2> QED
    BY <2>1, <2>2, StepIsOnesOwn, RegistryValues
<1>8. x.hash = h /\ x.announce = job[w]
  OBVIOUS
<1> HIDE DEF x, s, h, a
<1>9. CASE NewestIn(torrents, h) = a
  <2>1. ASSUME NEW g \in Hashes, g # h PROVE SwarmOf'[g] = SwarmOf[g]
    <3>1. CASE NewestIn(torrents, g) = 0
      BY <1>5, <3>1, RegistryValues
    <3>2. CASE NewestIn(torrents, g) # 0
      <4>1. /\ NewestIn(torrents, g) \in DOMAIN torrents
            /\ torrents[NewestIn(torrents, g)].hash = g
        BY <1>0, <3>2, NewestFound
      <4>2. NewestIn(torrents, g) # a
        BY <1>2, <2>1, <4>1
      <4> QED
        BY <1>4, <1>5, <3>2, <4>1, <4>2, RegistryValues
    <3> QED
      BY <3>1, <3>2
  <2>2. SwarmOf[h] = torrents[a].swarm /\ SwarmOf'[h] = s
    BY <1>2, <1>4, <1>5, <1>9, RegistryValues
  <2>3. SwarmOf' = [SwarmOf EXCEPT ![h] = After(job[w], @)]
    BY <2>1, <2>2, RegistryValues DEF s
  <2> QED
    BY <1>6, <1>7, <1>8, <2>3 DEF RegistrySpec!Apply, RegistrySpec!Ends
<1>10. CASE NewestIn(torrents, h) # a
  <2> DEFINE k == NewestIn(torrents, h)
  <2>1. k \in DOMAIN torrents /\ torrents[k].hash = h /\ a <= k
    BY <1>0, <1>2, NewestFound
  <2>2. a < k
    BY <1>2, <1>10, <2>1
  <2>3. h \in Reloaded
    <3>1. torrents[k].memory = "used"
      BY <1>2, <2>1, <2>2 DEF CacheInv, OneTorrentPerHash
    <3> QED
      BY <1>2, <2>1, <3>1 DEF Reloaded
  <2> HIDE DEF k
  <2>4. ASSUME NEW g \in Hashes PROVE SwarmOf'[g] = SwarmOf[g]
    <3>1. CASE NewestIn(torrents, g) = 0
      BY <1>5, <3>1, RegistryValues
    <3>2. CASE NewestIn(torrents, g) # 0
      <4>1. /\ NewestIn(torrents, g) \in DOMAIN torrents
            /\ torrents[NewestIn(torrents, g)].hash = g
        BY <1>0, <3>2, NewestFound
      <4>2. NewestIn(torrents, g) # a
        BY <1>2, <1>10, <4>1
      <4> QED
        BY <1>4, <1>5, <3>2, <4>1, <4>2, RegistryValues
    <3> QED
      BY <3>1, <3>2
  <2>5. SwarmOf' = SwarmOf
    BY <2>4, RegistryValues
  <2> QED
    BY <1>6, <1>7, <1>8, <2>3, <2>5 DEF RegistrySpec!Lose, RegistrySpec!Ends
<1> QED
  BY <1>9, <1>10

\* The other steps are within a request.
LEMMA OthersStutter ==
  ASSUME CacheInv, JobsRight, NEW w \in Workers,
         \/ BeginScrape(w) \/ Search(w) \/ QueryBusy(w) \/ QuerySpins(w)
         \/ Snapshot(w) \/ Done(w) \/ Missing(w)
  PROVE  UNCHANGED <<SwarmOf, Asked, Reloaded>>
<1>0. /\ pc \in [Workers -> {"idle", "lookup", "query", "spin", "use", "done", "missing"}]
      /\ WorkerTypes
  BY DEF CacheInv
<1>1. torrents' = torrents /\ AskedOf(w)' = AskedOf(w)
  <2>1. CASE BeginScrape(w)
    <3>1. PICK s, q : Begin(w, Scrape(s), q)
      BY <2>1 DEF BeginScrape
    <3>2. torrents' = torrents /\ pc[w] = "idle" /\ job'[w].type = "scrape"
      BY <1>0, <3>1 DEF Begin, Scrape, WorkerTypes
    <3> QED
      BY <3>2 DEF AskedOf, Looking
  <2>2. CASE Search(w) \/ QueryBusy(w) \/ QuerySpins(w)
    <3>1. /\ UNCHANGED <<torrents, job, todo>>
          /\ pc[w] \in Looking /\ pc'[w] \in Looking
      BY <1>0, <2>2 DEF Search, QueryBusy, QuerySpins, Goto, Looking
    <3> QED
      BY <3>1 DEF AskedOf
  <2>3. CASE Snapshot(w)
    <3>1. UNCHANGED <<torrents, job>> /\ job[w].type = "scrape"
      BY <2>3 DEF Snapshot
    <3> QED
      BY <3>1 DEF AskedOf
  <2>4. CASE Done(w) \/ Missing(w)
    <3>1. /\ torrents' = torrents /\ pc[w] \in {"done", "missing"} /\ pc'[w] = "idle"
      BY <1>0, <2>4 DEF Done, Missing, Idle, Goto
    <3> QED
      BY <3>1 DEF AskedOf, Looking
  <2> QED
    BY <2>1, <2>2, <2>3, <2>4
<1> QED
  BY <1>1, NothingChanges DEF WorkerNext

\* The cache, with its loads, failed queries and scrapes, keeps one swarm for each
\* hash, on which each announce takes effect once, or is refused while nobody is
\* in it: for any number of workers and torrents. Only a scrape that works on used
\* memory loses a swarm, and then as a whole.
THEOREM CacheImplementsRegistry == Spec => ImplementsRegistry
<1>1. ASSUME CacheInv, JobsRight, [Next]_vars
      PROVE  [RegistrySpec!Next]_<<SwarmOf, Asked, Reloaded>>
  <2>1. CASE UNCHANGED vars
    <3>1. UNCHANGED <<SwarmOf, Asked, Reloaded>>
      BY <2>1 DEF vars, SwarmOf, Newest, Asked, Reloaded
    <3> QED
      BY <3>1
  <2>2. CASE \E w \in Workers : BeginAnnounce(w) \/ BeginScrape(w) \/ WorkerNext(w)
    <3>1. PICK w \in Workers : BeginAnnounce(w) \/ BeginScrape(w) \/ WorkerNext(w)
      BY <2>2
    <3>2. \/ RegistrySpec!Ask(w) \/ RegistrySpec!Apply(w) \/ RegistrySpec!Lose(w)
          \/ RegistrySpec!Refuse(w)
          \/ \E h \in Hashes : RegistrySpec!Reload(h)
          \/ UNCHANGED <<SwarmOf, Asked, Reloaded>>
      BY <1>1, <3>1, BeginAsks, FindsReloads, FailsRefuses, AnnounceApplies, OthersStutter
      DEF WorkerNext
    <3> QED
      BY <3>2 DEF RegistrySpec!Next
  <2> QED
    BY <1>1, <2>1, <2>2 DEF Next
<1> QED
  BY <1>1, InitHolds, NextKeeps, JobsInit, JobsKept, RegistryStarts, PTL
  DEF Spec, ImplementsRegistry, RegistrySpec!Spec
=============================================================================
