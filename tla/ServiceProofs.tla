---------------------------- MODULE ServiceProofs ----------------------------
(***************************************************************************)
(* Proofs about what the clients of the tracker see, and about the buffers *)
(* their requests and replies are in, for any number of clients, threads   *)
(* and signals and any size of the pools.                                  *)
(***************************************************************************)
EXTENDS ServerProofs

-----------------------------------------------------------------------------
(* Every thread_data in service has a client of its own.                   *)

\* The client the main thread has accepted and has no thread_data for yet.
Accepted(c) == pc[Main] = "getTd" /\ local[Main].client = c

ClientsInv ==
  /\ \A e \in InService : field[e].client \in Clients /\ conn[field[e].client] = "open"
  /\ \A e, f \in InService : field[e].client = field[f].client => e = f
  /\ pc[Main] = "getTd" => /\ local[Main].client \in Clients
                           /\ conn[local[Main].client] = "open"
                           /\ \A e \in InService : field[e].client # local[Main].client
  /\ \A c \in Clients : conn[c] = "open" =>
       Accepted(c) \/ \E e \in InService : field[e].client = c

\* The main thread comes to ask for a thread_data by an accept, and leaves with
\* one.
LEMMA MainAtGetTd ==
  ASSUME Base, [Next]_vars, ~Accept, ~GetTd
  PROVE  /\ pc'[Main] = "getTd" <=> pc[Main] = "getTd"
         /\ pc[Main] = "getTd" => local'[Main] = local[Main]
<1>0. ThreadTypes /\ Main \in Threads
  BY ThreadsDistinct DEF Base
<1>1. CASE MainNext
  BY <1>0, <1>1
  DEF ThreadTypes, MainNext, Peek, PollTimeout, GetTdBlocks, EnqueueTd,
    WakeupTd, Check, StopReq, StopReqWakeup, StopWorker, StopWorkerWakeup, Goto, At
<1>2. ASSUME NEW t \in Others, Respond(t)
      PROVE  pc'[Main] = pc[Main] /\ local'[Main] = local[Main]
  BY <1>0, <1>2, ThreadsDistinct
  DEF ThreadTypes, Respond, GetResponse, Write, JoinResponse, JoinBuffer, Close,
    JoinTd, GetBufferBlocks, Goto
<1>3. ASSUME NEW t \in Reqs, ReqNext(t)
      PROVE  pc'[Main] = pc[Main] /\ local'[Main] = local[Main]
  BY <1>0, <1>3, ThreadsDistinct
  DEF ThreadTypes, ReqNext, ReqSleeps, ReqStops, GetB, ReadFails, ReadBadQuery, ReqTakes,
    EnqueueJob, ReadRequest, GetError, JoinError, JoinB, GetOut, JoinBServed, WakeupJob,
    GetBuffer, JoinBuffer, Goto
<1>4. ASSUME NEW t \in Workers, WorkerNext(t)
      PROVE  pc'[Main] = pc[Main] /\ local'[Main] = local[Main]
  BY <1>0, <1>4, ThreadsDistinct
  DEF ThreadTypes, WorkerNext, WorkerSleeps, WorkerTakes, Process, JoinOut, JoinBuffer, Goto
<1>5. CASE (\E c \in Clients : Arrive(c)) \/ Signal \/ SpuriousWakeup \/ UNCHANGED vars
  BY <1>0, <1>5 DEF ThreadTypes, Arrive, Signal, SpuriousWakeup, vars, Goto
<1> QED
  BY <1>1, <1>2, <1>3, <1>4, <1>5 DEF Next, Others

\* A connection is opened by an accept, closed by a close, and nothing else
\* happens to an open one.
LEMMA OpenChanges ==
  ASSUME Base, [Next]_vars
  PROVE  \/ \E c \in Clients : /\ Accept /\ local' = [local EXCEPT ![Main].client = c]
                               /\ conn[c] = "backlog" /\ conn' = [conn EXCEPT ![c] = "open"]
         \/ \E t \in Others : Close(t)
         \/ /\ ~Accept /\ \A t \in Others : ~Close(t)
            /\ \A c \in Clients : conn'[c] = "open" <=> conn[c] = "open"
<1>0. conn \in [Clients -> {"away", "backlog", "refused", "open", "closed"}]
  BY DEF Base, DataTypes
<1>1. CASE Accept
  BY <1>1 DEF Accept, Backlog
<1>2. Check => \A c \in Clients : conn'[c] = "open" <=> conn[c] = "open"
  BY <1>0 DEF Check, Backlog
<1>3. (\E c \in Clients : Arrive(c)) => \A c \in Clients : conn'[c] = "open" <=> conn[c] = "open"
  BY <1>0 DEF Arrive
<1> QED
  BY <1>1, <1>2, <1>3, WhoChanges

\* An accept opens a connection of the backlog and changes nothing else.
LEMMA AcceptOpens ==
  ASSUME Base, NEW c \in Clients, Accept,
         local' = [local EXCEPT ![Main].client = c]
  PROVE  /\ pc[Main] # "getTd" /\ pc'[Main] = "getTd" /\ local'[Main].client = c
         /\ UNCHANGED <<field, reply>>
<1>0. ThreadTypes /\ Main \in Threads
  BY ThreadsDistinct DEF Base
<1> QED
  BY <1>0 DEF Accept, At, Goto, dataVars, ThreadTypes, LocalsOf

\* A thread_data in service is not written to.
LEMMA FieldsStay ==
  ASSUME Base, TdInv, [Next]_vars, NEW e \in InService
  PROVE  field'[e] = field[e]
<1>0. field \in [Td \cup {StopTd} -> Fields]
  BY DEF Base, DataTypes
<1>1. CASE GetTd
  <2>1. PICK f \in Td : /\ f = local'[Main].td
                        /\ field' = [field EXCEPT ![f] = [client |-> local[Main].client,
                                                          sq |-> TRUE, bp |-> TRUE]]
    BY <1>1, GetTdGets
  <2>2. f \notin InService
    BY <1>1, <2>1, GetTdStarts DEF ServiceStarts
  <2> QED
    BY <1>0, <2>1, <2>2
<1>2. ASSUME NEW t \in Workers, JoinOut(t) PROVE field'[e] = field[e]
  <2>1. /\ field' = [field EXCEPT ![local[t].td].sq = FALSE]
        /\ local[t].td \in Td \ InService
    BY <1>2, JoinOutClears
  <2> QED
    BY <1>0, <2>1
<1> QED
  BY <1>1, <1>2, WhoChanges

\* Clients are kept apart, and open as long as they are in service.
LEMMA ClientsKept ==
  ASSUME Base, TdInv, ClientsInv, [Next]_vars
  PROVE  ClientsInv'
<1>0. /\ \A e \in InService : field[e].client \in Clients /\ conn[field[e].client] = "open"
      /\ \A e, f \in InService : field[e].client = field[f].client => e = f
      /\ pc[Main] = "getTd" => /\ local[Main].client \in Clients
                               /\ conn[local[Main].client] = "open"
                               /\ \A e \in InService : field[e].client # local[Main].client
      /\ \A c \in Clients : conn[c] = "open" =>
           \/ pc[Main] = "getTd" /\ local[Main].client = c
           \/ \E e \in InService : field[e].client = c
  BY DEF ClientsInv, Accepted
<1>a. /\ field \in [Td \cup {StopTd} -> Fields] /\ ThreadTypes
      /\ conn \in [Clients -> {"away", "backlog", "refused", "open", "closed"}]
  BY DEF Base, DataTypes
<1>1. CASE GetTd
  <2>1. PICK e \in Td : /\ e = local'[Main].td
                        /\ field' = [field EXCEPT ![e] = [client |-> local[Main].client,
                                                          sq |-> TRUE, bp |-> TRUE]]
    BY <1>1, GetTdGets
  <2>2. pc[Main] = "getTd" /\ pc'[Main] = "enqueueTd"
    BY <1>1, GetTdGets
  <2>3. InService' = InService \cup {e} /\ e \notin InService
    BY <1>1, <2>1, GetTdStarts DEF ServiceStarts
  <2>4. conn' = conn
    BY <1>1 DEF GetTd, clientVars
  <2>5. field'[e].client = local[Main].client /\ \A f : f # e => field'[f] = field[f]
    BY <1>a, <2>1
  <2> HIDE DEF Td
  <2>6. \A f \in InService' : field'[f].client \in Clients /\ conn'[field'[f].client] = "open"
    BY <1>0, <2>2, <2>3, <2>4, <2>5
  <2>7. \A f, g \in InService' : field'[f].client = field'[g].client => f = g
    BY <1>0, <2>2, <2>3, <2>5
  <2>8. \A c \in Clients : conn'[c] = "open" => \E f \in InService' : field'[f].client = c
    BY <1>0, <2>2, <2>3, <2>4, <2>5
  <2> QED
    BY <2>2, <2>6, <2>7, <2>8 DEF ClientsInv, Accepted
<1>2. ASSUME NEW t \in Others, Close(t) PROVE ClientsInv'
  <2> DEFINE e == local[t].td
  <2>1. e \in InService /\ InService' = InService \ {e}
    BY <1>2, CloseEnds DEF ServiceEnds
  <2>2. /\ conn' = [conn EXCEPT ![field[e].client] = "closed"]
        /\ field' = field /\ local' = local
    BY <1>2 DEF Close, ClientOf, dataVars
  <2>3. pc'[Main] = pc[Main]
    BY <1>2, <1>a, ThreadsDistinct DEF Close, Goto, ThreadTypes
  <2> HIDE DEF e
  <2>4. /\ conn'[field[e].client] = "closed"
        /\ \A c \in Clients \ {field[e].client} : conn'[c] = conn[c]
    BY <1>0, <1>a, <2>1, <2>2
  <2>5. \A f \in InService' : field'[f].client \in Clients /\ conn'[field'[f].client] = "open"
    BY <1>0, <2>1, <2>2, <2>4
  <2>6. \A f, g \in InService' : field'[f].client = field'[g].client => f = g
    BY <1>0, <2>1, <2>2
  <2>7. pc'[Main] = "getTd" => /\ local'[Main].client \in Clients
                               /\ conn'[local'[Main].client] = "open"
                               /\ \A f \in InService' : field'[f].client # local'[Main].client
    BY <1>0, <2>1, <2>2, <2>3, <2>4
  <2>8. \A c \in Clients : conn'[c] = "open" =>
           \/ pc'[Main] = "getTd" /\ local'[Main].client = c
           \/ \E f \in InService' : field'[f].client = c
    BY <1>0, <2>1, <2>2, <2>3, <2>4
  <2> QED
    BY <2>5, <2>6, <2>7, <2>8 DEF ClientsInv, Accepted
<1>3. ASSUME NEW c \in Clients, Accept, local' = [local EXCEPT ![Main].client = c],
             conn[c] = "backlog", conn' = [conn EXCEPT ![c] = "open"]
      PROVE  ClientsInv'
  <2>1. /\ pc[Main] # "getTd" /\ pc'[Main] = "getTd" /\ local'[Main].client = c
        /\ field' = field
    BY <1>3, AcceptOpens
  <2>2. InService' = InService
    <3>1. ~GetTd
      BY <2>1 DEF GetTd, At
    <3>2. \A t \in Others : ~Close(t)
      BY <1>a, <2>1, ThreadsDistinct DEF Close, Goto, ThreadTypes
    <3> QED
      BY <3>1, <3>2, ServiceSteps DEF ServiceStarts, ServiceEnds, ServiceKept
  <2>3. conn'[c] = "open" /\ \A d \in Clients \ {c} : conn'[d] = conn[d]
    BY <1>a, <1>3
  <2>4. \A e \in InService : field[e].client # c
    BY <1>0, <1>3
  <2> QED
    BY <1>0, <2>1, <2>2, <2>3, <2>4 DEF ClientsInv, Accepted
<1>4. ASSUME ~GetTd, ~Accept, \A t \in Others : ~Close(t),
             \A c \in Clients : conn'[c] = "open" <=> conn[c] = "open"
      PROVE  ClientsInv'
  <2>1. InService' = InService
    BY <1>4, ServiceSteps DEF ServiceStarts, ServiceEnds, ServiceKept
  <2>2. \A e \in InService : field'[e] = field[e]
    BY FieldsStay
  <2>3. /\ pc'[Main] = "getTd" <=> pc[Main] = "getTd"
        /\ pc[Main] = "getTd" => local'[Main] = local[Main]
    BY <1>4, MainAtGetTd
  <2>4. \A e \in InService' : field'[e].client \in Clients /\ conn'[field'[e].client] = "open"
    BY <1>0, <1>4, <2>1, <2>2
  <2>5. \A e, f \in InService' : field'[e].client = field'[f].client => e = f
    BY <1>0, <2>1, <2>2
  <2>6. pc'[Main] = "getTd" => /\ local'[Main].client \in Clients
                               /\ conn'[local'[Main].client] = "open"
                               /\ \A e \in InService' : field'[e].client # local'[Main].client
    BY <1>0, <1>4, <2>1, <2>2, <2>3
  <2>7. \A c \in Clients : conn'[c] = "open" =>
           \/ pc'[Main] = "getTd" /\ local'[Main].client = c
           \/ \E e \in InService' : field'[e].client = c
    BY <1>0, <1>4, <2>1, <2>2, <2>3
  <2> QED
    BY <2>4, <2>5, <2>6, <2>7 DEF ClientsInv, Accepted
<1> QED
  BY <1>1, <1>2, <1>3, <1>4, OpenChanges

\* At the start there are no connections.
LEMMA ClientsInit == Init => ClientsInv
<1> SUFFICES ASSUME Init PROVE ClientsInv
  OBVIOUS
<1>1. InService = {}
  BY TdInitial, ServingOwners DEF InService
<1>2. pc[Main] = "peek" /\ \A c \in Clients : conn[c] = "away"
  BY ThreadsDistinct DEF Init
<1> QED
  BY <1>1, <1>2 DEF ClientsInv, Accepted

\* What a thread that talks to a client knows of its thread_data.
LEMMA TalkersServe ==
  ASSUME Base, TdInv, NEW t \in Talking
  PROVE  /\ t \in Others /\ t \in Threads /\ t \in Owners /\ t \in Serving
         /\ TdHeld[t] = {local[t].td} /\ local[t].td \in InService /\ local[t].td \in Td
<1>1. t \in Others /\ t \in Threads /\ t \in Owners /\ t \in Serving
  BY ThreadsDistinct DEF Talking, Others, Owners, Serving
<1>2. Locals(t) /\ local[t].td \in Td \cup {0}
  BY <1>1 DEF Base, Control, ThreadTypes, LocalsOf
<1>3. local[t].td # 0 /\ pc[t] \notin NotOwner
  BY <1>2 DEF Talking, Locals, WithTd, NotOwner
<1>4. TdHeld[t] = {local[t].td}
  BY <1>1, <1>3, TdHeldValues DEF TdOwn
<1> QED
  BY <1>1, <1>2, <1>3, <1>4 DEF InService

\* Threads that talk to clients talk to different ones.
LEMMA TalkersApart ==
  ASSUME Base, TdInv, ClientsInv
  PROVE  OwnClient
<1>1. ASSUME NEW t \in Talking
      PROVE  ClientOf(t) # NoClient /\ conn[ClientOf(t)] = "open"
  BY <1>1, TalkersServe, ServerAssumption DEF ClientsInv, ClientOf
<1>2. ASSUME NEW t \in Talking, NEW u \in Talking, t # u
      PROVE  ClientOf(t) # ClientOf(u)
  <2>1. local[t].td # local[u].td
    BY <1>2, TalkersServe, TdOwners DEF TdInv
  <2> QED
    BY <2>1, TalkersServe DEF ClientsInv, ClientOf
<1> QED
  BY <1>1, <1>2 DEF OwnClient

\* A thread that reads from, writes to or closes a connection finds it open,
\* and no other thread talks to that client: td_pool_get_td never hands a
\* thread_data out whose connection is not closed, for any number of clients
\* and threads.
THEOREM OwnClientHolds == Spec => []OwnClient
<1>1. Init => Base /\ TdInv /\ ClientsInv
  BY BaseInit, TdInvInit, ClientsInit
<1>2. Base /\ TdInv /\ ClientsInv /\ [Next]_vars => (Base /\ TdInv /\ ClientsInv)'
  BY BaseNext, TdInvNext, ClientsKept
<1>3. Base /\ TdInv /\ ClientsInv => OwnClient
  BY TalkersApart
<1> QED
  BY <1>1, <1>2, <1>3, PTL DEF Spec

-----------------------------------------------------------------------------
(* Who owns which buffer: the pool of buffers as PoolUse has it.           *)

BufOwners == Threads \cup {"wq"}

BufP == INSTANCE PoolProofs
  WITH Threads <- BufOwners, MaxHold <- MaxBuf + 1, MaxNum <- MaxBuf, Amp <- BufAmp,
       num <- bufNum, inuse <- bufInuse, busy <- bufBusy, waiting <- bufWaiting,
       woken <- bufWoken, held <- BufHeld, failed <- {}

BufOwn(t) == {local[t].b, local[t].body, local[t].resp} \ {0}

\* No thread knows a buffer by two names, and no two jobs share one.
NamesApart(t) == /\ local[t].b # 0 => local[t].b \notin {local[t].body, local[t].resp}
                 /\ local[t].body # 0 => local[t].body # local[t].resp
OutsInjective == \A i, j \in DOMAIN wq : wq[i].out = wq[j].out /\ wq[i].out # 0 => i = j

BufInv == BufP!PoolInv /\ OutsInjective /\ \A t \in Threads : NamesApart(t)

\* BufHeld is a function on the owners, before and after a step.
LEMMA BufHeldFunction == /\ BufHeld = [h \in BufOwners |-> BufHeld[h]]
                         /\ BufHeld' = [h \in BufOwners |-> BufHeld'[h]]
BY DEF BufHeld, BufOwners

\* BufHeld, owner by owner.
LEMMA BufHeldValues ==
  /\ BufHeld["wq"] = {j.out : j \in ItemsOf(wq)} \ {0}
  /\ \A t \in Threads : BufHeld[t] = BufOwn(t)
  /\ "wq" \notin Threads
BY OwnersAssumption DEF BufHeld, BufOwn, BufOwners

\* The same after a step.
LEMMA BufHeldValuesNext ==
  /\ BufHeld'["wq"] = {j.out : j \in ItemsOf(wq')} \ {0}
  /\ \A t \in Threads : BufHeld'[t] = BufOwn(t)'
BY OwnersAssumption DEF BufHeld, BufOwn, BufOwners

\* The instance counts as this module does.
LEMMA BufCounts ==
  /\ \A S : BufP!Cardinality(S) = Cardinality(S)
  /\ \A S : BufP!IsFiniteSet(S) <=> IsFiniteSet(S)
BY DEF BufP!Cardinality, Cardinality, BufP!IsFiniteSet, IsFiniteSet

\* The threads are finitely many.
LEMMA ThreadsFiniteToo == IsFiniteSet(Others) /\ IsFiniteSet(Threads) /\ IsFiniteSet(BufOwners)
<1>1. IsFiniteSet(Reqs \cup Workers)
  BY ServerAssumption, FS_Union
<1>2. IsFiniteSet((Reqs \cup Workers) \cup {Main})
  BY <1>1, FS_AddElement
<1>3. IsFiniteSet(((Reqs \cup Workers) \cup {Main}) \cup {"wq"})
  BY <1>2, FS_AddElement
<1>4. /\ Others = Reqs \cup Workers /\ Threads = (Reqs \cup Workers) \cup {Main}
      /\ BufOwners = ((Reqs \cup Workers) \cup {Main}) \cup {"wq"}
  BY DEF Others, BufOwners, Threads
<1> QED
  BY <1>1, <1>2, <1>3, <1>4

\* What PoolProofs assumes holds of the server's pool of buffers.
LEMMA BufAssumptions == BufP!PoolAssumption /\ BufP!UseAssumption
<1>1. MaxBuf + 1 \in Nat \ {0}
  BY SizesAssumption
<1> QED
  BY <1>1, ThreadsFiniteToo, BufCounts, SizesAssumption
  DEF BufP!PoolAssumption, BufP!UseAssumption

\* What the invariant of the pool says of its owners.
LEMMA BufOwnersApart ==
  ASSUME BufP!PoolInv
  PROVE  /\ \A h, g \in BufOwners : h # g => BufHeld[h] \cap BufHeld[g] = {}
         /\ \A h \in BufOwners : BufHeld[h] \subseteq Buffer /\ BufHeld[h] \subseteq bufBusy
         /\ bufBusy = UNION {BufHeld[h] : h \in BufOwners}
BY DEF BufP!PoolInv, BufP!PTypeOK, BufP!StatusMatchesHolders, BufP!Entry, Buffer

\* Nobody has more buffers than there are.
LEMMA BufRoom ==
  ASSUME BufP!PoolInv, NEW h \in BufOwners
  PROVE  BufP!Cardinality(BufHeld[h]) < MaxBuf + 1
<1>1. BufHeld[h] \subseteq Buffer
  BY BufOwnersApart
<1>2. IsFiniteSet(Buffer) /\ Cardinality(Buffer) = MaxBuf /\ MaxBuf \in Nat
  <2>1. MaxBuf \in Nat /\ MaxBuf >= 1
    BY SizesAssumption
  <2>2. IsFiniteSet(1..MaxBuf) /\ Cardinality(1..MaxBuf) = MaxBuf
    BY <2>1, FS_Interval
  <2> QED
    BY <2>1, <2>2 DEF Buffer
<1>3. Cardinality(BufHeld[h]) <= MaxBuf /\ Cardinality(BufHeld[h]) \in Nat
  BY <1>1, <1>2, FS_Subset, FS_CardinalityType
<1> QED
  BY <1>2, <1>3, BufCounts

\* The pool's operations are those the server calls.
LEMMA BufOperations ==
  ASSUME NEW t, NEW e
  PROVE  /\ BufP!Grant(t, e) <=> BufPool!Grant(t, e)
         /\ BufP!Block(t) <=> BufPool!Block(t)
         /\ BufP!Join(e) <=> BufPool!Join(e)
         /\ BufP!SpuriousWakeup <=> BufPool!SpuriousWakeup
         /\ BufPool!Grant(t, e) /\ e # 0 => e \in (1..BufP!Populated) \ bufBusy
BY DEF BufP!Grant, BufPool!Grant, BufP!Block, BufPool!Block, BufP!Join, BufPool!Join,
  BufP!SpuriousWakeup, BufPool!SpuriousWakeup, BufP!MustWait, BufPool!MustWait,
  BufP!Exhausted, BufPool!Exhausted, BufP!Found, BufPool!Found, BufP!Free, BufPool!Free,
  BufP!Populated, BufPool!Populated, BufP!Null, BufPool!Null,
  BufP!Cond!Proceed, BufPool!Cond!Proceed, BufP!Cond!Wait, BufPool!Cond!Wait,
  BufP!Cond!Signal, BufPool!Cond!Signal, BufP!Cond!Awaken, BufPool!Cond!Awaken,
  BufP!Cond!SpuriousWakeup, BufPool!Cond!SpuriousWakeup

\* BufHeld after a step of t that leaves the work queue alone.
LEMMA BufChangedAt ==
  ASSUME NEW t \in Threads, NEW n, wq' = wq, BufOwn(t)' = n,
         \A u \in Threads \ {t} : SameBufs(u)
  PROVE  BufHeld' = [BufHeld EXCEPT ![t] = n]
<1>1. \A u \in Threads \ {t} : BufHeld'[u] = BufHeld[u]
  <2>1. \A u \in Threads \ {t} : BufOwn(u)' = BufOwn(u)
    BY DEF SameBufs, BufOwn
  <2> QED
    BY <2>1, BufHeldValues, BufHeldValuesNext
<1>2. BufHeld'["wq"] = BufHeld["wq"] /\ BufHeld'[t] = n
  BY BufHeldValues, BufHeldValuesNext
<1>3. \A u \in BufOwners \ {t} : BufHeld'[u] = BufHeld[u]
  BY <1>1, <1>2 DEF BufOwners
<1>4. t \in BufOwners
  BY DEF BufOwners
<1> QED
  BY <1>2, <1>3, <1>4, BufHeldFunction

\* A thread takes a buffer.
LEMMA BufTakesGets ==
  ASSUME Base, BufInv, NEW t \in Others, NEW k \in Buffer, NEW v \in {"b", "body", "resp"},
         BufTakes(t, v, k), wq' = wq
  PROVE  /\ BufP!Get(t) /\ k \notin bufBusy
         /\ NamesApart(t)' /\ \A u \in Threads \ {t} : SameBufs(u)
         /\ BufHeld' = [BufHeld EXCEPT ![t] = @ \cup {k}]
<1>0. ThreadTypes /\ t \in Threads /\ t \in BufOwners /\ k # 0
  BY ThreadsDistinct DEF Base, BufOwners
<1>1. BufPool!Grant(t, k) /\ local[t][v] = 0 /\ local' = [local EXCEPT ![t][v] = k]
  BY DEF BufTakes
<1>2. BufP!Grant(t, k) /\ k \in (1..BufP!Populated) \ bufBusy
  BY <1>0, <1>1, BufOperations
<1>3. local'[t] = [local[t] EXCEPT ![v] = k] /\ local[t] \in LocalsOf
  BY <1>0, <1>1 DEF ThreadTypes
<1>4. \A u \in Threads \ {t} : SameBufs(u)
  BY <1>0, <1>1 DEF ThreadTypes, SameBufs
<1>5. BufOwn(t)' = BufOwn(t) \cup {k}
  BY <1>0, <1>1, <1>3 DEF BufOwn, LocalsOf
<1>6. BufHeld[t] = BufOwn(t) /\ BufOwn(t) \subseteq bufBusy
  BY <1>0, BufHeldValues, BufOwnersApart DEF BufInv
<1>7. BufHeld' = [BufHeld EXCEPT ![t] = @ \cup {k}]
  BY <1>0, <1>4, <1>5, <1>6, BufChangedAt
<1>8. NamesApart(t)'
  <2>1. NamesApart(t) /\ k \notin BufOwn(t)
    BY <1>0, <1>2, <1>6 DEF BufInv
  <2> QED
    BY <1>0, <1>1, <1>3, <2>1 DEF NamesApart, BufOwn, LocalsOf
<1>9. BufP!Cardinality(BufHeld[t]) < MaxBuf + 1
  BY <1>0, BufRoom DEF BufInv
<1>10. BufP!Get(t)
  BY <1>0, <1>2, <1>7, <1>9 DEF BufP!Get, BufP!Null
<1> QED
  BY <1>2, <1>4, <1>7, <1>8, <1>10

\* A thread gives a buffer back.
LEMMA BufGivesReturns ==
  ASSUME Base, BufInv, NEW t \in Others, NEW v \in {"b", "body", "resp"},
         BufGives(t, v), wq' = wq
  PROVE  /\ BufP!Return(t)
         /\ NamesApart(t)' /\ \A u \in Threads \ {t} : SameBufs(u)
         /\ local[t][v] \in BufHeld[t]
         /\ BufHeld' = [BufHeld EXCEPT ![t] = @ \ {local[t][v]}]
<1> DEFINE k == local[t][v]
<1>0. ThreadTypes /\ t \in Threads /\ t \in BufOwners /\ Waiters
  BY ThreadsDistinct DEF Base, BufOwners, Control
<1>1. /\ BufPool!Join(k) /\ k # 0 /\ pc[t] \notin GetsBuffer
      /\ local' = [local EXCEPT ![t][v] = 0]
  BY DEF BufGives, JoinBuffer
<1>2. BufP!Join(k)
  BY <1>1, BufOperations
<1>3. local'[t] = [local[t] EXCEPT ![v] = 0] /\ local[t] \in LocalsOf
  BY <1>0, <1>1 DEF ThreadTypes
<1>4. \A u \in Threads \ {t} : SameBufs(u)
  BY <1>0, <1>1 DEF ThreadTypes, SameBufs
<1>5. NamesApart(t)
  BY <1>0 DEF BufInv
<1>6. BufOwn(t)' = BufOwn(t) \ {k} /\ k \in BufOwn(t)
  BY <1>1, <1>3, <1>5 DEF BufOwn, LocalsOf, NamesApart
<1>7. BufHeld[t] = BufOwn(t)
  BY <1>0, BufHeldValues
<1> HIDE DEF k
<1>8. BufHeld' = [BufHeld EXCEPT ![t] = @ \ {k}]
  BY <1>0, <1>4, <1>6, <1>7, BufChangedAt
<1>9. NamesApart(t)'
  BY <1>3, <1>5 DEF NamesApart, LocalsOf
<1>10. t \notin bufWaiting \cup bufWoken
  BY <1>0, <1>1 DEF Waiters
<1>11. BufP!Return(t)
  BY <1>2, <1>6, <1>7, <1>8, <1>10 DEF BufP!Return
<1> QED
  BY <1>4, <1>6, <1>7, <1>8, <1>9, <1>11 DEF k

\* A buffer passes from an owner to another.
BufMoved(h, g, k) ==
  /\ h # g /\ k \in BufHeld[h]
  /\ {h, g} \cap (bufWaiting \cup bufWoken) = {}
  /\ UNCHANGED bufPoolVars
  /\ BufHeld' = [BufHeld EXCEPT ![h] = @ \ {k}, ![g] = @ \cup {k}]

\* A request thread's body becomes the out buffer of a job.
LEMMA EnqueueJobHands ==
  ASSUME Base, BufInv, NEW t \in Reqs, EnqueueJob(t)
  PROVE  /\ BufMoved(t, "wq", local[t].body)
         /\ wq' = Append(wq, [td |-> local[t].td, out |-> local[t].body])
         /\ local[t].body \notin BufHeld["wq"] /\ local[t].body # 0
         /\ NamesApart(t)' /\ \A u \in Threads \ {t} : SameBufs(u)
<1> DEFINE k == local[t].body
           j == [td |-> local[t].td, out |-> k]
<1>0. /\ ThreadTypes /\ Locals(t) /\ Waiters /\ wq \in Seq(Job)
      /\ t \in Threads /\ t \in BufOwners /\ "wq" \in BufOwners
  BY ThreadsDistinct DEF Base, Control, DataTypes, BufOwners
<1>1. /\ pc[t] = "enqueueJob" /\ wq' = Append(wq, j)
      /\ local' = [local EXCEPT ![t].body = 0] /\ UNCHANGED bufPoolVars
  BY DEF EnqueueJob, At, WorkQ!Enqueue
<1>2. k # 0 /\ j \in Job /\ j.out = k
  BY <1>0, <1>1 DEF ThreadTypes, LocalsOf, Locals, WithBody, Job, StopTd
<1>3. local'[t] = [local[t] EXCEPT !.body = 0] /\ local[t] \in LocalsOf
  BY <1>0, <1>1 DEF ThreadTypes
<1>4. \A u \in Threads \ {t} : SameBufs(u)
  BY <1>0, <1>1 DEF SameBufs, ThreadTypes
<1>5. NamesApart(t)
  BY <1>0 DEF BufInv
<1>6. BufOwn(t)' = BufOwn(t) \ {k} /\ k \in BufOwn(t)
  BY <1>2, <1>3, <1>5 DEF BufOwn, LocalsOf, NamesApart
<1>7. NamesApart(t)'
  BY <1>3, <1>5 DEF NamesApart, LocalsOf
<1>8. ItemsOf(wq') = ItemsOf(wq) \cup {j}
  BY <1>0, <1>1, <1>2, ItemsOfAppend
<1> HIDE DEF j, k
<1>9. BufHeld'["wq"] = BufHeld["wq"] \cup {k}
  BY <1>2, <1>8, BufHeldValues, BufHeldValuesNext
<1>10. BufHeld[t] = BufOwn(t) /\ BufHeld'[t] = BufOwn(t)' /\ t # "wq"
  BY <1>0, BufHeldValues, BufHeldValuesNext
<1>11. \A u \in BufOwners \ {t, "wq"} : BufHeld'[u] = BufHeld[u]
  <2>1. \A u \in Threads \ {t} : BufOwn(u)' = BufOwn(u)
    BY <1>4 DEF SameBufs, BufOwn
  <2>2. \A u \in Threads \ {t} : BufHeld'[u] = BufHeld[u]
    BY <2>1, BufHeldValues, BufHeldValuesNext
  <2> QED
    BY <2>2 DEF BufOwners
<1>12. BufHeld' = [BufHeld EXCEPT ![t] = @ \ {k}, !["wq"] = @ \cup {k}]
  BY <1>0, <1>6, <1>9, <1>10, <1>11, BufHeldFunction
<1>13. {t, "wq"} \cap (bufWaiting \cup bufWoken) = {}
  BY <1>0, <1>1, BufHeldValues, ThreadsDistinct DEF Waiters, GetsBuffer
<1>14. k \notin BufHeld["wq"]
  BY <1>0, <1>6, <1>10, BufOwnersApart DEF BufInv
<1> QED
  BY <1>1, <1>2, <1>4, <1>6, <1>7, <1>10, <1>12, <1>13, <1>14 DEF BufMoved, j, k

\* The out buffer of a job becomes the body of a worker.
LEMMA WorkerTakesHanded ==
  ASSUME Base, TdInv, BufInv, NEW t \in Workers, WorkerTakes(t)
  PROVE  /\ wq # <<>> /\ wq' = Tail(wq)
         /\ NamesApart(t)' /\ \A u \in Threads \ {t} : SameBufs(u)
         /\ local'[t].body = Head(wq).out /\ UNCHANGED bufPoolVars
         /\ BufMoved("wq", t, Head(wq).out) \/ UNCHANGED BufHeld
<1> DEFINE j == Head(wq)
           k == j.out
<1>0. /\ ThreadTypes /\ Locals(t) /\ Waiters /\ wq \in Seq(Job) /\ JobsNamed
      /\ t \in Threads /\ t \in BufOwners /\ "wq" \in BufOwners
  BY ThreadsDistinct DEF Base, Control, DataTypes, BufOwners
<1>1. /\ pc[t] = "dequeue" /\ wq # <<>> /\ wq' = Tail(wq)
      /\ local' = [local EXCEPT ![t].td = j.td, ![t].body = k]
      /\ UNCHANGED bufPoolVars
  BY DEF WorkerTakes, At, WorkQ!Take
<1>2. /\ ItemsOf(wq) = {j} \cup ItemsOf(wq')
      /\ j = wq[1] /\ 1 \in DOMAIN wq
      /\ \A i \in DOMAIN wq' : i + 1 \in DOMAIN wq /\ wq'[i] = wq[i + 1] /\ i \in Nat /\ i # 0
  BY <1>0, <1>1, ItemsOfTail
<1>3. k # 0 => k \notin {i.out : i \in ItemsOf(wq')}
  <2> SUFFICES ASSUME k # 0, NEW i \in DOMAIN wq', wq'[i].out = k PROVE FALSE
    BY DEF ItemsOf
  <2>1. wq[i + 1].out = wq[1].out /\ i + 1 \in DOMAIN wq /\ wq[1].out # 0 /\ i + 1 # 1
    BY <1>2
  <2> QED
    BY <1>2, <2>1 DEF BufInv, OutsInjective
<1>4. local'[t] = [local[t] EXCEPT !.td = j.td, !.body = k] /\ local[t] \in LocalsOf
  BY <1>0, <1>1 DEF ThreadTypes
<1>5. local[t].b = 0 /\ local[t].body = 0 /\ local[t].resp = 0
  BY <1>0, <1>1 DEF Locals, WithB, WithBody, WithResp
<1>6. \A u \in Threads \ {t} : SameBufs(u)
  BY <1>0, <1>1 DEF SameBufs, ThreadTypes
<1> HIDE DEF j, k
<1>7. BufOwn(t) = {} /\ BufOwn(t)' = {k} \ {0} /\ local'[t].body = k /\ NamesApart(t)'
  BY <1>4, <1>5 DEF BufOwn, LocalsOf, NamesApart
<1>8. {i.out : i \in ItemsOf(wq)} = {k} \cup {i.out : i \in ItemsOf(wq')}
  BY <1>2 DEF k
<1>9. /\ BufHeld[t] = {} /\ BufHeld'[t] = {k} \ {0} /\ t # "wq"
      /\ BufHeld'["wq"] = BufHeld["wq"] \ {k}
      /\ k # 0 => k \in BufHeld["wq"]
  <2>1. BufHeld[t] = {} /\ BufHeld'[t] = {k} \ {0} /\ t # "wq"
    BY <1>0, <1>7, BufHeldValues, BufHeldValuesNext
  <2>2. BufHeld'["wq"] = BufHeld["wq"] \ {k}
    BY <1>3, <1>8, BufHeldValues, BufHeldValuesNext
  <2>3. k # 0 => k \in BufHeld["wq"]
    BY <1>8, BufHeldValues
  <2> QED
    BY <2>1, <2>2, <2>3
<1>10. \A u \in BufOwners \ {t, "wq"} : BufHeld'[u] = BufHeld[u]
  <2>1. \A u \in Threads \ {t} : BufOwn(u)' = BufOwn(u)
    BY <1>6 DEF SameBufs, BufOwn
  <2>2. \A u \in Threads \ {t} : BufHeld'[u] = BufHeld[u]
    BY <2>1, BufHeldValues, BufHeldValuesNext
  <2> QED
    BY <2>2 DEF BufOwners
<1>11. CASE k = 0
  <2>1. 0 \notin BufHeld["wq"]
    BY BufHeldValues
  <2>2. BufHeld'["wq"] = BufHeld["wq"] /\ BufHeld'[t] = BufHeld[t]
    BY <1>9, <1>11, <2>1
  <2>3. \A u \in BufOwners : BufHeld'[u] = BufHeld[u]
    BY <1>10, <2>2
  <2>4. BufHeld' = BufHeld
    BY <2>3, BufHeldFunction
  <2> QED
    BY <1>1, <1>6, <1>7, <2>4 DEF k, j
<1>12. CASE k # 0
  <2>1. BufHeld' = [BufHeld EXCEPT !["wq"] = @ \ {k}, ![t] = @ \cup {k}]
    BY <1>0, <1>9, <1>10, <1>12, BufHeldFunction
  <2>2. {"wq", t} \cap (bufWaiting \cup bufWoken) = {}
    BY <1>0, <1>1, BufHeldValues, ThreadsDistinct DEF Waiters, GetsBuffer
  <2>3. BufMoved("wq", t, k)
    BY <1>1, <1>9, <1>12, <2>1, <2>2 DEF BufMoved
  <2> QED
    BY <1>1, <1>6, <1>7, <2>3 DEF k, j
<1> QED
  BY <1>11, <1>12

\* A buffer that is passed on is handed over.
LEMMA BufHandover ==
  ASSUME BufInv, NEW h \in BufOwners, NEW g \in BufOwners, NEW k, BufMoved(h, g, k)
  PROVE  BufP!PNext
<1>1. BufP!Cardinality(BufHeld[g]) < MaxBuf + 1
  BY BufRoom DEF BufInv
<1>2. BufP!Handover(h, g)
  BY <1>1 DEF BufMoved, BufP!Handover, BufP!poolVars, bufPoolVars
<1> QED
  BY <1>2 DEF BufP!PNext

\* No buffer is in a stop job.
LEMMA BufKept ==
  ASSUME Base, [Next]_vars, \A t \in Threads : SameBufs(t),
         \A t \in Reqs : ~EnqueueJob(t), \A t \in Workers : ~WorkerTakes(t)
  PROVE  BufHeld' = BufHeld
<1>0. wq \in Seq(Job)
  BY DEF Base, DataTypes
<1>1. BufHeld'["wq"] = BufHeld["wq"]
  <2>1. CASE StopWorker
    <3>1. wq' = Append(wq, StopJob) /\ StopJob \in Job /\ StopJob.out = 0
      BY <2>1 DEF StopWorker, WorkQ!Enqueue, StopJob, Job, StopTd
    <3>2. ItemsOf(wq') = ItemsOf(wq) \cup {StopJob}
      BY <1>0, <3>1, ItemsOfAppend
    <3> QED
      BY <3>1, <3>2, BufHeldValues, BufHeldValuesNext
  <2>2. CASE UNCHANGED wq
    BY <2>2, BufHeldValues, BufHeldValuesNext
  <2> QED
    BY <2>1, <2>2, WhoChanges
<1>2. \A t \in Threads : BufHeld'[t] = BufHeld[t]
  <2>1. \A t \in Threads : BufOwn(t)' = BufOwn(t)
    BY DEF SameBufs, BufOwn
  <2> QED
    BY <2>1, BufHeldValues, BufHeldValuesNext
<1>3. \A h \in BufOwners : BufHeld'[h] = BufHeld[h]
  BY <1>1, <1>2 DEF BufOwners
<1> QED
  BY <1>3, BufHeldFunction

\* Every step of the server is a step of the pool's users, or none.
LEMMA BufSteps ==
  ASSUME Base, TdInv, BufInv, [Next]_vars
  PROVE  [BufP!PNext]_(BufP!vars)
<1>0. \A t \in Threads : t \in BufOwners
  BY DEF BufOwners
<1>1. ASSUME NEW t \in Others, BufStep(t), wq' = wq
      PROVE  [BufP!PNext]_(BufP!vars)
  <2>0. t \in BufOwners /\ t \in Threads
    BY <1>0, ThreadsDistinct
  <2>1. ASSUME NEW k \in Buffer, NEW v \in {"b", "body", "resp"}, BufTakes(t, v, k)
        PROVE  BufP!PNext
    BY <1>1, <2>0, <2>1, BufTakesGets DEF BufP!PNext
  <2>2. ASSUME NEW v \in {"b", "body", "resp"}, BufGives(t, v)
        PROVE  BufP!PNext
    BY <1>1, <2>0, <2>2, BufGivesReturns DEF BufP!PNext
  <2>3. CASE GetBufferBlocks(t)
    <3>1. BufP!Block(t) /\ local' = local
      BY <2>3, BufOperations DEF GetBufferBlocks
    <3>2. BufOwn(t)' = BufOwn(t) /\ \A u \in Threads \ {t} : SameBufs(u)
      BY <3>1 DEF BufOwn, SameBufs
    <3>3. BufHeld' = [BufHeld EXCEPT ![t] = BufHeld[t]]
      BY <1>1, <2>0, <3>2, BufChangedAt, BufHeldValues
    <3>4. BufHeld' = BufHeld
      BY <3>3, BufHeldFunction
    <3>5. BufP!GetBlocks(t)
      BY <2>0, <3>1, <3>4, BufRoom DEF BufP!GetBlocks, BufInv
    <3> QED
      BY <2>0, <3>5 DEF BufP!PNext
  <2> QED
    BY <1>1, <2>1, <2>2, <2>3 DEF BufStep
<1>2. ASSUME NEW t \in Reqs, EnqueueJob(t) PROVE [BufP!PNext]_(BufP!vars)
  <2>1. t \in BufOwners /\ "wq" \in BufOwners
    BY ThreadsDistinct DEF BufOwners
  <2> QED
    BY <1>2, <2>1, EnqueueJobHands, BufHandover
<1>3. ASSUME NEW t \in Workers, WorkerTakes(t) PROVE [BufP!PNext]_(BufP!vars)
  <2>1. t \in BufOwners /\ "wq" \in BufOwners
    BY ThreadsDistinct DEF BufOwners
  <2>2. CASE BufMoved("wq", t, Head(wq).out)
    BY <2>1, <2>2, BufHandover
  <2>3. CASE UNCHANGED <<BufHeld, bufPoolVars>>
    BY <2>3 DEF BufP!vars, BufP!poolVars, bufPoolVars
  <2> QED
    BY <1>3, <2>2, <2>3, WorkerTakesHanded
<1>4. ASSUME UNCHANGED bufPoolVars, \A t \in Threads : SameBufs(t)
      PROVE  [BufP!PNext]_(BufP!vars)
  <2>1. ASSUME \A t \in Reqs : ~EnqueueJob(t), \A t \in Workers : ~WorkerTakes(t)
        PROVE  BufHeld' = BufHeld
    BY <1>4, <2>1, BufKept
  <2> QED
    BY <1>2, <1>3, <1>4, <2>1 DEF BufP!vars, BufP!poolVars, bufPoolVars
<1>5. ASSUME BufPool!SpuriousWakeup, UNCHANGED <<local, wq>>
      PROVE  [BufP!PNext]_(BufP!vars)
  <2>1. BufHeld' = BufHeld
    <3>1. \A t \in Threads : BufHeld'[t] = BufHeld[t]
      <4>1. \A t \in Threads : BufOwn(t)' = BufOwn(t)
        BY <1>5 DEF BufOwn
      <4> QED
        BY <4>1, BufHeldValues, BufHeldValuesNext
    <3>2. BufHeld'["wq"] = BufHeld["wq"]
      BY <1>5, BufHeldValues, BufHeldValuesNext
    <3>3. \A h \in BufOwners : BufHeld'[h] = BufHeld[h]
      BY <3>1, <3>2 DEF BufOwners
    <3> QED
      BY <3>3, BufHeldFunction
  <2> QED
    BY <1>5, <2>1, BufOperations DEF BufP!Spurious, BufP!PNext
<1> QED
  BY <1>1, <1>2, <1>3, <1>4, <1>5, BufferSteps

\* No thread gets to know a buffer by two names.
LEMMA NamesKept ==
  ASSUME Base, TdInv, BufInv, [Next]_vars, NEW u \in Threads
  PROVE  NamesApart(u)'
<1>0. NamesApart(u) /\ \A t \in Others : t \in Threads
  BY ThreadsDistinct DEF BufInv
<1>1. SameBufs(u) => NamesApart(u)'
  BY <1>0 DEF SameBufs, NamesApart
<1>2. ASSUME NEW t \in Others, BufStep(t), wq' = wq PROVE NamesApart(u)'
  <2>1. ASSUME NEW k \in Buffer, NEW v \in {"b", "body", "resp"}, BufTakes(t, v, k)
        PROVE  NamesApart(u)'
    BY <1>0, <1>1, <1>2, <2>1, BufTakesGets
  <2>2. ASSUME NEW v \in {"b", "body", "resp"}, BufGives(t, v) PROVE NamesApart(u)'
    BY <1>0, <1>1, <1>2, <2>2, BufGivesReturns
  <2>3. CASE GetBufferBlocks(t)
    BY <1>1, <2>3 DEF GetBufferBlocks, SameBufs
  <2> QED
    BY <1>2, <2>1, <2>2, <2>3 DEF BufStep
<1>3. ASSUME NEW t \in Reqs, EnqueueJob(t) PROVE NamesApart(u)'
  BY <1>1, <1>3, EnqueueJobHands
<1>4. ASSUME NEW t \in Workers, WorkerTakes(t) PROVE NamesApart(u)'
  BY <1>1, <1>4, WorkerTakesHanded
<1>5. UNCHANGED local => SameBufs(u)
  BY DEF SameBufs
<1> QED
  BY <1>1, <1>2, <1>3, <1>4, <1>5, BufferSteps

\* The work queue gets no buffer it has already.
LEMMA OutsKept ==
  ASSUME Base, BufInv, [Next]_vars
  PROVE  OutsInjective'
<1>0. /\ wq \in Seq(Job)
      /\ \A i, j \in DOMAIN wq : wq[i].out = wq[j].out /\ wq[i].out # 0 => i = j
  BY DEF Base, DataTypes, BufInv, OutsInjective
<1>1. ASSUME NEW x \in Job, wq' = Append(wq, x),
             x.out # 0 => \A k \in DOMAIN wq : wq[k].out # x.out,
             NEW i \in DOMAIN wq', NEW j \in DOMAIN wq',
             wq'[i].out = wq'[j].out, wq'[i].out # 0
      PROVE  i = j
  <2>1. Len(wq) \in Nat /\ DOMAIN wq = 1..Len(wq)
    BY <1>0, LenProperties
  <2>2. /\ \A k \in 1..Len(wq) : wq'[k] = wq[k]
        /\ wq'[Len(wq) + 1] = x
        /\ DOMAIN wq' = 1..(Len(wq) + 1)
    BY <1>0, <1>1, AppendProperties, LenProperties
  <2>3. \A k \in DOMAIN wq' : k = Len(wq) + 1 \/ (k \in DOMAIN wq /\ wq'[k] = wq[k])
    BY <2>1, <2>2
  <2> QED
    BY <1>0, <1>1, <2>2, <2>3
<1>2. CASE StopWorker
  <2>1. wq' = Append(wq, StopJob) /\ StopJob \in Job /\ StopJob.out = 0
    BY <1>2 DEF StopWorker, WorkQ!Enqueue, StopJob, Job, StopTd
  <2> QED
    BY <1>1, <2>1 DEF OutsInjective
<1>3. ASSUME NEW t \in Reqs, EnqueueJob(t) PROVE OutsInjective'
  <2> DEFINE x == [td |-> local[t].td, out |-> local[t].body]
  <2>1. wq' = Append(wq, x) /\ local[t].body \notin BufHeld["wq"] /\ local[t].body # 0
    BY <1>3, EnqueueJobHands
  <2>2. x \in Job /\ x.out = local[t].body
    BY ThreadsDistinct DEF Base, ThreadTypes, LocalsOf, Job, StopTd
  <2>3. \A k \in DOMAIN wq : wq[k].out # local[t].body
    BY <2>1, BufHeldValues DEF ItemsOf
  <2> HIDE DEF x
  <2> QED
    BY <1>1, <2>1, <2>2, <2>3 DEF OutsInjective
<1>4. CASE \E t \in Workers : WorkerTakes(t)
  <2>1. wq # <<>> /\ wq' = Tail(wq)
    BY <1>4 DEF WorkerTakes, WorkQ!Take
  <2>2. \A i \in DOMAIN wq' : i + 1 \in DOMAIN wq /\ wq'[i] = wq[i + 1] /\ i \in Int
    BY <1>0, <2>1, ItemsOfTail
  <2>3. \A i, j \in DOMAIN wq' : i + 1 = j + 1 => i = j
    BY <2>2
  <2> QED
    BY <1>0, <2>2, <2>3 DEF OutsInjective
<1>5. CASE UNCHANGED wq
  BY <1>0, <1>5 DEF OutsInjective
<1> QED
  BY <1>2, <1>3, <1>4, <1>5, WhoChanges

\* The invariant of the buffers holds at the start.
LEMMA BufInit == Init => BufInv /\ BufP!PInit
<1> SUFFICES ASSUME Init PROVE BufInv /\ BufP!PInit
  OBVIOUS
<1>0. wq = <<>> /\ \A t \in Threads : local[t] = Idle
  BY TdInitial DEF Init
<1>1. \A h \in BufOwners : BufHeld[h] = {}
  <2>1. \A t \in Threads : BufHeld[t] = {}
    BY <1>0, BufHeldValues DEF BufOwn, Idle
  <2>2. BufHeld["wq"] = {}
    BY <1>0, BufHeldValues DEF ItemsOf
  <2> QED
    BY <2>1, <2>2 DEF BufOwners
<1>2. BufHeld = [h \in BufOwners |-> {}]
  BY <1>1, BufHeldFunction
<1>3. BufP!PInit
  BY <1>2 DEF Init, BufP!PInit, BufP!Init, BufPool!Init, BufP!Cond!Init, BufPool!Cond!Init
<1>4. BufP!PoolInv
  BY <1>3, BufP!InitInv, BufAssumptions
<1>5. OutsInjective /\ \A t \in Threads : NamesApart(t)
  BY <1>0 DEF OutsInjective, NamesApart, Idle
<1> QED
  BY <1>3, <1>4, <1>5 DEF BufInv

\* Every step keeps it.
LEMMA BufInvNext == Base /\ TdInv /\ BufInv /\ [Next]_vars => BufInv'
<1> SUFFICES ASSUME Base, TdInv, BufInv, [Next]_vars PROVE BufInv'
  OBVIOUS
<1>1. BufP!PoolInv'
  BY BufSteps, BufP!NextInv, BufAssumptions DEF BufInv
<1> QED
  BY <1>1, NamesKept, OutsKept DEF BufInv

\* Two instances of the pool say the same.
LEMMA BufUseSame ==
  /\ BufUse!PInit <=> BufP!PInit
  /\ UNCHANGED BufP!vars => UNCHANGED BufUse!vars
  /\ BufP!PNext => BufUse!PNext
<1>1. (BufUse!PInit <=> BufP!PInit) /\ (UNCHANGED BufP!vars => UNCHANGED BufUse!vars)
  BY DEF BufUse!PInit, BufP!PInit, BufUse!Init, BufP!Init, BufUse!Cond!Init, BufP!Cond!Init,
    BufOwners, BufUse!vars, BufP!vars, BufUse!poolVars, BufP!poolVars
<1>2. \A S : BufUse!Cardinality(S) = BufP!Cardinality(S)
  BY DEF BufUse!Cardinality, BufP!Cardinality
<1> USE DEF BufUse!Grant, BufP!Grant, BufUse!Block, BufP!Block, BufUse!Join, BufP!Join,
  BufUse!SpuriousWakeup, BufP!SpuriousWakeup, BufUse!MustWait, BufP!MustWait,
  BufUse!Exhausted, BufP!Exhausted, BufUse!Found, BufP!Found, BufUse!Free, BufP!Free,
  BufUse!Populated, BufP!Populated, BufUse!Null, BufP!Null,
  BufUse!Cond!Proceed, BufP!Cond!Proceed, BufUse!Cond!Wait, BufP!Cond!Wait,
  BufUse!Cond!Signal, BufP!Cond!Signal, BufUse!Cond!Awaken, BufP!Cond!Awaken,
  BufUse!Cond!SpuriousWakeup, BufP!Cond!SpuriousWakeup
<1>3. ASSUME NEW t \in BufOwners
      PROVE  /\ BufP!Get(t) => BufUse!Get(t)
             /\ BufP!GetBlocks(t) => BufUse!GetBlocks(t)
             /\ BufP!Return(t) => BufUse!Return(t)
  <2>1. BufP!Get(t) => BufUse!Get(t)
    BY <1>2 DEF BufP!Get, BufUse!Get
  <2>2. BufP!GetBlocks(t) => BufUse!GetBlocks(t)
    BY <1>2 DEF BufP!GetBlocks, BufUse!GetBlocks
  <2>3. BufP!Return(t) => BufUse!Return(t)
    BY DEF BufP!Return, BufUse!Return
  <2> QED
    BY <2>1, <2>2, <2>3
<1>4. ASSUME NEW t \in BufOwners, NEW u \in BufOwners
      PROVE  BufP!Handover(t, u) => BufUse!Handover(t, u)
  BY <1>2 DEF BufP!Handover, BufUse!Handover, BufP!poolVars, BufUse!poolVars
<1>5. BufP!Spurious => BufUse!Spurious
  BY DEF BufP!Spurious, BufUse!Spurious
<1>6. BufP!PNext => BufUse!PNext
  BY <1>3, <1>4, <1>5 DEF BufP!PNext, BufUse!PNext, BufOwners
<1> QED
  BY <1>1, <1>6

\* The two pools and the clients, together: the inductive invariant so far.
Ownership == Base /\ TdInv /\ BufInv /\ ClientsInv

\* It holds at the start and is kept by every step.
LEMMA OwnershipKept == (Init => Ownership) /\ (Ownership /\ [Next]_vars => Ownership')
<1>1. Init => Ownership
  BY BaseInit, TdInvInit, ClientsInit, BufInit DEF Ownership
<1>2. Ownership /\ [Next]_vars => Ownership'
  BY BaseNext, TdInvNext, ClientsKept, BufInvNext DEF Ownership
<1> QED
  BY <1>1, <1>2

\* The threads of the server use the pool of buffers the way PoolUse says, on
\* every path through the read, the error reply, the hand-over of the out buffer
\* to a worker and http_response: what buffer_pool_join_buffer is given is what
\* its caller owns, and no buffer is returned twice or has two users.
THEOREM ServerUsesBufPool == Spec => UsesBufPool
<1>1. Init => BufUse!PInit
  BY BufInit, BufUseSame
<1>2. Ownership /\ [Next]_vars => [BufUse!PNext]_(BufUse!vars)
  BY BufSteps, BufUseSame DEF Ownership
<1> QED
  BY <1>1, <1>2, OwnershipKept, PTL DEF Spec, UsesBufPool, BufUse!PSpec

-----------------------------------------------------------------------------
(* How many buffers are in use.                                            *)

\* The image of a finite set is finite, and not larger.
LEMMA ImageBound ==
  ASSUME NEW S, IsFiniteSet(S), NEW f
  PROVE  /\ IsFiniteSet({f[x] : x \in S})
         /\ Cardinality({f[x] : x \in S}) \in Nat
         /\ Cardinality({f[x] : x \in S}) <= Cardinality(S)
<1> DEFINE T == {f[x] : x \in S}
           g == [x \in S |-> f[x]]
<1>1. g \in Surjection(S, T)
  BY DEF Surjection
<1> HIDE DEF g, T
<1>2. IsFiniteSet(T) /\ Cardinality(T) <= Cardinality(S)
  BY <1>1, FS_Surjection
<1>3. Cardinality(T) \in Nat
  BY <1>2, FS_CardinalityType
<1> QED
  BY <1>2, <1>3 DEF T

\* The buffer of the reply that is made for a thread_data.
ReplyOf(k, e) == /\ k # 0
                 /\ \/ \E t \in Others : local[t].td = e /\ local[t].body = k
                    \/ \E j \in ItemsOf(wq) : j.td = e /\ j.out = k

\* Who has a reply in hand owns the thread_data it is for.
LEMMA ReplyOwners ==
  ASSUME Base, NEW k, NEW e, ReplyOf(k, e)
  PROVE  /\ e \in Td
         /\ \/ \E t \in Others : e \in TdHeld[t] /\ local[t].body = k
            \/ e \in TdHeld["wq"] /\ \E j \in ItemsOf(wq) : j.td = e /\ j.out = k
<1>1. ASSUME NEW t \in Others, local[t].td = e, local[t].body = k
      PROVE  e \in Td /\ e \in TdHeld[t]
  <2>1. Locals(t) /\ ThreadTypes /\ t \in Threads
    BY ThreadsDistinct DEF Base, Control
  <2>2. pc[t] \in WithBody \/ pc[t] = "close"
    BY <1>1, <2>1 DEF ReplyOf, Locals
  <2>3. local[t].td # 0 /\ pc[t] \notin NotOwner
    BY <2>1, <2>2 DEF Locals, WithBody, WithTd, NotOwner
  <2>4. e \in Td
    BY <1>1, <2>1, <2>3 DEF ThreadTypes, LocalsOf
  <2> QED
    BY <1>1, <2>1, <2>3, <2>4, TdHeldValues DEF TdOwn
<1>2. ASSUME NEW j \in ItemsOf(wq), j.td = e, j.out = k
      PROVE  e \in Td /\ e \in TdHeld["wq"]
  <2>1. PICK i \in DOMAIN wq : j = wq[i]
    BY DEF ItemsOf
  <2>2. j \in Job
    BY <2>1 DEF Base, DataTypes
  <2>3. j # StopJob
    BY <1>2 DEF ReplyOf, StopJob
  <2>4. j.td # 0
    BY <2>1, <2>3 DEF Base, Control, JobsNamed
  <2>5. e \in Td
    BY <1>2, <2>2, <2>4 DEF Job, StopTd
  <2> QED
    BY <1>2, <2>4, <2>5, TdHeldValues
<1> QED
  BY <1>1, <1>2 DEF ReplyOf

\* There is one reply for a thread_data at a time.
LEMMA OneReply ==
  ASSUME Base, TdInv, NEW k, NEW l, NEW e, ReplyOf(k, e), ReplyOf(l, e)
  PROVE  k = l
<1>0. /\ \A t \in Others : t \in Owners /\ t # "wq"
      /\ "wq" \in Owners
      /\ \A h, g \in Owners : h # g => TdHeld[h] \cap TdHeld[g] = {}
  <2>1. \A h, g \in Owners : h # g => TdHeld[h] \cap TdHeld[g] = {}
    BY TdOwners DEF TdInv
  <2>2. "wq" \in Owners /\ \A t \in Others : t \in Owners /\ t # "wq"
    BY ServingOwners
  <2> QED
    BY <2>1, <2>2
<1>1. 0 \notin Td /\ e \in Td
  BY ReplyOwners, ThreadsDistinct
<1>2. \A i, j \in ItemsOf(wq) : i.td = e /\ j.td = e => i = j
  BY <1>1 DEF TdInv, TdsInjective, ItemsOf
<1>3. CASE \E t \in Others : e \in TdHeld[t] /\ local[t].body = k
  BY <1>0, <1>3, ReplyOwners
<1>4. CASE e \in TdHeld["wq"] /\ \E j \in ItemsOf(wq) : j.td = e /\ j.out = k
  BY <1>0, <1>2, <1>4, ReplyOwners
<1> QED
  BY <1>3, <1>4, ReplyOwners

\* The buffers in use, by what they are used for.
Replies == [e \in Td |-> CHOOSE k : ReplyOf(k, e)]
Requests == [t \in Reqs |-> local[t].b]
Responses == [t \in Others |-> local[t].resp]

\* A buffer in use is for a reply, for a thread's request or for its response.
LEMMA UsesOfBuffers ==
  ASSUME Base, TdInv, BufInv, NEW k \in bufBusy
  PROVE  /\ k # 0
         /\ \/ \E e \in Td : ReplyOf(k, e) /\ k = Replies[e]
            \/ \E t \in Reqs : k = Requests[t]
            \/ \E t \in Others : k = Responses[t]
<1>0. PICK h \in BufOwners : k \in BufHeld[h]
  BY BufOwnersApart DEF BufInv
<1>1. k # 0 /\ \A t \in Threads : Locals(t)
  <2>1. k \in Buffer
    BY <1>0, BufOwnersApart DEF BufInv
  <2> QED
    BY <2>1, ThreadsDistinct DEF Base, Control
<1>2. ASSUME NEW e, ReplyOf(k, e)
      PROVE  \E f \in Td : ReplyOf(k, f) /\ k = Replies[f]
  <2>1. e \in Td
    BY <1>2, ReplyOwners
  <2>2. ReplyOf(CHOOSE l : ReplyOf(l, e), e)
    BY <1>2
  <2>3. k = Replies[e]
    BY <1>2, <2>1, <2>2, OneReply DEF Replies
  <2> QED
    BY <1>2, <2>1, <2>3
<1>3. CASE h = "wq"
  <2>1. PICK j \in ItemsOf(wq) : j.out = k
    BY <1>0, <1>3, BufHeldValues
  <2>2. ReplyOf(k, j.td)
    BY <1>1, <2>1 DEF ReplyOf
  <2> QED
    BY <1>1, <1>2, <2>2
<1>4. CASE h \in Threads
  <2>1. k \in {local[h].b, local[h].body, local[h].resp}
    BY <1>0, <1>4, BufHeldValues DEF BufOwn
  <2>2. h # Main
    <3>1. pc[Main] \in MainLabels /\ Main \notin Reqs /\ Main \notin Workers /\ Locals(Main)
      BY <1>1, ServerAssumption, ThreadsDistinct DEF Base, Control, LabelsOf
    <3>2. local[Main].b = 0 /\ local[Main].body = 0 /\ local[Main].resp = 0
      BY <3>1 DEF Locals, MainLabels, WithBody, WithResp
    <3> QED
      BY <1>1, <2>1, <3>2
  <2>3. h \in Others
    BY <1>4, <2>2, ThreadsDistinct
  <2>4. CASE k = local[h].b
    <3>1. h \in Reqs
      BY <1>1, <1>4, <2>4 DEF Locals
    <3> QED
      BY <1>1, <2>4, <3>1 DEF Requests
  <2>5. CASE k = local[h].resp
    BY <1>1, <2>3, <2>5 DEF Responses
  <2>6. CASE k = local[h].body
    <3>1. ReplyOf(k, local[h].td)
      BY <1>1, <2>3, <2>6 DEF ReplyOf
    <3> QED
      BY <1>1, <1>2, <3>1
  <2> QED
    BY <2>1, <2>4, <2>5, <2>6
<1> QED
  BY <1>3, <1>4 DEF BufOwners

\* Counting the uses counts the buffers.
LEMMA CountUses ==
  ASSUME NEW X \in SUBSET Td, NEW Y \in SUBSET Reqs, NEW Z \in SUBSET Others,
         bufBusy \subseteq {Replies[e] : e \in X} \cup {Requests[t] : t \in Y}
                             \cup {Responses[t] : t \in Z}
  PROVE  /\ IsFiniteSet(X) /\ IsFiniteSet(Y) /\ IsFiniteSet(Z)
         /\ Cardinality(X) \in Nat /\ Cardinality(Y) \in Nat /\ Cardinality(Z) \in Nat
         /\ Cardinality(bufBusy) \in Nat
         /\ Cardinality(bufBusy) <= Cardinality(X) + Cardinality(Y) + Cardinality(Z)
<1> DEFINE A == {Replies[e] : e \in X}
           B == {Requests[t] : t \in Y}
           C == {Responses[t] : t \in Z}
<1>1. IsFiniteSet(X) /\ IsFiniteSet(Y) /\ IsFiniteSet(Z)
  <2>1. IsFiniteSet(Td)
    BY SizesAssumption, FS_Interval DEF Td
  <2> QED
    BY <2>1, ThreadsFiniteToo, ServerAssumption, FS_Subset
<1>2. Cardinality(X) \in Nat /\ Cardinality(Y) \in Nat /\ Cardinality(Z) \in Nat
  BY <1>1, FS_CardinalityType
<1>3. IsFiniteSet(A) /\ Cardinality(A) \in Nat /\ Cardinality(A) <= Cardinality(X)
  BY <1>1, ImageBound
<1>4. IsFiniteSet(B) /\ Cardinality(B) \in Nat /\ Cardinality(B) <= Cardinality(Y)
  BY <1>1, ImageBound
<1>5. IsFiniteSet(C) /\ Cardinality(C) \in Nat /\ Cardinality(C) <= Cardinality(Z)
  BY <1>1, ImageBound
<1> HIDE DEF A, B, C
<1>6. /\ IsFiniteSet(A \cup B) /\ Cardinality(A \cup B) \in Nat
      /\ Cardinality(A \cup B) <= Cardinality(A) + Cardinality(B)
  <2>1. /\ IsFiniteSet(A \cup B)
        /\ Cardinality(A \cup B) = Cardinality(A) + Cardinality(B) - Cardinality(A \cap B)
    BY <1>3, <1>4, FS_Union
  <2>2. Cardinality(A \cap B) \in Nat /\ Cardinality(A \cup B) \in Nat
    BY <1>3, <2>1, FS_Subset, FS_CardinalityType
  <2> QED
    BY <1>3, <1>4, <2>1, <2>2
<1>7. /\ IsFiniteSet(A \cup B \cup C) /\ Cardinality(A \cup B \cup C) \in Nat
      /\ Cardinality(A \cup B \cup C) <= Cardinality(A \cup B) + Cardinality(C)
  <2>1. /\ IsFiniteSet((A \cup B) \cup C)
        /\ Cardinality((A \cup B) \cup C) = Cardinality(A \cup B) + Cardinality(C)
                                             - Cardinality((A \cup B) \cap C)
    BY <1>5, <1>6, FS_Union
  <2>2. Cardinality((A \cup B) \cap C) \in Nat /\ Cardinality((A \cup B) \cup C) \in Nat
    BY <1>6, <2>1, FS_Subset, FS_CardinalityType
  <2> QED
    BY <1>5, <1>6, <2>1, <2>2
<1>8. /\ IsFiniteSet(bufBusy) /\ Cardinality(bufBusy) \in Nat
      /\ Cardinality(bufBusy) <= Cardinality(A \cup B \cup C)
  <2>1. bufBusy \subseteq A \cup B \cup C
    BY DEF A, B, C
  <2> QED
    BY <1>7, <2>1, FS_Subset, FS_CardinalityType
<1> QED
  BY <1>1, <1>2, <1>3, <1>4, <1>5, <1>6, <1>7, <1>8

\* The buffers of the replies for X, of the requests of Y and the responses of Z.
BuffersOf(X, Y, Z) == {Replies[e] : e \in X} \cup {Requests[t] : t \in Y}
                        \cup {Responses[t] : t \in Z}

\* The uses are never more than the demand, and less if one of them is open.
LEMMA UsesWithinDemand ==
  ASSUME NEW X \in SUBSET Td, NEW Y \in SUBSET Reqs, NEW Z \in SUBSET Others,
         bufBusy \subseteq BuffersOf(X, Y, Z)
  PROVE  /\ Cardinality(bufBusy) \in Nat /\ Demand \in Nat
         /\ Cardinality(bufBusy) <= Demand
         /\ X # Td \/ Y # Reqs \/ Z # Others => Cardinality(bufBusy) < Demand
<1>1. /\ Cardinality(X) \in Nat /\ Cardinality(Y) \in Nat /\ Cardinality(Z) \in Nat
      /\ Cardinality(bufBusy) \in Nat
      /\ Cardinality(bufBusy) <= Cardinality(X) + Cardinality(Y) + Cardinality(Z)
  BY CountUses DEF BuffersOf
<1>2. IsFiniteSet(Td) /\ Cardinality(Td) = MaxTd /\ MaxTd \in Nat
  <2>1. MaxTd \in Nat /\ MaxTd >= 1
    BY SizesAssumption
  <2> QED
    BY <2>1, FS_Interval DEF Td
<1>3. /\ IsFiniteSet(Reqs) /\ IsFiniteSet(Workers) /\ IsFiniteSet(Others)
      /\ Cardinality(Reqs) \in Nat /\ Cardinality(Workers) \in Nat
  BY ThreadsFiniteToo, ServerAssumption, FS_CardinalityType
<1>4. Cardinality(Others) = Cardinality(Reqs) + Cardinality(Workers)
  <2>1. Cardinality(Reqs \cup Workers) = Cardinality(Reqs) + Cardinality(Workers)
                                           - Cardinality(Reqs \cap Workers)
    BY <1>3, FS_Union
  <2>2. Cardinality(Reqs \cap Workers) = 0
    BY ThreadsDistinct, FS_EmptySet
  <2> QED
    BY <1>3, <2>1, <2>2 DEF Others
<1>5. Cardinality(X) <= MaxTd /\ (X # Td => Cardinality(X) # MaxTd)
  BY <1>2, FS_Subset
<1>6. /\ Cardinality(Y) <= Cardinality(Reqs)
      /\ Y # Reqs => Cardinality(Y) # Cardinality(Reqs)
  BY <1>3, FS_Subset
<1>7. /\ Cardinality(Z) <= Cardinality(Others)
      /\ Z # Others => Cardinality(Z) # Cardinality(Others)
  BY <1>3, FS_Subset
<1> QED
  BY <1>1, <1>2, <1>3, <1>4, <1>5, <1>6, <1>7 DEF Demand

\* The buffers in use are never more than the demand.
LEMMA DemandMet ==
  ASSUME Base, TdInv, BufInv
  PROVE  bufInuse <= Demand /\ bufInuse = Cardinality(bufBusy)
<1>1. bufInuse = Cardinality(bufBusy)
  BY BufCounts DEF BufInv, BufP!PoolInv
<1>2. bufBusy \subseteq BuffersOf(Td, Reqs, Others)
  BY UsesOfBuffers DEF BuffersOf
<1> QED
  BY <1>1, <1>2, UsesWithinDemand

\* A thread that asks for a buffer leaves one of the uses open.
LEMMA AskersLeaveRoom ==
  ASSUME Base, TdInv, BufInv, NEW t \in Others, pc[t] \in GetsBuffer
  PROVE  Cardinality(bufBusy) < Demand /\ Demand \in Nat
<1>0. Locals(t) /\ ThreadTypes /\ t \in Threads /\ pc[t] \in LabelsOf(t)
  BY ThreadsDistinct DEF Base, Control
<1>1. CASE pc[t] = "getB"
  <2>1. Requests[t] = 0 /\ t \in Reqs
    <3>1. t \in Reqs
      BY <1>0, <1>1, ThreadsDistinct DEF LabelsOf, WorkerLabels
    <3> QED
      BY <1>0, <1>1, <3>1 DEF Requests, Locals, WithB
  <2>2. bufBusy \subseteq BuffersOf(Td, Reqs \ {t}, Others)
    BY <2>1, UsesOfBuffers DEF BuffersOf
  <2>3. Reqs \ {t} \in SUBSET Reqs /\ Reqs \ {t} # Reqs
    BY <2>1
  <2> QED
    BY <2>2, <2>3, UsesWithinDemand
<1>2. CASE pc[t] = "getResponse"
  <2>1. Responses[t] = 0
    BY <1>0, <1>2 DEF Responses, Locals, WithResp
  <2> DEFINE Z == Others \ {t}
  <2>2. bufBusy \subseteq BuffersOf(Td, Reqs, Z)
    BY <2>1, UsesOfBuffers DEF BuffersOf
  <2>3. Z \in SUBSET Others /\ Z # Others
    OBVIOUS
  <2> HIDE DEF Z
  <2> QED
    BY <2>2, <2>3, UsesWithinDemand
<1>3. CASE pc[t] \in {"getError", "getOut"}
  <2> DEFINE e == local[t].td
  <2>1. t \in Talking
    BY <1>3 DEF Talking, Others
  <2>2. e \in TdHeld[t] /\ e \in Td /\ t \in Owners /\ t # "wq" /\ "wq" \in Owners
    BY <2>1, TalkersServe, ServingOwners
  <2>3. local[t].body = 0
    BY <1>0, <1>3 DEF Locals, WithBody
  <2>4. ASSUME NEW k, ReplyOf(k, e) PROVE FALSE
    <3>1. \A h, g \in Owners : h # g => TdHeld[h] \cap TdHeld[g] = {}
      BY TdOwners DEF TdInv
    <3>2. \A u \in Others : u \in Owners
      BY ServingOwners
    <3>3. k # 0
      BY <2>4 DEF ReplyOf
    <3>4. \/ \E u \in Others : e \in TdHeld[u] /\ local[u].body = k
          \/ e \in TdHeld["wq"]
      BY <2>4, ReplyOwners
    <3> QED
      BY <2>2, <2>3, <3>1, <3>2, <3>3, <3>4
  <2> HIDE DEF e
  <2>5. bufBusy \subseteq BuffersOf(Td \ {e}, Reqs, Others)
    BY <2>4, UsesOfBuffers DEF BuffersOf
  <2>6. Td \ {e} \in SUBSET Td /\ Td \ {e} # Td
    BY <2>2
  <2> QED
    BY <2>5, <2>6, UsesWithinDemand
<1> QED
  BY <1>1, <1>2, <1>3 DEF GetsBuffer

\* Nobody waits for a buffer of a pool of the size of the demand.
NoWaiting == MaxBuf >= Demand => bufWaiting = {}

\* It stays that way: a thread that asks finds the pool not full.
LEMMA NoWaitingKept == Ownership /\ NoWaiting /\ [Next]_vars => NoWaiting'
<1> SUFFICES ASSUME Base, TdInv, BufInv, NoWaiting, [Next]_vars, MaxBuf >= Demand
             PROVE  bufWaiting' = {}
  BY DEF Ownership, NoWaiting, Demand
<1>0. bufWaiting = {}
  BY DEF NoWaiting
<1>1. ASSUME NEW t \in Others, BufStep(t) PROVE bufWaiting' = {}
  <2>1. CASE GetBufferBlocks(t)
    <3>1. bufInuse = MaxBuf /\ pc[t] \in GetsBuffer
      BY <2>1 DEF GetBufferBlocks, At, GetsBuffer, BufPool!Block, BufPool!MustWait
    <3>2. bufInuse < Demand /\ Demand \in Nat
      BY <3>1, AskersLeaveRoom, DemandMet
    <3> QED
      BY <3>1, <3>2, SizesAssumption
  <2>2. ASSUME NEW k \in Buffer, NEW v \in {"b", "body", "resp"}, BufTakes(t, v, k)
        PROVE  bufWaiting' = {}
    BY <1>0, <2>2 DEF BufTakes, BufPool!Grant, BufPool!Cond!Proceed
  <2>3. ASSUME NEW v \in {"b", "body", "resp"}, BufGives(t, v)
        PROVE  bufWaiting' = {}
    BY <1>0, <2>3 DEF BufGives, JoinBuffer, BufPool!Join, BufPool!Cond!Signal
  <2> QED
    BY <1>1, <2>1, <2>2, <2>3 DEF BufStep
<1>2. UNCHANGED bufPoolVars => bufWaiting' = {}
  BY <1>0 DEF bufPoolVars
<1>3. ~BufPool!SpuriousWakeup
  BY <1>0 DEF BufPool!SpuriousWakeup, BufPool!Cond!SpuriousWakeup
<1> QED
  BY <1>1, <1>2, <1>3, BufferSteps

\* The buffers in use are bounded by the thread_data and the threads, not by the
\* clients, and a pool of that size makes no thread wait, so that the threads
\* cannot wait for each other's buffers: for any sizes of the pools and any
\* number of threads, of which the code's 64, 16 and 8 are one case.
THEOREM BuffersAlwaysSuffice == Spec => []BuffersSuffice
<1>1. Init => Ownership /\ NoWaiting
  BY OwnershipKept DEF Init, NoWaiting, BufPool!Init, BufPool!Cond!Init
<1>2. Ownership /\ NoWaiting /\ [Next]_vars => (Ownership /\ NoWaiting)'
  BY OwnershipKept, NoWaitingKept
<1>3. Ownership /\ NoWaiting => BuffersSuffice
  BY DemandMet DEF Ownership, NoWaiting, BuffersSuffice
<1> QED
  BY <1>1, <1>2, <1>3, PTL DEF Spec

-----------------------------------------------------------------------------
(* What is in the buffers.                                                 *)

\* A thread that talks to a client does not change to another thread_data.
LEMMA TalkerStays ==
  ASSUME Base, [Next]_vars, NEW u \in Talking
  PROVE  local'[u].td = local[u].td
<1>0. /\ ThreadTypes /\ pc[u] \in TalkLabels
      /\ u \in Others /\ u # Main /\ u \in Threads
  BY ThreadsDistinct DEF Base, Talking, TalkLabels, Others
<1> USE DEF TalkLabels, ThreadTypes, LocalsOf
<1>1. MainNext => local'[u] = local[u]
  BY <1>0
  DEF MainNext, Peek, PollTimeout, Accept, GetTdBlocks, GetTd, EnqueueTd,
    WakeupTd, Check, StopReq, StopReqWakeup, StopWorker, StopWorkerWakeup
<1>2. ASSUME NEW t \in Others, Respond(t) PROVE local'[u].td = local[u].td
  BY <1>0, <1>2
  DEF Respond, GetResponse, Write, JoinResponse, JoinBuffer, Close, JoinTd,
    GetBufferBlocks, At
<1>3. ASSUME NEW t \in Reqs, ReqNext(t) PROVE local'[u].td = local[u].td
  BY <1>0, <1>3
  DEF ReqNext, ReqSleeps, ReqTakes, ReqStops, GetB, ReadFails, ReadBadQuery,
    ReadRequest, GetError, JoinError, JoinB, GetOut, EnqueueJob, JoinBServed,
    WakeupJob, GetBuffer, JoinBuffer, At
<1>4. ASSUME NEW t \in Workers, WorkerNext(t) PROVE local'[u].td = local[u].td
  BY <1>0, <1>4
  DEF WorkerNext, WorkerSleeps, WorkerTakes, Process, JoinOut, JoinBuffer, At
<1>5. CASE (\E c \in Clients : Arrive(c)) \/ Signal \/ SpuriousWakeup \/ UNCHANGED vars
  BY <1>5 DEF Arrive, Signal, SpuriousWakeup, vars
<1> QED
  BY <1>1, <1>2, <1>3, <1>4, <1>5 DEF Next, Others

\* Its client is the same as long as a thread talks to it.
LEMMA ClientStays ==
  ASSUME Base, TdInv, [Next]_vars, NEW u \in Talking
  PROVE  ClientOf(u)' = ClientOf(u)
BY TalkerStays, FieldsStay, TalkersServe DEF ClientOf

-----------------------------------------------------------------------------
(* Whose data is in which buffer.                                          *)

\* The data a thread's reply may have in it: none if it is an error.
Answer(t) == IF t \in Reqs THEN {} ELSE {ClientOf(t)}

\* The buffers of a thread's reply have no data of any other client.
HoldsOwn(t) == \A k \in {local[t].body, local[t].resp} \ {0} : content[k] \subseteq Answer(t)

ContentInv ==
  /\ content \in [Buffer -> SUBSET Clients]
  /\ \A k \in Buffer \ bufBusy : content[k] = {}
  /\ \A j \in ItemsOf(wq) : j.out # 0 => content[j.out] = {}
  /\ \A t \in Talking : HoldsOwn(t)

\* How a step gets to a buffer: it takes one, gives one back, or a request
\* thread reads into its own, or a worker answers into its own.
Taking(t, v, k) == /\ BufTakes(t, v, k) /\ UNCHANGED wq
                   /\ \/ UNCHANGED content /\ t \in Reqs /\ v # "resp"
                      \/ /\ v = "resp" /\ local[t].body # 0
                         /\ content' = [content EXCEPT ![k] = @ \cup content[local[t].body]]
Filling(t, v) == /\ t \in Talking
                 /\ \/ t \in Reqs /\ v = "b"
                    \/ t \in Workers /\ v = "body"
                 /\ local[t][v] # 0
                 /\ \E s \in SUBSET (content[local[t][v]] \cup {ClientOf(t)}) :
                      content' = [content EXCEPT ![local[t][v]] = s]
                 /\ UNCHANGED <<local, bufPoolVars, wq>>
Quiet == UNCHANGED <<content, bufBusy>> /\ \A t \in Threads : SameBufs(t)

\* The jobs: a step puts one in the queue, or at most a stop.
LEMMA JobsChange ==
  ASSUME Base, [Next]_vars
  PROVE  \/ \E t \in Reqs : EnqueueJob(t)
         \/ ItemsOf(wq') \subseteq ItemsOf(wq) \cup {StopJob}
<1>0. wq \in Seq(Job)
  BY DEF Base, DataTypes
<1>1. CASE StopWorker
  <2>1. wq' = Append(wq, StopJob) /\ StopJob \in Job
    BY <1>1 DEF StopWorker, WorkQ!Enqueue, StopJob, Job, StopTd
  <2> QED
    BY <1>0, <2>1, ItemsOfAppend
<1>2. ASSUME NEW t \in Workers, WorkerTakes(t)
      PROVE  ItemsOf(wq') \subseteq ItemsOf(wq)
  <2>1. wq # <<>> /\ wq' = Tail(wq)
    BY <1>2 DEF WorkerTakes, WorkQ!Take
  <2> QED
    BY <1>0, <2>1, ItemsOfTail
<1> QED
  BY <1>1, <1>2, WhoChanges

\* What the buffers' contents and owners do in a step.
ContentStep == \/ Quiet
               \/ \E t \in Reqs : EnqueueJob(t)
               \/ \E t \in Workers : WorkerTakes(t)
               \/ \E t \in Others, k \in Buffer, v \in {"b", "body", "resp"} : Taking(t, v, k)
               \/ \E t \in Others, v \in {"b", "body", "resp"} :
                    BufGives(t, v) /\ UNCHANGED wq
               \/ \E t \in Others, v \in {"b", "body"} : Filling(t, v)

\* The steps of http_response.
LEMMA RespondContent ==
  ASSUME Base, NEW t \in Others, Respond(t)
  PROVE  ContentStep
<1>0. ThreadTypes /\ t \in Threads /\ Locals(t) /\ Main \in Threads
  BY ThreadsDistinct DEF Base, Control
<1>1. CASE GetResponse(t)
  <2>1. PICK k \in Buffer :
          /\ BufPool!Grant(t, k)
          /\ local' = [local EXCEPT ![t].resp = k]
          /\ content' = [content EXCEPT ![k] = @ \cup content[local[t].body]]
    BY <1>1 DEF GetResponse
  <2>2. pc[t] = "getResponse" /\ local[t].resp = 0 /\ local[t].body # 0
    BY <1>0, <1>1 DEF GetResponse, At, Locals, WithBody, WithResp
  <2>3. Taking(t, "resp", k)
    BY <1>1, <2>1, <2>2 DEF GetResponse, queuesVars, wqVars, Taking, BufTakes, GetsBuffer
  <2> QED
    BY <2>3 DEF ContentStep
<1>2. CASE JoinResponse(t)
  <2>1. pc[t] = "joinResponse" /\ JoinBuffer(t, "resp")
    BY <1>2 DEF JoinResponse, At
  <2>2. BufGives(t, "resp")
    BY <1>0, <2>1 DEF BufGives, GetsBuffer, Locals, WithResp
  <2> QED
    BY <1>2, <2>2 DEF ContentStep, JoinResponse, queuesVars, wqVars
<1>3. CASE JoinTd(t)
  <2>1. /\ pc[t] = "joinTd" /\ local' = [local EXCEPT ![t] = Idle]
        /\ UNCHANGED <<content, bufBusy>>
    BY <1>3 DEF JoinTd, At, bufPoolVars, dataVars
  <2>2. local[t].b = 0 /\ local[t].body = 0 /\ local[t].resp = 0
    BY <1>0, <2>1 DEF Locals, WithB, WithBody, WithResp
  <2>3. Quiet
    BY <1>0, <2>1, <2>2 DEF Quiet, SameBufs, Idle, ThreadTypes
  <2> QED
    BY <2>3 DEF ContentStep
<1>4. CASE Write(t) \/ Close(t) \/ GetBufferBlocks(t)
  <2>1. Quiet
    BY <1>4 DEF Write, Close, GetBufferBlocks, BufPool!Block, Quiet, SameBufs,
      bufPoolVars, dataVars
  <2> QED
    BY <2>1 DEF ContentStep
<1> QED
  BY <1>1, <1>2, <1>3, <1>4 DEF Respond

\* The steps of a request thread.
LEMMA ReqContent ==
  ASSUME Base, NEW t \in Reqs, ReqNext(t), content \in [Buffer -> SUBSET Clients]
  PROVE  ContentStep
<1>0. ThreadTypes /\ t \in Threads /\ Locals(t) /\ t \in Others
  BY ThreadsDistinct DEF Base, Control
<1>1. ASSUME GetB(t) \/ GetError(t) \/ GetOut(t) PROVE ContentStep
  <2>1. PICK k \in Buffer, v \in {"b", "body"} :
          /\ BufPool!Grant(t, k)
          /\ local' = [local EXCEPT ![t][v] = k]
          /\ pc[t] = (IF v = "b" THEN "getB" ELSE pc[t])
          /\ v = "body" => pc[t] \in {"getError", "getOut"}
    <3>1. CASE GetB(t)
      BY <3>1 DEF GetB, GetBuffer, At
    <3>2. CASE GetError(t) \/ GetOut(t)
      BY <3>2 DEF GetError, GetOut, GetBuffer, At
    <3> QED
      BY <1>1, <3>1, <3>2
  <2>2. pc[t] \in GetsBuffer /\ local[t][v] = 0
    BY <1>0, <2>1 DEF GetsBuffer, Locals, WithB, WithBody
  <2>3. UNCHANGED <<content, wq>>
    BY <1>1 DEF GetB, GetError, GetOut, dataVars, queuesVars, wqVars
  <2>4. Taking(t, v, k)
    BY <2>1, <2>2, <2>3 DEF Taking, BufTakes
  <2> QED
    BY <1>0, <2>4 DEF ContentStep
<1>2. CASE JoinError(t)
  <2>1. BufGives(t, "body")
    BY <1>0, <1>2 DEF JoinError, At, BufGives, GetsBuffer, Locals, WithBody
  <2> QED
    BY <1>0, <1>2, <2>1 DEF ContentStep, JoinError, queuesVars, wqVars
<1>3. CASE JoinB(t) \/ JoinBServed(t)
  <2>1. BufGives(t, "b")
    BY <1>0, <1>3 DEF JoinB, JoinBServed, At, BufGives, GetsBuffer, Locals, WithB
  <2> QED
    BY <1>0, <1>3, <2>1 DEF ContentStep, JoinB, JoinBServed, queuesVars, wqVars
<1>4. CASE ReadFails(t) \/ ReadBadQuery(t) \/ ReadRequest(t)
  <2>1. pc[t] = "read" /\ UNCHANGED <<local, bufPoolVars, wq>>
    BY <1>4 DEF ReadFails, ReadBadQuery, ReadRequest, At, queuesVars, wqVars
  <2>2. local[t].b # 0 /\ t \in Talking
    BY <1>0, <2>1 DEF Locals, WithB, Talking, Others
  <2>3. \E s \in SUBSET (content[local[t].b] \cup {ClientOf(t)}) :
          content' = [content EXCEPT ![local[t].b] = s]
    BY <1>4 DEF ReadFails, ReadBadQuery, ReadRequest
  <2>4. Filling(t, "b")
    BY <2>1, <2>2, <2>3 DEF Filling
  <2> QED
    BY <1>0, <2>4 DEF ContentStep
<1>5. CASE WakeupJob(t)
  <2>1. /\ pc[t] = "wakeupJob" /\ local' = [local EXCEPT ![t] = Idle]
        /\ UNCHANGED <<content, bufBusy>>
    BY <1>5 DEF WakeupJob, At, bufPoolVars, dataVars
  <2>2. local[t].b = 0 /\ local[t].body = 0 /\ local[t].resp = 0
    BY <1>0, <2>1 DEF Locals, WithB, WithBody, WithResp
  <2>3. Quiet
    BY <1>0, <2>1, <2>2 DEF Quiet, SameBufs, Idle, ThreadTypes
  <2> QED
    BY <2>3 DEF ContentStep
<1>6. CASE ReqTakes(t)
  <2>1. Quiet
    BY <1>0, <1>6 DEF ReqTakes, Quiet, SameBufs, ThreadTypes, LocalsOf, bufPoolVars, dataVars
  <2> QED
    BY <2>1 DEF ContentStep
<1>7. CASE ReqSleeps(t) \/ ReqStops(t)
  <2>1. Quiet
    BY <1>7 DEF ReqSleeps, ReqStops, Quiet, SameBufs, bufPoolVars, dataVars
  <2> QED
    BY <2>1 DEF ContentStep
<1>8. CASE EnqueueJob(t)
  BY <1>8 DEF ContentStep
<1> QED
  BY <1>1, <1>2, <1>3, <1>4, <1>5, <1>6, <1>7, <1>8 DEF ReqNext

\* The steps of a worker.
LEMMA WorkerContent ==
  ASSUME Base, NEW t \in Workers, WorkerNext(t), content \in [Buffer -> SUBSET Clients]
  PROVE  ContentStep
<1>0. ThreadTypes /\ t \in Threads /\ Locals(t) /\ t \in Others
  BY ThreadsDistinct DEF Base, Control
<1>1. CASE WorkerSleeps(t)
  <2>1. Quiet
    BY <1>1 DEF WorkerSleeps, Quiet, SameBufs, bufPoolVars, dataVars
  <2> QED
    BY <2>1 DEF ContentStep
<1>2. CASE Process(t)
  <2>1. pc[t] = "process" /\ UNCHANGED <<local, bufPoolVars, wq>>
    BY <1>2 DEF Process, At, queuesVars, wqVars
  <2>2. local[t].body # 0 /\ t \in Talking
    BY <1>0, <2>1 DEF Locals, WithBody, Talking, Others
  <2>3. \E s \in SUBSET (content[local[t].body] \cup {ClientOf(t)}) :
          content' = [content EXCEPT ![local[t].body] = s]
    BY <1>2 DEF Process
  <2>4. Filling(t, "body")
    BY <2>1, <2>2, <2>3 DEF Filling
  <2> QED
    BY <1>0, <2>4 DEF ContentStep
<1>3. CASE JoinOut(t)
  <2>1. BufGives(t, "body")
    BY <1>0, <1>3 DEF JoinOut, At, BufGives, GetsBuffer, Locals, WithBody
  <2> QED
    BY <1>0, <1>3, <2>1 DEF ContentStep, JoinOut, queuesVars, wqVars
<1>4. CASE WorkerTakes(t)
  BY <1>4 DEF ContentStep
<1> QED
  BY <1>1, <1>2, <1>3, <1>4 DEF WorkerNext

\* All the steps.
LEMMA ContentSteps ==
  ASSUME Base, [Next]_vars, content \in [Buffer -> SUBSET Clients]
  PROVE  ContentStep
<1>1. ASSUME MainNext PROVE Quiet
  <2>1. UNCHANGED <<content, bufPoolVars>>
    BY <1>1
    DEF MainNext, Peek, PollTimeout, Accept, GetTdBlocks, GetTd, EnqueueTd,
      WakeupTd, Check, StopReq, StopReqWakeup, StopWorker, StopWorkerWakeup, dataVars
  <2>2. \A t \in Threads : SameBufs(t)
    BY <1>1, MainSameBufs
  <2> QED
    BY <2>1, <2>2 DEF Quiet, bufPoolVars
<1>2. CASE \E c \in Clients : Arrive(c)
  BY <1>2 DEF Arrive, Quiet, SameBufs, bufPoolVars, dataVars, ContentStep
<1>3. CASE Signal \/ UNCHANGED vars
  BY <1>3 DEF Signal, Quiet, SameBufs, vars, bufPoolVars, dataVars, ContentStep
<1>4. CASE SpuriousWakeup
  BY <1>4 DEF SpuriousWakeup, BufPool!SpuriousWakeup, Quiet, SameBufs, bufPoolVars,
    dataVars, ContentStep
<1> QED
  BY <1>1, <1>2, <1>3, <1>4, RespondContent, ReqContent, WorkerContent
  DEF Next, ContentStep, Others

\* Who comes to talk to a client brings nothing in its buffers.
LEMMA NewTalkers ==
  ASSUME Base, TdInv, BufInv, ContentInv, [Next]_vars, NEW u \in Talking', u \notin Talking
  PROVE  HoldsOwn(u)'
<1>0. ThreadTypes /\ u \in Others /\ u \in Threads /\ wq \in Seq(Job)
  <2>1. u \in Others
    BY DEF Talking, Others
  <2> QED
    BY <2>1, ThreadsDistinct DEF Base, DataTypes
<1>1. Locals(u)' /\ Locals(u)
  <2>1. PICK t \in Threads : Moves(t)
    BY SomeoneMoves
  <2> QED
    BY <1>0, <2>1, MovesKeep DEF Base, Control
<1>2. CASE u \in Reqs /\ ReqTakes(u)
  <2>1. pc'[u] \in {"stopped", "getB"}
    BY <1>0, <1>2 DEF ReqTakes, Goto, ThreadTypes
  <2>2. local'[u].body = 0 /\ local'[u].resp = 0
    BY <1>1, <1>2, <2>1, ThreadsDistinct DEF Locals, WithBody, WithResp
  <2> QED
    BY <2>2 DEF HoldsOwn
<1>3. CASE u \in Workers /\ WorkerTakes(u)
  <2>1. /\ wq # <<>> /\ local'[u].body = Head(wq).out /\ content' = content
        /\ pc'[u] \in {"exited", "process"}
    BY <1>0, <1>3, WorkerTakesHanded DEF WorkerTakes, dataVars, Goto, ThreadTypes
  <2>2. local'[u].resp = 0
    BY <1>1, <2>1 DEF Locals, WithResp
  <2>3. Head(wq) \in ItemsOf(wq)
    BY <1>0, <2>1, ItemsOfTail
  <2>4. local'[u].body # 0 => content'[local'[u].body] = {}
    BY <2>1, <2>3 DEF ContentInv
  <2> QED
    BY <2>2, <2>4 DEF HoldsOwn
<1>4. CASE u \in Reqs /\ EnqueueJob(u)
  <2>1. pc'[u] = "joinBServed"
    BY <1>0, <1>4 DEF EnqueueJob, Goto, ThreadTypes
  <2> QED
    BY <2>1 DEF Talking
<1>5. CASE Close(u)
  <2>1. pc'[u] \in {"joinB", "joinOut"}
    BY <1>0, <1>5 DEF Close, Goto, ThreadTypes
  <2> QED
    BY <2>1 DEF Talking
<1> QED
  BY <1>0, <1>2, <1>3, <1>4, <1>5, TalkingChanges

\* Who talks on has its own data only, if no buffer of its reply has got more.
LEMMA TalkersHold ==
  ASSUME Base, TdInv, ContentInv, [Next]_vars, NEW u \in Talking, u \in Talking',
         \A k \in {local'[u].body, local'[u].resp} \ {0} :
           /\ k \in {local[u].body, local[u].resp}
           /\ content'[k] \subseteq content[k]
  PROVE  HoldsOwn(u)'
<1>1. Answer(u)' = Answer(u)
  BY ClientStays DEF Answer
<1>2. HoldsOwn(u)
  BY DEF ContentInv
<1> QED
  BY <1>1, <1>2 DEF HoldsOwn

\* A step that gets to one buffer leaves the replies of the others alone.
LEMMA ElsewhereHold ==
  ASSUME Base, TdInv, BufInv, ContentInv, [Next]_vars,
         NEW t \in Others, NEW k, k \notin bufBusy \/ k \in BufHeld[t],
         \A m \in Buffer \ {k} : content'[m] = content[m],
         NEW u \in Talking, u \in Talking', u # t, SameBufs(u)
  PROVE  HoldsOwn(u)'
<1>0. u \in BufOwners /\ t \in BufOwners /\ u \in Threads
  BY ThreadsDistinct DEF Talking, BufOwners, Others
<1>1. BufHeld[u] \subseteq Buffer /\ k \notin BufHeld[u]
  BY <1>0, BufOwnersApart DEF BufInv
<1>2. \A m \in {local[u].body, local[u].resp} \ {0} : m \in BufHeld[u]
  BY <1>0, BufHeldValues DEF BufOwn
<1> QED
  BY <1>1, <1>2, TalkersHold DEF SameBufs

\* What a thread or the work queue has in its hands is in use, and no other's.
LEMMA HandsApart ==
  ASSUME Base, BufInv, NEW t \in Others, NEW v \in {"b", "body", "resp"}, local[t][v] # 0
  PROVE  /\ local[t][v] \in BufHeld[t] /\ local[t][v] \in bufBusy /\ local[t][v] \in Buffer
         /\ \A j \in ItemsOf(wq) : j.out # 0 => j.out # local[t][v]
<1>0. t \in Threads /\ t \in BufOwners /\ "wq" \in BufOwners /\ t # "wq"
  BY ThreadsDistinct, BufHeldValues DEF BufOwners
<1>1. local[t][v] \in BufHeld[t]
  BY <1>0, BufHeldValues DEF BufOwn
<1>2. \A j \in ItemsOf(wq) : j.out # 0 => j.out \in BufHeld["wq"]
  BY BufHeldValues
<1> QED
  BY <1>0, <1>1, <1>2, BufOwnersApart DEF BufInv

\* The buffers of the jobs are buffers in use.
LEMMA OutsHeld ==
  ASSUME Base, BufInv, NEW j \in ItemsOf(wq), j.out # 0
  PROVE  j.out \in Buffer /\ j.out \in bufBusy
<1>1. j.out \in BufHeld["wq"] /\ "wq" \in BufOwners
  BY BufHeldValues DEF BufOwners
<1> QED
  BY <1>1, BufOwnersApart DEF BufInv

\* The contents after a step that leaves them alone.
LEMMA QuietContent ==
  ASSUME Ownership, ContentInv, [Next]_vars, Quiet,
         \A t \in Reqs : ~EnqueueJob(t)
  PROVE  ContentInv'
<1>1. ItemsOf(wq') \subseteq ItemsOf(wq) \cup {StopJob} /\ StopJob.out = 0
  BY JobsChange DEF Ownership, StopJob
<1>2. ASSUME NEW u \in Talking, u \in Talking' PROVE HoldsOwn(u)'
  <2>1. SameBufs(u)
    BY ThreadsDistinct DEF Quiet, Talking, Others
  <2> QED
    BY <1>2, <2>1, TalkersHold DEF Ownership, Quiet, SameBufs
<1>3. \A u \in Talking' : HoldsOwn(u)'
  BY <1>2, NewTalkers DEF Ownership
<1>4. UNCHANGED <<content, bufBusy>>
  BY DEF Quiet
<1> QED
  BY <1>1, <1>3, <1>4 DEF ContentInv

\* The out buffer goes with the job as it came from the pool.
LEMMA EnqueueJobContent ==
  ASSUME Ownership, ContentInv, [Next]_vars, NEW t \in Reqs, EnqueueJob(t)
  PROVE  ContentInv'
<1>0. /\ ThreadTypes /\ wq \in Seq(Job) /\ t \in Threads /\ t \in Others /\ Locals(t)
      /\ Base /\ TdInv /\ BufInv
  BY ThreadsDistinct DEF Ownership, Base, DataTypes, Control
<1> DEFINE j == [td |-> local[t].td, out |-> local[t].body]
<1>1. /\ wq' = Append(wq, j) /\ UNCHANGED <<content, bufBusy>>
      /\ local' = [local EXCEPT ![t].body = 0] /\ pc[t] = "enqueueJob"
      /\ pc'[t] = "joinBServed"
  BY <1>0 DEF EnqueueJob, At, WorkQ!Enqueue, bufPoolVars, dataVars, Goto, ThreadTypes
<1>2. local[t].td \in Td \cup {0} /\ local[t].body \in Buffer \cup {0}
  BY <1>0 DEF ThreadTypes, LocalsOf
<1>3. j \in Job /\ j.out = local[t].body
  BY <1>2 DEF Job, StopTd
<1>4. content[local[t].body] = {} /\ local[t].body # 0
  <2>1. t \in Talking /\ local[t].body # 0
    BY <1>0, <1>1 DEF Talking, Locals, WithBody
  <2> QED
    BY <2>1 DEF ContentInv, HoldsOwn, Answer
<1> HIDE DEF j
<1>5. ItemsOf(wq') = ItemsOf(wq) \cup {j}
  BY <1>0, <1>1, <1>3, ItemsOfAppend
<1>6. ASSUME NEW u \in Talking, u \in Talking' PROVE HoldsOwn(u)'
  <2>1. u # t
    BY <1>1, <1>6 DEF Talking
  <2>2. u \in Threads
    BY ThreadsDistinct DEF Talking, Others
  <2>3. local'[u] = local[u]
    BY <1>0, <1>1, <2>1, <2>2 DEF ThreadTypes
  <2> QED
    BY <1>0, <1>1, <1>6, <2>3, TalkersHold
<1>7. \A u \in Talking' : HoldsOwn(u)'
  BY <1>0, <1>6, NewTalkers
<1> QED
  BY <1>1, <1>3, <1>4, <1>5, <1>7 DEF ContentInv

\* The worker finds it so.
LEMMA WorkerTakesContent ==
  ASSUME Ownership, ContentInv, [Next]_vars, NEW t \in Workers, WorkerTakes(t)
  PROVE  ContentInv'
<1>0. ThreadTypes /\ wq \in Seq(Job) /\ t \in Threads /\ Base /\ TdInv /\ BufInv
  BY ThreadsDistinct DEF Ownership, Base, DataTypes
<1>1. /\ wq # <<>> /\ wq' = Tail(wq) /\ UNCHANGED <<content, bufBusy>>
      /\ pc[t] = "dequeue" /\ \A u \in Threads \ {t} : SameBufs(u)
  BY <1>0, WorkerTakesHanded DEF WorkerTakes, At, bufPoolVars, dataVars
<1>2. ItemsOf(wq') \subseteq ItemsOf(wq)
  BY <1>0, <1>1, ItemsOfTail
<1>3. ASSUME NEW u \in Talking, u \in Talking' PROVE HoldsOwn(u)'
  <2>1. u # t /\ u \in Threads
    BY <1>1, <1>3, ThreadsDistinct DEF Talking, Others
  <2> QED
    BY <1>0, <1>1, <1>3, <2>1, TalkersHold DEF SameBufs
<1>4. \A u \in Talking' : HoldsOwn(u)'
  BY <1>0, <1>3, NewTalkers
<1> QED
  BY <1>1, <1>2, <1>4 DEF ContentInv

\* A buffer comes from the pool empty; http_response copies the thread's own
\* reply into it.
LEMMA TakingContent ==
  ASSUME Ownership, ContentInv, [Next]_vars,
         NEW t \in Others, NEW k \in Buffer, NEW v \in {"b", "body", "resp"}, Taking(t, v, k)
  PROVE  ContentInv'
<1>0. ThreadTypes /\ t \in Threads /\ Locals(t) /\ Base /\ TdInv /\ BufInv /\ k # 0
  BY ThreadsDistinct DEF Ownership, Base, Control
<1>1. /\ BufTakes(t, v, k) /\ local' = [local EXCEPT ![t][v] = k]
      /\ pc[t] \in GetsBuffer /\ local[t][v] = 0
  BY DEF Taking, BufTakes
<1>a. wq' = wq
  BY DEF Taking
<1>2. k \notin bufBusy /\ \A u \in Threads \ {t} : SameBufs(u)
  BY <1>0, <1>1, <1>a, BufTakesGets
<1>3. bufBusy' = bufBusy \cup {k}
  BY <1>0, <1>1 DEF BufTakes, BufPool!Grant, BufPool!Null
<1>4. /\ content \in [Buffer -> SUBSET Clients] /\ content[k] = {}
      /\ \A m \in Buffer \ bufBusy : content[m] = {}
      /\ \A j \in ItemsOf(wq) : j.out # 0 => content[j.out] = {}
  BY <1>2 DEF ContentInv
<1>5. t \in Talking
  BY <1>1 DEF Talking, Others, GetsBuffer
<1>6. /\ content' \in [Buffer -> SUBSET Clients]
      /\ \A m \in Buffer \ {k} : content'[m] = content[m]
      /\ content'[k] \subseteq Answer(t)
  <2>1. CASE UNCHANGED content
    BY <1>4, <2>1
  <2>2. CASE /\ v = "resp" /\ local[t].body # 0
             /\ content' = [content EXCEPT ![k] = @ \cup content[local[t].body]]
    <3>1. local[t].body \in Buffer
      BY <1>0, <2>2 DEF ThreadTypes, LocalsOf
    <3>2. content[local[t].body] \subseteq Answer(t)
      BY <1>5, <2>2 DEF ContentInv, HoldsOwn
    <3> QED
      BY <1>4, <2>2, <3>1, <3>2
  <2> QED
    BY <2>1, <2>2 DEF Taking
<1>7. \A m \in Buffer \ bufBusy' : content'[m] = {}
  BY <1>3, <1>4, <1>6
<1>8. \A j \in ItemsOf(wq) : j.out # 0 => content'[j.out] = {}
  BY <1>0, <1>2, <1>4, <1>6, OutsHeld
<1>9. ASSUME NEW u \in Talking, u \in Talking' PROVE HoldsOwn(u)'
  <2>1. u \in Threads /\ u \in Others
    BY ThreadsDistinct DEF Talking, Others
  <2>2. CASE u # t
    BY <1>0, <1>2, <1>6, <1>9, <2>1, <2>2, ElsewhereHold
  <2>3. CASE u = t
    <3>1. local'[t] = [local[t] EXCEPT ![v] = k] /\ local[t] \in LocalsOf
      BY <1>0, <1>1 DEF ThreadTypes
    <3>2. Answer(t)' = Answer(t)
      BY <1>0, <1>5, ClientStays DEF Answer
    <3>3. ASSUME NEW m \in {local'[t].body, local'[t].resp} \ {0}
          PROVE  content'[m] \subseteq Answer(t)
      <4>1. m = k \/ m \in {local[t].body, local[t].resp} \ {0}
        BY <3>1 DEF LocalsOf
      <4>2. ASSUME m # k PROVE content'[m] \subseteq Answer(t)
        <5>1. m \in {local[t].body, local[t].resp} \ {0}
          BY <4>1, <4>2
        <5>2. content[m] \subseteq Answer(t)
          BY <1>5, <5>1 DEF ContentInv, HoldsOwn
        <5>3. m \in Buffer
          BY <3>1, <5>1 DEF LocalsOf
        <5> QED
          BY <1>6, <4>2, <5>2, <5>3
      <4> QED
        BY <1>6, <4>2
    <3> QED
      BY <2>3, <3>2, <3>3 DEF HoldsOwn
  <2> QED
    BY <2>2, <2>3
<1>10. \A u \in Talking' : HoldsOwn(u)'
  BY <1>0, <1>9, NewTalkers
<1> QED
  BY <1>a, <1>6, <1>7, <1>8, <1>10 DEF ContentInv

\* A buffer is empty when it goes back.
LEMMA GivingContent ==
  ASSUME Ownership, ContentInv, [Next]_vars, wq' = wq,
         NEW t \in Others, NEW v \in {"b", "body", "resp"}, BufGives(t, v)
  PROVE  ContentInv'
<1> DEFINE k == local[t][v]
<1>0. ThreadTypes /\ t \in Threads /\ Base /\ TdInv /\ BufInv
  BY ThreadsDistinct DEF Ownership, Base
<1>1. /\ local' = [local EXCEPT ![t][v] = 0] /\ k # 0
      /\ content' = [content EXCEPT ![k] = {}]
      /\ bufBusy' = bufBusy \ {k}
  BY DEF BufGives, JoinBuffer, BufPool!Join
<1>2. k \in Buffer
  BY <1>0, <1>1, HandsApart
<1> HIDE DEF k
<1>3. /\ content \in [Buffer -> SUBSET Clients]
      /\ \A m \in Buffer \ bufBusy : content[m] = {}
      /\ \A j \in ItemsOf(wq) : j.out # 0 => content[j.out] = {}
  BY DEF ContentInv
<1>4. /\ content' \in [Buffer -> SUBSET Clients]
      /\ content'[k] = {} /\ \A m \in Buffer \ {k} : content'[m] = content[m]
  BY <1>1, <1>2, <1>3
<1>5. \A m \in Buffer \ bufBusy' : content'[m] = {}
  BY <1>1, <1>3, <1>4
<1>6. \A j \in ItemsOf(wq) : j.out # 0 => content'[j.out] = {}
  BY <1>0, <1>3, <1>4, OutsHeld
<1>7. ASSUME NEW u \in Talking, u \in Talking' PROVE HoldsOwn(u)'
  <2>1. u \in Threads
    BY ThreadsDistinct DEF Talking, Others
  <2>2. \A m \in {local'[u].body, local'[u].resp} \ {0} : m \in {local[u].body, local[u].resp}
    BY <1>0, <1>1, <2>1 DEF ThreadTypes, LocalsOf
  <2>3. \A m \in {local[u].body, local[u].resp} \ {0} : m \in Buffer
    BY <1>0, <2>1 DEF ThreadTypes, LocalsOf
  <2>4. \A m \in Buffer : content'[m] \subseteq content[m]
    BY <1>4
  <2> QED
    BY <1>0, <1>7, <2>2, <2>3, <2>4, TalkersHold
<1>8. \A u \in Talking' : HoldsOwn(u)'
  BY <1>0, <1>7, NewTalkers
<1> QED
  BY <1>4, <1>5, <1>6, <1>8 DEF ContentInv

\* A request is read into a buffer that is not the reply's, an answer is written
\* to the reply of its own client.
LEMMA FillingContent ==
  ASSUME Ownership, ContentInv, [Next]_vars,
         NEW t \in Others, NEW v \in {"b", "body"}, Filling(t, v)
  PROVE  ContentInv'
<1> DEFINE k == local[t][v]
<1>0. ThreadTypes /\ t \in Threads /\ Base /\ TdInv /\ BufInv /\ ClientsInv
  BY ThreadsDistinct DEF Ownership, Base
<1>1. /\ t \in Talking /\ k # 0 /\ UNCHANGED <<local, bufBusy, wq>>
      /\ (t \in Reqs /\ v = "b") \/ (t \in Workers /\ v = "body")
  <2>1. t \in Talking /\ k # 0 /\ UNCHANGED <<local, bufBusy, wq>>
    BY DEF Filling, bufPoolVars
  <2>2. (t \in Reqs /\ v = "b") \/ (t \in Workers /\ v = "body")
    BY DEF Filling
  <2> QED
    BY <2>1, <2>2
<1>2. PICK s \in SUBSET (content[k] \cup {ClientOf(t)}) : content' = [content EXCEPT ![k] = s]
  BY DEF Filling
<1>3. k \in Buffer /\ k \in BufHeld[t] /\ k \in bufBusy
  BY <1>0, <1>1, HandsApart
<1>4. \A j \in ItemsOf(wq) : j.out # 0 => j.out # k
  BY <1>0, <1>1, HandsApart
<1>5. ClientOf(t) \in Clients
  BY <1>0, <1>1, TalkersServe DEF ClientsInv, ClientOf
<1>6. NamesApart(t)
  BY <1>0 DEF BufInv
<1>7. v = "b" => k \notin {local[t].body, local[t].resp}
  BY <1>1, <1>6 DEF NamesApart
<1> HIDE DEF k
<1>8. /\ content \in [Buffer -> SUBSET Clients]
      /\ \A m \in Buffer \ bufBusy : content[m] = {}
      /\ \A j \in ItemsOf(wq) : j.out # 0 => content[j.out] = {}
  BY DEF ContentInv
<1>9. /\ content' \in [Buffer -> SUBSET Clients]
      /\ content'[k] = s /\ \A m \in Buffer \ {k} : content'[m] = content[m]
  <2>1. s \in SUBSET Clients
    BY <1>2, <1>3, <1>5, <1>8
  <2> QED
    BY <1>2, <1>3, <1>8, <2>1
<1>10. \A m \in Buffer \ bufBusy' : content'[m] = {}
  BY <1>1, <1>3, <1>8, <1>9
<1>11. \A j \in ItemsOf(wq) : j.out # 0 => content'[j.out] = {}
  BY <1>0, <1>4, <1>8, <1>9, OutsHeld
<1>12. ASSUME NEW u \in Talking, u \in Talking' PROVE HoldsOwn(u)'
  <2>1. u \in Threads /\ SameBufs(u)
    BY <1>1, ThreadsDistinct DEF Talking, Others, SameBufs
  <2>2. CASE u # t
    BY <1>0, <1>3, <1>9, <1>12, <2>1, <2>2, ElsewhereHold
  <2>3. CASE u = t /\ v = "b"
    <3>1. \A m \in {local[t].body, local[t].resp} \ {0} : m \in Buffer
      BY <1>0 DEF ThreadTypes, LocalsOf
    <3>2. \A m \in {local[t].body, local[t].resp} \ {0} : content'[m] = content[m]
      BY <1>7, <1>9, <2>3, <3>1
    <3> QED
      BY <1>0, <1>12, <2>1, <2>3, <3>2, TalkersHold DEF SameBufs
  <2>4. CASE u = t /\ v = "body"
    <3>1. Answer(t)' = Answer(t) /\ Answer(t) = {ClientOf(t)}
      BY <1>0, <1>1, <2>4, ClientStays, ThreadsDistinct DEF Answer
    <3>2. \A m \in {local[t].body, local[t].resp} \ {0} : content[m] \subseteq Answer(t) /\ m \in Buffer
      BY <1>0, <1>1 DEF ContentInv, HoldsOwn, ThreadTypes, LocalsOf
    <3>3. k \in {local[t].body, local[t].resp} \ {0}
      BY <1>1, <2>4 DEF k
    <3>4. \A m \in {local[t].body, local[t].resp} \ {0} : content'[m] \subseteq Answer(t)
      BY <1>2, <1>9, <3>1, <3>2, <3>3
    <3> QED
      BY <1>1, <2>4, <3>1, <3>4 DEF HoldsOwn
  <2> QED
    BY <1>1, <2>2, <2>3, <2>4
<1>13. \A u \in Talking' : HoldsOwn(u)'
  BY <1>0, <1>12, NewTalkers
<1> QED
  BY <1>1, <1>9, <1>10, <1>11, <1>13 DEF ContentInv

\* The buffers have nothing in them at the start, and nothing foreign later on.
LEMMA ContentKept ==
  /\ Init => ContentInv
  /\ Ownership /\ ContentInv /\ [Next]_vars => ContentInv'
<1>1. Init => ContentInv
  <2>1. Init => wq = <<>> /\ \A t \in Others : pc[t] = "dequeue"
    BY ThreadsDistinct DEF Init, WorkQ!Init
  <2>2. Init => ItemsOf(wq) = {} /\ Talking = {}
    BY <2>1 DEF ItemsOf, Talking, Others
  <2> QED
    BY <2>2 DEF Init, ContentInv
<1>2. ASSUME Ownership, ContentInv, [Next]_vars PROVE ContentInv'
  <2>1. ContentStep
    BY <1>2, ContentSteps DEF Ownership, ContentInv
  <2> QED
    BY <1>2, <2>1, QuietContent, EnqueueJobContent, WorkerTakesContent, TakingContent,
      GivingContent, FillingContent DEF ContentStep
<1> QED
  BY <1>1, <1>2

\* All the variables of the server have their types: in particular no buffer
\* gets data by a thread that has no client, and server_stop_threads ends as
\* many rounds as there are workers.
THEOREM ServerTypes == Spec => []STypeOK
<1>1. Init => Ownership /\ ContentInv
  BY OwnershipKept, ContentKept
<1>2. Ownership /\ ContentInv /\ [Next]_vars => (Ownership /\ ContentInv)'
  BY OwnershipKept, ContentKept
<1>3. Ownership /\ ContentInv => STypeOK
  BY DEF Ownership, Base, DataTypes, ThreadTypes, ContentInv, STypeOK, Job, LocalsOf, Fields
<1> QED
  BY <1>1, <1>2, <1>3, PTL DEF Spec

-----------------------------------------------------------------------------
(* What the clients see.                                                   *)

\* The client of e may have got its reply.
Answered(e) == \E t \in Talking : /\ local[t].td = e
                                  /\ pc[t] \in {"joinResponse", "joinError", "close"}

RepliesInv ==
  /\ reply = [c \in Clients |-> reply[c]]
  /\ ReplyIsOwn
  /\ \A e \in InService : ~Answered(e) => reply[field[e].client] = <<>>
  /\ pc[Main] = "getTd" => reply[local[Main].client] = <<>>
  /\ \A c \in Clients : conn[c] \in {"away", "backlog"} => reply[c] = <<>>

\* After its write, a thread goes on to the close.
LEMMA AnswererGoesOn ==
  ASSUME Base, [Next]_vars, NEW t \in Talking,
         pc[t] \in {"joinResponse", "joinError", "close"}
  PROVE  pc'[t] \in {"joinResponse", "joinError", "close"} \/ Close(t)
<1>0. ThreadTypes /\ t \in Others /\ t # Main /\ t \in Threads
  BY ThreadsDistinct DEF Base, Talking, Others
<1> DEFINE Goal == pc'[t] \in {"joinResponse", "joinError", "close"} \/ Close(t)
<1> USE DEF ThreadTypes, Goto, At
<1>1. MainNext => pc'[t] = pc[t]
  BY <1>0
  DEF MainNext, Peek, PollTimeout, Accept, GetTdBlocks, GetTd, EnqueueTd,
    WakeupTd, Check, StopReq, StopReqWakeup, StopWorker, StopWorkerWakeup
<1>2. ASSUME NEW u \in Others, Respond(u) PROVE Goal
  BY <1>0, <1>2
  DEF Respond, GetResponse, Write, JoinResponse, Close, JoinTd, GetBufferBlocks
<1>3. ASSUME NEW u \in Reqs, ReqNext(u) PROVE Goal
  BY <1>0, <1>3
  DEF ReqNext, ReqSleeps, ReqTakes, ReqStops, GetB, ReadFails, ReadBadQuery,
    ReadRequest, GetError, JoinError, JoinB, GetOut, EnqueueJob, JoinBServed, WakeupJob
<1>4. ASSUME NEW u \in Workers, WorkerNext(u) PROVE Goal
  BY <1>0, <1>4 DEF WorkerNext, WorkerSleeps, WorkerTakes, Process, JoinOut
<1>5. (\E c \in Clients : Arrive(c)) \/ Signal \/ SpuriousWakeup \/ UNCHANGED vars => pc'[t] = pc[t]
  BY <1>0 DEF Arrive, Signal, SpuriousWakeup, vars
<1> QED
  BY <1>1, <1>2, <1>3, <1>4, <1>5 DEF Next, Others

\* A client that may have got its reply stays that way until its connection is
\* closed.
LEMMA AnsweredStays ==
  ASSUME Base, TdInv, [Next]_vars, NEW e \in InService, e \in InService', Answered(e)
  PROVE  Answered(e)'
<1>1. PICK t \in Talking : /\ local[t].td = e
                           /\ pc[t] \in {"joinResponse", "joinError", "close"}
  BY DEF Answered
<1>2. ~Close(t)
  <2>1. t \in Others
    BY DEF Talking, Others
  <2>2. Close(t) => InService' = InService \ {e}
    BY <1>1, <2>1, CloseEnds DEF ServiceEnds
  <2> QED
    BY <2>2
<1>3. pc'[t] \in {"joinResponse", "joinError", "close"} /\ local'[t].td = e
  BY <1>1, <1>2, AnswererGoesOn, TalkerStays
<1>4. t \in Talking'
  BY <1>3 DEF Talking
<1> QED
  BY <1>3, <1>4 DEF Answered

\* A write is the first for its client, and has nothing of other clients.
LEMMA WriteIsFirst ==
  ASSUME Ownership, ContentInv, RepliesInv, NEW t \in Others, Write(t), reply' # reply
  PROVE  /\ t \in Talking /\ ClientOf(t) \in Clients /\ local[t].td \in InService
         /\ pc[t] = "write" /\ pc'[t] = "joinResponse" /\ UNCHANGED <<local, field, conn>>
         /\ conn[ClientOf(t)] = "open"
         /\ reply[ClientOf(t)] = <<>>
         /\ \E s \in {{}, {ClientOf(t)}} :
              reply' = [reply EXCEPT ![ClientOf(t)] = <<s>>]
<1>0. ThreadTypes /\ t \in Threads /\ Locals(t) /\ Base /\ TdInv /\ ClientsInv
  BY ThreadsDistinct DEF Ownership, Base, Control
<1>1. /\ pc[t] = "write" /\ pc'[t] = "joinResponse" /\ UNCHANGED <<local, field, conn>>
      /\ reply' = [reply EXCEPT ![ClientOf(t)] = Append(@, content[local[t].resp])]
  BY <1>0 DEF Write, At, Goto, ThreadTypes, dataVars
<1>2. t \in Talking
  BY <1>1 DEF Talking, Others
<1>3. /\ local[t].td \in InService /\ local[t].td \in TdHeld[t]
      /\ ClientOf(t) \in Clients /\ conn[ClientOf(t)] = "open"
  BY <1>0, <1>2, TalkersServe DEF ClientsInv, ClientOf
<1>4. ~Answered(local[t].td)
  <2> SUFFICES ASSUME NEW u \in Talking, local[u].td = local[t].td,
                      pc[u] \in {"joinResponse", "joinError", "close"}
               PROVE  FALSE
    BY DEF Answered
  <2>1. u # t
    BY <1>1
  <2>2. local[t].td \in TdHeld[u] /\ u \in Owners /\ t \in Owners
    BY <1>0, <1>2, TalkersServe
  <2> QED
    BY <1>0, <1>3, <2>1, <2>2, TdOwners DEF TdInv
<1>5. reply[ClientOf(t)] = <<>>
  BY <1>3, <1>4 DEF RepliesInv, ClientOf
<1>6. content[local[t].resp] \in {{}, {ClientOf(t)}}
  <2>1. local[t].resp # 0
    BY <1>0, <1>1 DEF Locals, WithResp
  <2>2. content[local[t].resp] \subseteq Answer(t)
    BY <1>2, <2>1 DEF ContentInv, HoldsOwn
  <2> QED
    BY <2>2 DEF Answer
<1>7. reply' = [reply EXCEPT ![ClientOf(t)] = <<content[local[t].resp]>>]
  <2>1. Append(<<>>, content[local[t].resp]) = <<content[local[t].resp]>>
    OBVIOUS
  <2> QED
    BY <1>1, <1>3, <1>5, <2>1
<1> QED
  BY <1>1, <1>2, <1>3, <1>5, <1>6, <1>7

\* A connection that has not been accepted is a new one.
LEMMA NotAccepted ==
  ASSUME Base, [Next]_vars, NEW c \in Clients, conn'[c] \in {"away", "backlog"}
  PROVE  conn[c] \in {"away", "backlog"}
<1>0. conn \in [Clients -> {"away", "backlog", "refused", "open", "closed"}]
  BY DEF Base, DataTypes
<1>1. Accept => conn[c] \in {"away", "backlog"}
  BY <1>0 DEF Accept, Backlog
<1>2. Check => conn[c] \in {"away", "backlog"}
  BY <1>0 DEF Check, Backlog
<1>3. (\E d \in Clients : Arrive(d)) => conn[c] \in {"away", "backlog"}
  BY <1>0 DEF Arrive
<1>4. (\E t \in Others : Close(t)) => conn[c] \in {"away", "backlog"}
  BY <1>0 DEF Close
<1> QED
  BY <1>1, <1>2, <1>3, <1>4, WhoChanges

\* The replies when a thread writes one.
LEMMA WriteKeepsReplies ==
  ASSUME Ownership, ContentInv, RepliesInv, [Next]_vars,
         NEW t \in Others, Write(t), reply' # reply
  PROVE  RepliesInv'
<1>0. ThreadTypes /\ Main \in Threads /\ t # Main /\ Base /\ TdInv /\ ClientsInv
  BY ThreadsDistinct DEF Ownership, Base
<1> DEFINE d == ClientOf(t)
<1>e. PICK e \in InService : e = local[t].td
  BY WriteIsFirst
<1>1. /\ t \in Talking /\ d \in Clients /\ d = field[e].client
      /\ pc'[t] = "joinResponse" /\ UNCHANGED <<local, field, conn>>
      /\ conn[d] = "open"
  BY <1>e, WriteIsFirst DEF ClientOf
<1>2. PICK s \in {{}, {d}} : reply' = [reply EXCEPT ![d] = <<s>>]
  BY WriteIsFirst
<1>3. pc'[Main] = pc[Main]
  BY <1>0 DEF Write, Goto, ThreadTypes
<1>4. InService' \subseteq InService
  <2>1. ~GetTd
    BY <1>0, <1>3 DEF GetTd, At, Goto, ThreadTypes
  <2> QED
    BY <1>0, <2>1, ServiceSteps DEF ServiceStarts, ServiceEnds, ServiceKept
<1>5. Answered(e)'
  <2>1. t \in Talking'
    BY <1>1 DEF Talking
  <2> QED
    BY <1>e, <1>1, <2>1 DEF Answered
<1> HIDE DEF d
<1>6. /\ reply = [c \in Clients |-> reply[c]]
      /\ \A c \in Clients : reply[c] \in {<<>>, <<{}>>, <<{c}>>}
      /\ \A f \in InService : ~Answered(f) => reply[field[f].client] = <<>>
      /\ pc[Main] = "getTd" => reply[local[Main].client] = <<>>
      /\ \A c \in Clients : conn[c] \in {"away", "backlog"} => reply[c] = <<>>
  BY DEF RepliesInv, ReplyIsOwn
<1>7. reply'[d] = <<s>> /\ \A c \in Clients \ {d} : reply'[c] = reply[c]
  BY <1>1, <1>2, <1>6
<1>8. reply' = [c \in Clients |-> reply'[c]]
  BY <1>2, <1>6
<1>9. ReplyIsOwn'
  BY <1>2, <1>6, <1>7 DEF ReplyIsOwn
<1>10. ASSUME NEW f \in InService', ~Answered(f)' PROVE reply'[field'[f].client] = <<>>
  <2>1. f # e /\ f \in InService
    BY <1>4, <1>5, <1>10
  <2>2. ~Answered(f)
    BY <1>0, <1>10, <2>1, AnsweredStays
  <2>3. field[f].client \in Clients \ {d}
    BY <1>0, <1>1, <2>1 DEF ClientsInv
  <2> QED
    BY <1>1, <1>6, <1>7, <2>1, <2>2, <2>3
<1>11. pc'[Main] = "getTd" => reply'[local'[Main].client] = <<>>
  <2>1. pc[Main] = "getTd" => local[Main].client \in Clients \ {d}
    BY <1>0, <1>1 DEF ClientsInv
  <2> QED
    BY <1>1, <1>3, <1>6, <1>7, <2>1
<1>12. \A c \in Clients : conn'[c] \in {"away", "backlog"} => reply'[c] = <<>>
  BY <1>1, <1>6, <1>7
<1> QED
  BY <1>8, <1>9, <1>10, <1>11, <1>12 DEF RepliesInv

\* The replies when nobody does.
LEMMA SilenceKeepsReplies ==
  ASSUME Ownership, RepliesInv, [Next]_vars, reply' = reply
  PROVE  RepliesInv'
<1>0. /\ Base /\ TdInv /\ ClientsInv
      /\ field \in [Td \cup {StopTd} -> Fields]
  BY DEF Ownership, Base, DataTypes
<1>1. /\ \A f \in InService : ~Answered(f) => reply[field[f].client] = <<>>
      /\ pc[Main] = "getTd" => reply[local[Main].client] = <<>>
      /\ \A c \in Clients : conn[c] \in {"away", "backlog"} => reply[c] = <<>>
  BY DEF RepliesInv
<1>2. ASSUME NEW f \in InService', ~Answered(f)' PROVE reply[field'[f].client] = <<>>
  <2>1. CASE f \in InService
    <3>1. ~Answered(f)
      BY <1>0, <1>2, <2>1, AnsweredStays
    <3>2. field'[f] = field[f]
      BY <1>0, <2>1, FieldsStay
    <3> QED
      BY <1>1, <2>1, <3>1, <3>2
  <2>2. CASE f \notin InService
    <3>1. GetTd /\ f = local'[Main].td
      BY <1>0, <1>2, <2>2, ServiceSteps DEF ServiceStarts, ServiceEnds, ServiceKept
    <3>2. /\ pc[Main] = "getTd" /\ f \in Td
          /\ field' = [field EXCEPT ![f] = [client |-> local[Main].client,
                                            sq |-> TRUE, bp |-> TRUE]]
      BY <1>0, <3>1, GetTdGets
    <3>3. field'[f].client = local[Main].client
      BY <1>0, <3>2
    <3> QED
      BY <1>1, <3>2, <3>3
  <2> QED
    BY <2>1, <2>2
<1>3. pc'[Main] = "getTd" => reply[local'[Main].client] = <<>>
  <2>1. CASE Accept
    <3>1. PICK c \in Clients : /\ local' = [local EXCEPT ![Main].client = c]
                               /\ conn[c] = "backlog"
      BY <2>1 DEF Accept, Backlog
    <3>2. local'[Main].client = c
      BY <1>0, <2>1, <3>1, AcceptOpens
    <3> QED
      BY <1>1, <3>1, <3>2
  <2>2. CASE GetTd
    BY <1>0, <2>2, GetTdGets
  <2> QED
    BY <1>0, <1>1, <2>1, <2>2, MainAtGetTd
<1>4. \A c \in Clients : conn'[c] \in {"away", "backlog"} => reply[c] = <<>>
  BY <1>0, <1>1, NotAccepted
<1>5. (reply = [c \in Clients |-> reply[c]])' /\ ReplyIsOwn'
  BY DEF RepliesInv, ReplyIsOwn
<1> QED
  BY <1>2, <1>3, <1>4, <1>5 DEF RepliesInv

\* All that is known of the server.
ServerInv == Ownership /\ ContentInv /\ RepliesInv

\* It holds at the start and is kept by every step.
LEMMA ServerInvKept == (Init => ServerInv) /\ (ServerInv /\ [Next]_vars => ServerInv')
<1>1. Init => RepliesInv
  <2> SUFFICES ASSUME Init PROVE RepliesInv
    OBVIOUS
  <2>1. InService = {}
    BY TdInitial, ServingOwners DEF InService
  <2>2. pc[Main] = "peek"
    BY ThreadsDistinct DEF Init
  <2>3. reply = [c \in Clients |-> <<>>]
    BY DEF Init
  <2> QED
    BY <2>1, <2>2, <2>3 DEF RepliesInv, ReplyIsOwn
<1>2. ServerInv /\ [Next]_vars => RepliesInv'
  BY WriteKeepsReplies, SilenceKeepsReplies, WhoChanges DEF ServerInv, Ownership
<1> QED
  BY <1>1, <1>2, OwnershipKept, ContentKept DEF ServerInv

\* Each client is sent one reply at most, and nothing that another client sent
\* or was answered is in it: the buffers are emptied on their way back to the
\* pool, and the out buffer and the response belong to one thread at a time. For
\* any number of clients and threads.
THEOREM RepliesAreOwn == Spec => []ReplyIsOwn
<1>1. ServerInv => ReplyIsOwn
  BY DEF ServerInv, RepliesInv
<1> QED
  BY <1>1, ServerInvKept, PTL DEF Spec

-----------------------------------------------------------------------------
(* The service.                                                            *)

\* The open connections fit the service's capacity, and there is room for one
\* more unless the main thread has just accepted one.
LEMMA OpenFits ==
  ASSUME Base, TdInv, ClientsInv, pc[Main] # "getTd"
  PROVE  /\ Cardinality({c \in Clients : conn[c] = "open"}) \in Nat
         /\ Cardinality({c \in Clients : conn[c] = "open"}) < MaxTd + 1
<1> DEFINE S == {c \in Clients : conn[c] = "open"}
           f == [e \in Td |-> field[e].client]
           T == {f[e] : e \in Td}
<1>1. InService \subseteq Td
  BY ServingOwners, TdOwners DEF InService, TdInv
<1>2. S \subseteq T
  BY <1>1 DEF ClientsInv, Accepted
<1>3. IsFiniteSet(Td) /\ Cardinality(Td) = MaxTd /\ MaxTd \in Nat
  <2>1. MaxTd \in Nat /\ MaxTd >= 1
    BY SizesAssumption
  <2> QED
    BY <2>1, FS_Interval DEF Td
<1> HIDE DEF f
<1>4. IsFiniteSet(T) /\ Cardinality(T) \in Nat /\ Cardinality(T) <= Cardinality(Td)
  BY <1>3, ImageBound
<1> HIDE DEF S, T
<1>5. IsFiniteSet(S) /\ Cardinality(S) <= Cardinality(T)
  BY <1>2, <1>4, FS_Subset
<1>6. Cardinality(S) \in Nat
  BY <1>5, FS_CardinalityType
<1> QED
  BY <1>3, <1>4, <1>5, <1>6 DEF S

\* The answers the service counts.
AnswersOf == [c \in Clients |-> Len(reply[c])]

\* Every step of the server is a step of the service, or none.
LEMMA ServiceStep == ServerInv /\ [Next]_vars => [ServiceSpec!Next]_<<conn, AnswersOf>>
<1> SUFFICES ASSUME ServerInv, [Next]_vars
             PROVE  [ServiceSpec!Next]_<<conn, AnswersOf>>
  OBVIOUS
<1>0. /\ Ownership /\ ContentInv /\ RepliesInv /\ Base /\ TdInv /\ ClientsInv
      /\ conn \in [Clients -> {"away", "backlog", "refused", "open", "closed"}]
  BY DEF ServerInv, Ownership, Base, DataTypes
<1>1. UNCHANGED reply => UNCHANGED AnswersOf
  BY DEF AnswersOf
<1>2. CASE Accept
  <2>1. PICK c \in Clients : conn[c] = "backlog" /\ conn' = [conn EXCEPT ![c] = "open"]
    BY <1>2 DEF Accept, Backlog
  <2>2. pc[Main] # "getTd" /\ UNCHANGED reply
    BY <1>2 DEF Accept, At
  <2>3. ServiceSpec!Cardinality(ServiceSpec!Open) < MaxTd + 1
    BY <1>0, <2>2, OpenFits DEF ServiceSpec!Cardinality, Cardinality, ServiceSpec!Open
  <2>4. ServiceSpec!Accept(c)
    BY <1>1, <2>1, <2>2, <2>3 DEF ServiceSpec!Accept, ServiceSpec!Move, AnswersOf
  <2> QED
    BY <2>4 DEF ServiceSpec!Next
<1>3. CASE Check
  <2>1. UNCHANGED reply
    BY <1>3 DEF Check
  <2>2. CASE flag
    <3>1. conn' = [c \in Clients |-> IF conn[c] = "backlog" THEN "refused" ELSE conn[c]]
      BY <1>3, <2>2 DEF Check, Backlog
    <3>2. ServiceSpec!Refuse
      BY <1>1, <2>1, <3>1 DEF ServiceSpec!Refuse, AnswersOf
    <3> QED
      BY <3>2 DEF ServiceSpec!Next
  <2>3. CASE ~flag
    BY <1>1, <1>3, <2>1, <2>3 DEF Check
  <2> QED
    BY <2>2, <2>3
<1>4. ASSUME NEW c \in Clients, Arrive(c) PROVE ServiceSpec!Next
  <2>1. ServiceSpec!Arrive(c)
    BY <1>1, <1>4 DEF Arrive, ServiceSpec!Arrive, ServiceSpec!Move, AnswersOf
  <2> QED
    BY <2>1 DEF ServiceSpec!Next
<1>5. ASSUME NEW t \in Others, Close(t) PROVE ServiceSpec!Next
  <2>1. t \in Talking
    BY <1>5 DEF Close, At, Talking, Others
  <2>2. ClientOf(t) \in Clients /\ conn[ClientOf(t)] = "open"
    BY <1>0, <2>1, TalkersServe DEF ClientsInv, ClientOf
  <2>3. ServiceSpec!Close(ClientOf(t))
    BY <1>1, <1>5, <2>2 DEF Close, ServiceSpec!Close, ServiceSpec!Move, AnswersOf
  <2> QED
    BY <2>2, <2>3 DEF ServiceSpec!Next
<1>6. ASSUME NEW t \in Others, Write(t), reply' # reply PROVE ServiceSpec!Next
  <2>1. PICK c \in Clients : c = ClientOf(t)
    BY <1>0, <1>6, WriteIsFirst
  <2>2. /\ conn[c] = "open" /\ reply[c] = <<>> /\ UNCHANGED conn
        /\ \E s \in {{}, {c}} : reply' = [reply EXCEPT ![c] = <<s>>]
    BY <1>0, <1>6, <2>1, WriteIsFirst
  <2>3. PICK s : reply' = [reply EXCEPT ![c] = <<s>>]
    BY <2>2
  <2>4. reply'[c] = <<s>> /\ \A d \in Clients \ {c} : reply'[d] = reply[d]
    BY <1>0, <2>3 DEF RepliesInv
  <2>5. Len(reply[c]) = 0 /\ Len(reply'[c]) = 1
    BY <2>2, <2>4
  <2>6. AnswersOf' = [AnswersOf EXCEPT ![c] = 1] /\ AnswersOf[c] = 0
    BY <2>4, <2>5 DEF AnswersOf
  <2>7. ServiceSpec!Answer(c)
    BY <2>2, <2>6 DEF ServiceSpec!Answer, AnswersOf
  <2> QED
    BY <2>7 DEF ServiceSpec!Next
<1> QED
  BY <1>1, <1>2, <1>3, <1>4, <1>5, <1>6, WhoChanges

\* The tracker, with its pools, queues and threads, gives its clients the
\* service that Service specifies: each connection is accepted only from the
\* backlog and while there is a thread_data to come, answered at most once and
\* only while it is open, and closed once, or refused by the shutdown.
THEOREM ServerImplementsService == Spec => ImplementsService
<1>1. Init => ServiceSpec!Init
  BY DEF Init, ServiceSpec!Init
<1>2. ServerInv /\ [Next]_vars => [ServiceSpec!Next]_<<conn, AnswersOf>>
  BY ServiceStep
<1> QED
  BY <1>1, <1>2, ServerInvKept, PTL
  DEF Spec, ImplementsService, ServiceSpec!Spec, AnswersOf
=============================================================================
