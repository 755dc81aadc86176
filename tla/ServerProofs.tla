---------------------------- MODULE ServerProofs -----------------------------
(***************************************************************************)
(* Proofs about the tracker as a whole, for any number of clients, threads *)
(* and signals and any size of the pools: how its threads use the pools.   *)
(***************************************************************************)
EXTENDS Server, FiniteSetTheorems, SequenceTheorems, TLAPS

Others == Reqs \cup Workers

MainLabels == {"peek", "poll", "pollForASecond", "getTd", "enqueueTd", "wakeupTd",
               "check", "stopTd", "stopTdWakeup", "stopJob", "stopJobWakeup",
               "join"}
ReqLabels == {"dequeue", "stopped", "hung", "getB", "read", "getError", "getOut",
              "enqueueJob", "joinBServed", "wakeupJob", "getResponse", "write",
              "joinResponse", "joinError", "close", "joinB", "joinTd"}
WorkerLabels == {"dequeue", "process", "getResponse", "write", "joinResponse",
                 "close", "joinOut", "joinTd", "exited"}
LabelsOf(t) == IF t = Main THEN MainLabels
                           ELSE IF t \in Reqs THEN ReqLabels ELSE WorkerLabels

\* The labels at which a thread has a thread_data, and a buffer of each kind,
\* and those at which it asks for a buffer.
WithTd == {"enqueueTd", "getB", "read", "getError", "getOut", "enqueueJob",
           "joinBServed", "wakeupJob", "getResponse", "write", "joinResponse",
           "joinError", "close", "joinB", "joinTd", "process", "joinOut"}
WithB == {"read", "getError", "getOut", "enqueueJob", "joinBServed",
          "getResponse", "write", "joinResponse", "joinError", "close", "joinB"}
WithBody == {"enqueueJob", "getResponse", "write", "joinResponse", "joinError",
             "process", "joinOut"}
WithResp == {"write", "joinResponse"}
GetsBuffer == {"getB", "getError", "getOut", "getResponse"}

Job == [td : Td \cup {StopTd}, out : Buffer \cup {0}]
LocalsOf == [client : Clients \cup {NoClient}, td : Td \cup {0},
             b : Buffer \cup {0}, body : Buffer \cup {0}, resp : Buffer \cup {0}]
Fields == [client : Clients \cup {NoClient}, sq : BOOLEAN, bp : BOOLEAN]

ThreadTypes == pc \in [Threads -> Labels] /\ local \in [Threads -> LocalsOf]

\* The rest of STypeOK, but for the contents of the buffers (see ServiceProofs).
DataTypes ==
  /\ tlist \in Seq(Td \cup {StopTd})
  /\ wq \in Seq(Job)
  /\ field \in [Td \cup {StopTd} -> Fields]
  /\ conn \in [Clients -> {"away", "backlog", "refused", "open", "closed"}]
  /\ stops \in 0..Cardinality(Workers)

\* What a thread has in its hands follows from where it is.
Locals(t) ==
  /\ pc[t] \notin {"stopped", "hung"} => (local[t].td # 0 <=> pc[t] \in WithTd)
  /\ local[t].b # 0 <=> (t \in Reqs /\ pc[t] \in WithB)
  /\ local[t].body # 0 <=> \/ pc[t] \in WithBody
                           \/ t \in Workers /\ pc[t] = "close"
  /\ local[t].resp # 0 <=> pc[t] \in WithResp

JobsNamed == \A i \in DOMAIN wq : wq[i] # StopJob => wq[i].td # 0 /\ wq[i].out # 0

\* Who waits for a pool is where a pool is asked.
Waiters ==
  /\ tdWaiting \cup tdWoken \subseteq {t \in {Main} : pc[t] = "getTd"}
  /\ bufWaiting \cup bufWoken \subseteq {t \in Others : pc[t] \in GetsBuffer}

Control ==
  /\ \A t \in Threads : pc[t] \in LabelsOf(t) /\ Locals(t)
  /\ JobsNamed
  /\ Waiters
  /\ ~field[StopTd].sq
  /\ pc[Main] # "join" => stops < Cardinality(Workers)

Base == ThreadTypes /\ DataTypes /\ Control

\* A step of the thread t, as far as its place and its variables go.
Moves(t) == /\ pc' = [pc EXCEPT ![t] = pc'[t]]
            /\ local' = [local EXCEPT ![t] = local'[t]]
            /\ pc'[t] \in LabelsOf(t)
            /\ local'[t] \in LocalsOf
            /\ Locals(t)'

-----------------------------------------------------------------------------
(* Where the threads are, and what they have in their hands.               *)

\* The threads are apart, and there is a worker.
LEMMA ThreadsDistinct ==
  /\ Main \in Threads /\ Main \notin Others /\ Others \subseteq Threads
  /\ Reqs \subseteq Others /\ Workers \subseteq Others /\ Reqs \cap Workers = {}
  /\ Threads = {Main} \cup Others
  /\ 0 \notin Td /\ 0 \notin Buffer
  /\ Cardinality(Workers) \in Nat /\ Cardinality(Workers) > 0
<1>1. IsFiniteSet(Workers) /\ Workers # {}
  BY ServerAssumption
<1>2. Cardinality(Workers) \in Nat /\ Cardinality(Workers) # 0
  BY <1>1, FS_CardinalityType, FS_EmptySet
<1>3. 0 \notin Td /\ 0 \notin Buffer
  BY SizesAssumption DEF Td, Buffer
<1> QED
  BY <1>2, <1>3, ServerAssumption DEF Threads, Others

\* A step of the main thread takes it from place to place, with the locals
\* that belong there.
LEMMA MainMoves ==
  ASSUME ThreadTypes, Locals(Main), pc[Main] \in MainLabels, MainNext
  PROVE  Moves(Main)
<1> USE ThreadsDistinct DEF Goto, At, Moves, Locals, LabelsOf, LocalsOf, MainLabels,
      ReqLabels, WorkerLabels, WithTd, WithB, WithBody, WithResp, Labels, ThreadTypes
<1>1. CASE Peek
  BY <1>1 DEF Peek
<1>2. CASE PollTimeout
  BY <1>2 DEF PollTimeout
<1>3. CASE Accept
  BY <1>3 DEF Accept, Backlog
<1>4. CASE GetTdBlocks
  BY <1>4 DEF GetTdBlocks
<1>5. CASE GetTd
  BY <1>5 DEF GetTd, Idle
<1>6. CASE EnqueueTd
  BY <1>6 DEF EnqueueTd, Idle
<1>7. CASE WakeupTd
  BY <1>7 DEF WakeupTd
<1>8. CASE Check
  BY <1>8 DEF Check
<1>9. CASE StopReq
  BY <1>9 DEF StopReq
<1>10. CASE StopReqWakeup
  BY <1>10 DEF StopReqWakeup
<1>11. CASE StopWorker
  BY <1>11 DEF StopWorker
<1>12. CASE StopWorkerWakeup
  BY <1>12 DEF StopWorkerWakeup
<1> QED
  BY <1>1, <1>2, <1>3, <1>4, <1>5, <1>6, <1>7, <1>8, <1>9, <1>10, <1>11, <1>12 DEF MainNext

\* So does a step of http_response, and of what ends a request, ...
LEMMA RespondMoves ==
  ASSUME ThreadTypes, NEW t \in Others, Locals(t), pc[t] \in LabelsOf(t), Respond(t)
  PROVE  Moves(t)
<1> USE ThreadsDistinct DEF Goto, At, Moves, Locals, LabelsOf, LocalsOf, MainLabels,
      ReqLabels, WorkerLabels, WithTd, WithB, WithBody, WithResp, Labels, ThreadTypes
<1>1. CASE GetResponse(t)
  BY <1>1 DEF GetResponse
<1>2. CASE Write(t)
  BY <1>2 DEF Write
<1>3. CASE JoinResponse(t)
  <2>1. CASE t \in Reqs
    BY <1>3, <2>1 DEF JoinResponse, JoinBuffer
  <2>2. CASE t \in Workers
    BY <1>3, <2>2 DEF JoinResponse, JoinBuffer
  <2> QED
    BY <2>1, <2>2 DEF Others
<1>4. CASE Close(t)
  <2>1. CASE t \in Reqs
    BY <1>4, <2>1 DEF Close
  <2>2. CASE t \in Workers
    BY <1>4, <2>2 DEF Close
  <2> QED
    BY <2>1, <2>2 DEF Others
<1>5. CASE JoinTd(t)
  BY <1>5 DEF JoinTd, Idle
<1>6. CASE GetBufferBlocks(t)
  BY <1>6 DEF GetBufferBlocks
<1> QED
  BY <1>1, <1>2, <1>3, <1>4, <1>5, <1>6 DEF Respond

\* ... the other steps of a request thread ...
LEMMA ReqMoves ==
  ASSUME ThreadTypes, NEW t \in Reqs, Locals(t), pc[t] \in LabelsOf(t),
         ~field[StopTd].sq, ReqNext(t)
  PROVE  Moves(t)
<1> USE ThreadsDistinct DEF Goto, At, Moves, Locals, LabelsOf, LocalsOf, MainLabels,
      ReqLabels, WorkerLabels, WithTd, WithB, WithBody, WithResp, Labels, ThreadTypes
<1>1. CASE ReqSleeps(t)
  BY <1>1 DEF ReqSleeps
<1>2. CASE ReqTakes(t)
  <2>1. PICK e \in Td \cup {StopTd} :
          /\ pc' = [pc EXCEPT ![t] = IF TdNull(e) THEN "stopped" ELSE "getB"]
          /\ local' = [local EXCEPT ![t].td = e]
          /\ TList!Take(t, e)
    BY <1>2 DEF ReqTakes
  <2>2. ~TdNull(e) => e # 0
    BY DEF TdNull, StopTd
  <2>3. pc[t] = "dequeue" /\ e \in Td \cup {0}
    BY <1>2 DEF ReqTakes, StopTd
  <2>4. pc' = [pc EXCEPT ![t] = pc'[t]] /\ local' = [local EXCEPT ![t].td = e]
    BY <2>1
  <2>5. \/ pc'[t] = "stopped"
        \/ pc'[t] = "getB" /\ e # 0
    BY <2>1, <2>2
  <2>6. /\ local'[t] = [local[t] EXCEPT !.td = e]
        /\ local' = [local EXCEPT ![t] = local'[t]]
    BY <2>4
  <2>7. local'[t] \in LocalsOf
    BY <2>3, <2>6
  <2>8. pc'[t] \in LabelsOf(t)
    BY <2>5
  <2>9. Locals(t)'
    BY <2>3, <2>5, <2>6
  <2> QED
    BY <2>4, <2>6, <2>7, <2>8, <2>9
<1>3. CASE ReqStops(t)
  BY <1>3 DEF ReqStops
<1>4. CASE GetB(t)
  <2>1. PICK k \in Buffer : local' = [local EXCEPT ![t].b = k]
    BY <1>4 DEF GetB, GetBuffer
  <2> QED
    BY <1>4, <2>1 DEF GetB
<1>5. CASE ReadFails(t)
  BY <1>5 DEF ReadFails
<1>6. CASE ReadBadQuery(t)
  BY <1>6 DEF ReadBadQuery
<1>7. CASE ReadRequest(t)
  BY <1>7 DEF ReadRequest
<1>8. CASE GetError(t)
  <2>1. PICK k \in Buffer : local' = [local EXCEPT ![t].body = k]
    BY <1>8 DEF GetError, GetBuffer
  <2> QED
    BY <1>8, <2>1 DEF GetError
<1>9. CASE JoinError(t)
  BY <1>9 DEF JoinError, JoinBuffer
<1>10. CASE JoinB(t)
  BY <1>10 DEF JoinB, JoinBuffer
<1>11. CASE GetOut(t)
  <2>1. PICK k \in Buffer : local' = [local EXCEPT ![t].body = k]
    BY <1>11 DEF GetOut, GetBuffer
  <2> QED
    BY <1>11, <2>1 DEF GetOut
<1>12. CASE EnqueueJob(t)
  BY <1>12 DEF EnqueueJob
<1>13. CASE JoinBServed(t)
  BY <1>13 DEF JoinBServed, JoinBuffer
<1>14. CASE WakeupJob(t)
  BY <1>14 DEF WakeupJob, Idle
<1> QED
  BY <1>1, <1>2, <1>3, <1>4, <1>5, <1>6, <1>7, <1>8, <1>9, <1>10, <1>11, <1>12, <1>13, <1>14 DEF ReqNext

\* ... and of a worker.
LEMMA WorkerMoves ==
  ASSUME ThreadTypes, NEW t \in Workers, Locals(t), pc[t] \in LabelsOf(t), wq \in Seq(Job), JobsNamed, WorkerNext(t)
  PROVE  Moves(t)
<1> USE ThreadsDistinct DEF Goto, At, Moves, Locals, LabelsOf, LocalsOf, MainLabels,
      ReqLabels, WorkerLabels, WithTd, WithB, WithBody, WithResp, Labels, ThreadTypes
<1>1. CASE WorkerSleeps(t)
  BY <1>1 DEF WorkerSleeps
<1>2. CASE WorkerTakes(t)
  <2>1. PICK j \in Job :
          /\ WorkQ!Take(t, j)
          /\ local' = [local EXCEPT ![t].td = j.td, ![t].body = j.out]
          /\ pc' = [pc EXCEPT ![t] = IF j = StopJob THEN "exited" ELSE "process"]
    BY <1>2 DEF WorkerTakes, Job
  <2>2. j # StopJob => j.td # 0 /\ j.out # 0
    BY <2>1 DEF WorkQ!Take, JobsNamed
  <2>3. j.td \in Td \cup {0} /\ j.out \in Buffer \cup {0}
    BY DEF Job, StopTd
  <2>4. j = StopJob => j.td = 0 /\ j.out = 0
    BY DEF StopJob
  <2>5. pc[t] = "dequeue"
    BY <1>2 DEF WorkerTakes
  <2> QED
    <3>1. /\ pc' = [pc EXCEPT ![t] = pc'[t]]
          /\ local' = [local EXCEPT ![t].td = j.td, ![t].body = j.out]
      BY <2>1
    <3>2. \/ pc'[t] = "exited" /\ j.td = 0 /\ j.out = 0
          \/ pc'[t] = "process" /\ j.td # 0 /\ j.out # 0
      BY <2>1, <2>2, <2>4
    <3>3. local'[t] = [local[t] EXCEPT !.td = j.td, !.body = j.out]
      BY <3>1
    <3>7. local' = [local EXCEPT ![t] = local'[t]]
      BY <3>1
    <3>4. local'[t] \in LocalsOf
      BY <3>3, <2>3
    <3>5. pc'[t] \in LabelsOf(t)
      BY <3>2
    <3>6. Locals(t)'
      BY <3>2, <3>3, <2>5
    <3> QED
      BY <3>1, <3>4, <3>5, <3>6, <3>7
<1>3. CASE Process(t)
  BY <1>3 DEF Process
<1>4. CASE JoinOut(t)
  BY <1>4 DEF JoinOut, JoinBuffer
<1> QED
  BY <1>1, <1>2, <1>3, <1>4 DEF WorkerNext

-----------------------------------------------------------------------------
\* Which steps change the queues, the fields, the connections, the replies and
\* the pool of thread_data.
LEMMA WhoChanges ==
  ASSUME [Next]_vars
  PROVE  /\ UNCHANGED tlist \/ EnqueueTd \/ StopReq \/ \E t \in Reqs : ReqTakes(t)
         /\ \/ UNCHANGED wq \/ StopWorker
            \/ \E t \in Reqs : EnqueueJob(t)
            \/ \E t \in Workers : WorkerTakes(t)
         /\ UNCHANGED field \/ GetTd \/ \E t \in Workers : JoinOut(t)
         /\ UNCHANGED stops \/ StopWorkerWakeup
         /\ \/ UNCHANGED conn \/ Accept \/ Check
            \/ \E c \in Clients : Arrive(c)
            \/ \E t \in Others : Close(t)
         /\ UNCHANGED reply \/ \E t \in Others : Write(t)
         /\ \/ UNCHANGED tdPoolVars \/ GetTdBlocks \/ GetTd
            \/ TdPool!SpuriousWakeup
            \/ \E t \in Others : JoinTd(t)
<1> USE DEF Others, tdPoolVars, bufPoolVars, queuesVars, tlistVars, wqVars, dataVars,
      clientVars, shutdownVars, vars, TList!Wakeup, WorkQ!Wakeup, TList!Block,
      WorkQ!Block, TList!SpuriousWakeup, WorkQ!SpuriousWakeup
<1>1. CASE MainNext
  BY <1>1 DEF MainNext, Peek, PollTimeout, Accept, GetTdBlocks, GetTd, EnqueueTd,
    WakeupTd, Check, StopReq, StopReqWakeup, StopWorker, StopWorkerWakeup
<1>2. ASSUME NEW t \in Others, Respond(t)
      PROVE  /\ UNCHANGED <<tlist, wq, field, stops>>
             /\ UNCHANGED conn \/ Close(t)
             /\ UNCHANGED reply \/ Write(t)
             /\ UNCHANGED tdPoolVars \/ JoinTd(t)
  BY <1>2 DEF Respond, GetResponse, Write, JoinResponse, Close, JoinTd, GetBufferBlocks
<1>3. ASSUME NEW t \in Reqs, ReqNext(t)
      PROVE  /\ UNCHANGED <<field, stops, conn, reply, tdPoolVars>>
             /\ UNCHANGED tlist \/ ReqTakes(t)
             /\ UNCHANGED wq \/ EnqueueJob(t)
  BY <1>3 DEF ReqNext, ReqSleeps, ReqTakes, ReqStops, GetB, ReadFails, ReadBadQuery,
    ReadRequest, GetError, JoinError, JoinB, GetOut, EnqueueJob, JoinBServed, WakeupJob
<1>4. ASSUME NEW t \in Workers, WorkerNext(t)
      PROVE  /\ UNCHANGED <<tlist, stops, conn, reply, tdPoolVars>>
             /\ UNCHANGED wq \/ WorkerTakes(t)
             /\ UNCHANGED field \/ JoinOut(t)
  BY <1>4 DEF WorkerNext, WorkerSleeps, WorkerTakes, Process, JoinOut
<1>5. CASE (\E c \in Clients : Arrive(c)) \/ Signal \/ SpuriousWakeup \/ UNCHANGED vars
  BY <1>5 DEF Arrive, Signal, SpuriousWakeup
<1> QED
  BY <1>1, <1>2, <1>3, <1>4, <1>5 DEF Next

\* The steps that use the pool of buffers, and what they do to a thread's own.
BufTakes(t, v, k) == /\ pc[t] \in GetsBuffer /\ local[t][v] = 0
                     /\ BufPool!Grant(t, k)
                     /\ local' = [local EXCEPT ![t][v] = k]
BufGives(t, v) == /\ pc[t] \notin GetsBuffer /\ local[t][v] # 0
                  /\ JoinBuffer(t, v)
BufStep(t) == \/ GetBufferBlocks(t)
              \/ \E k \in Buffer, v \in {"b", "body", "resp"} : BufTakes(t, v, k)
              \/ \E v \in {"b", "body", "resp"} : BufGives(t, v)

\* The actions that use the pool of buffers are such steps.
LEMMA BufferActions ==
  ASSUME Base, NEW t \in Others
  PROVE  /\ GetResponse(t) \/ JoinResponse(t) \/ GetBufferBlocks(t) => BufStep(t)
         /\ t \in Reqs /\ (GetB(t) \/ GetError(t) \/ GetOut(t)) => BufStep(t)
         /\ t \in Reqs /\ (JoinError(t) \/ JoinB(t) \/ JoinBServed(t)) => BufStep(t)
         /\ t \in Workers /\ JoinOut(t) => BufStep(t)
<1>0. Locals(t) /\ t \in Threads
  BY ThreadsDistinct DEF Base, Control
<1>1. GetResponse(t) => BufStep(t)
  <2> SUFFICES ASSUME GetResponse(t) PROVE BufStep(t)
    OBVIOUS
  <2>1. local[t].resp = 0 /\ pc[t] \in GetsBuffer
    BY <1>0 DEF GetResponse, At, Locals, WithB, WithBody, WithResp, GetsBuffer
  <2>2. PICK k \in Buffer : BufPool!Grant(t, k) /\ local' = [local EXCEPT ![t].resp = k]
    BY DEF GetResponse
  <2> QED
    BY <2>1, <2>2 DEF BufTakes, BufStep
<1>2. JoinResponse(t) => BufStep(t)
  <2> SUFFICES ASSUME JoinResponse(t) PROVE BufStep(t)
    OBVIOUS
  <2>1. local[t].resp # 0 /\ pc[t] \notin GetsBuffer
    BY <1>0 DEF JoinResponse, At, Locals, WithB, WithBody, WithResp, GetsBuffer
  <2>2. JoinBuffer(t, "resp")
    BY DEF JoinResponse
  <2> QED
    BY <2>1, <2>2 DEF BufGives, BufStep
<1>3. GetBufferBlocks(t) => BufStep(t)
  BY DEF BufStep
<1>4. t \in Reqs /\ GetB(t) => BufStep(t)
  <2> SUFFICES ASSUME t \in Reqs, GetB(t) PROVE BufStep(t)
    OBVIOUS
  <2>1. local[t].b = 0 /\ pc[t] \in GetsBuffer
    BY <1>0 DEF GetB, At, Locals, WithB, WithBody, WithResp, GetsBuffer
  <2>2. PICK k \in Buffer : BufPool!Grant(t, k) /\ local' = [local EXCEPT ![t].b = k]
    BY DEF GetB, GetBuffer
  <2> QED
    BY <2>1, <2>2 DEF BufTakes, BufStep
<1>5. t \in Reqs /\ GetError(t) => BufStep(t)
  <2> SUFFICES ASSUME t \in Reqs, GetError(t) PROVE BufStep(t)
    OBVIOUS
  <2>1. local[t].body = 0 /\ pc[t] \in GetsBuffer
    BY <1>0 DEF GetError, At, Locals, WithB, WithBody, WithResp, GetsBuffer
  <2>2. PICK k \in Buffer : BufPool!Grant(t, k) /\ local' = [local EXCEPT ![t].body = k]
    BY DEF GetError, GetBuffer
  <2> QED
    BY <2>1, <2>2 DEF BufTakes, BufStep
<1>6. t \in Reqs /\ GetOut(t) => BufStep(t)
  <2> SUFFICES ASSUME t \in Reqs, GetOut(t) PROVE BufStep(t)
    OBVIOUS
  <2>1. local[t].body = 0 /\ pc[t] \in GetsBuffer
    BY <1>0 DEF GetOut, At, Locals, WithB, WithBody, WithResp, GetsBuffer
  <2>2. PICK k \in Buffer : BufPool!Grant(t, k) /\ local' = [local EXCEPT ![t].body = k]
    BY DEF GetOut, GetBuffer
  <2> QED
    BY <2>1, <2>2 DEF BufTakes, BufStep
<1>7. t \in Reqs /\ JoinError(t) => BufStep(t)
  <2> SUFFICES ASSUME t \in Reqs, JoinError(t) PROVE BufStep(t)
    OBVIOUS
  <2>1. local[t].body # 0 /\ pc[t] \notin GetsBuffer
    BY <1>0 DEF JoinError, At, Locals, WithB, WithBody, WithResp, GetsBuffer
  <2>2. JoinBuffer(t, "body")
    BY DEF JoinError
  <2> QED
    BY <2>1, <2>2 DEF BufGives, BufStep
<1>8. t \in Reqs /\ JoinB(t) => BufStep(t)
  <2> SUFFICES ASSUME t \in Reqs, JoinB(t) PROVE BufStep(t)
    OBVIOUS
  <2>1. local[t].b # 0 /\ pc[t] \notin GetsBuffer
    BY <1>0 DEF JoinB, At, Locals, WithB, WithBody, WithResp, GetsBuffer
  <2>2. JoinBuffer(t, "b")
    BY DEF JoinB
  <2> QED
    BY <2>1, <2>2 DEF BufGives, BufStep
<1>9. t \in Reqs /\ JoinBServed(t) => BufStep(t)
  <2> SUFFICES ASSUME t \in Reqs, JoinBServed(t) PROVE BufStep(t)
    OBVIOUS
  <2>1. local[t].b # 0 /\ pc[t] \notin GetsBuffer
    BY <1>0 DEF JoinBServed, At, Locals, WithB, WithBody, WithResp, GetsBuffer
  <2>2. JoinBuffer(t, "b")
    BY DEF JoinBServed
  <2> QED
    BY <2>1, <2>2 DEF BufGives, BufStep
<1>10. t \in Workers /\ JoinOut(t) => BufStep(t)
  <2> SUFFICES ASSUME t \in Workers, JoinOut(t) PROVE BufStep(t)
    OBVIOUS
  <2>1. local[t].body # 0 /\ pc[t] \notin GetsBuffer
    BY <1>0 DEF JoinOut, At, Locals, WithB, WithBody, WithResp, GetsBuffer
  <2>2. JoinBuffer(t, "body")
    BY DEF JoinOut
  <2> QED
    BY <2>1, <2>2 DEF BufGives, BufStep
<1> QED
  BY <1>1, <1>2, <1>3, <1>4, <1>5, <1>6, <1>7, <1>8, <1>9, <1>10

\* The other steps leave the pool of buffers alone; what a thread has in its
\* hands changes with jobs only.
SameBufs(t) == /\ local'[t].b = local[t].b
               /\ local'[t].body = local[t].body
               /\ local'[t].resp = local[t].resp

\* The main thread has no buffers.
LEMMA MainSameBufs ==
  ASSUME Base, MainNext
  PROVE  \A t \in Threads : SameBufs(t)
<1>0. /\ ThreadTypes /\ Main \in Threads
      /\ \A t \in Threads : Locals(t)
  BY ThreadsDistinct DEF Base, Control
<1>1. ASSUME NEW e, local' = [local EXCEPT ![Main] = [Idle EXCEPT !.td = e]]
      PROVE  \A t \in Threads : SameBufs(t)
  <2> DEFINE n == [Idle EXCEPT !.td = e]
  <2>1. n.b = 0 /\ n.body = 0 /\ n.resp = 0
    BY DEF Idle
  <2>2. local[Main].b = 0 /\ local[Main].body = 0 /\ local[Main].resp = 0
    <3>1. pc[Main] \in MainLabels /\ Main \notin Reqs /\ Main \notin Workers
      BY ServerAssumption, ThreadsDistinct DEF Base, Control, LabelsOf
    <3> QED
      BY <1>0, <3>1 DEF Locals, WithResp, WithBody, MainLabels
  <2> HIDE DEF n
  <2> QED
    BY <1>0, <1>1, <2>1, <2>2 DEF SameBufs, ThreadTypes, n
<1>2. CASE GetTd
  BY <1>1, <1>2 DEF GetTd
<1>3. CASE EnqueueTd
  BY <1>0, <1>3, ThreadsDistinct
  DEF EnqueueTd, At, SameBufs, Idle, ThreadTypes, LocalsOf, Locals, WithResp, WithBody
<1>4. CASE Accept
  BY <1>0, <1>4 DEF Accept, SameBufs, ThreadTypes, LocalsOf
<1> QED
  BY <1>2, <1>3, <1>4
  DEF SameBufs, MainNext, Peek, PollTimeout, GetTdBlocks,
    WakeupTd, Check, StopReq, StopReqWakeup, StopWorker, StopWorkerWakeup

\* So a step of the server uses the pool of buffers for one thread, or passes a
\* buffer on in a job, or leaves the buffers where they are.
LEMMA BufferSteps ==
  ASSUME Base, [Next]_vars
  PROVE  \/ \E t \in Others : BufStep(t) /\ UNCHANGED <<wq, tdPoolVars>>
         \/ /\ UNCHANGED bufPoolVars
            /\ \/ \E t \in Reqs : EnqueueJob(t)
               \/ \E t \in Workers : WorkerTakes(t)
               \/ \A t \in Threads : SameBufs(t)
         \/ BufPool!SpuriousWakeup /\ UNCHANGED <<local, wq, pc, content>>
<1> USE DEF Others, tdPoolVars, bufPoolVars, queuesVars, tlistVars, wqVars, dataVars,
      clientVars, shutdownVars, vars
<1>0. /\ ThreadTypes /\ Main \in Threads
      /\ \A t \in Threads : Locals(t)
      /\ \A t \in Reqs \cup Workers : t \in Threads
  BY ThreadsDistinct DEF Base, Control
<1>1. ASSUME MainNext
      PROVE  UNCHANGED bufPoolVars /\ \A t \in Threads : SameBufs(t)
  <2>1. UNCHANGED bufPoolVars
    BY <1>1
    DEF MainNext, Peek, PollTimeout, Accept, GetTdBlocks, GetTd, EnqueueTd,
      WakeupTd, Check, StopReq, StopReqWakeup, StopWorker, StopWorkerWakeup
  <2> QED
    BY <1>1, <2>1, MainSameBufs
<1>2. ASSUME NEW t \in Others, Respond(t)
      PROVE  \/ BufStep(t) /\ UNCHANGED <<wq, tdPoolVars>>
             \/ UNCHANGED bufPoolVars /\ \A u \in Threads : SameBufs(u)
  <2>1. CASE GetResponse(t) \/ JoinResponse(t) \/ GetBufferBlocks(t)
    BY <2>1, BufferActions DEF GetResponse, JoinResponse, GetBufferBlocks
  <2>2. CASE Write(t) \/ Close(t)
    BY <2>2 DEF Write, Close, SameBufs
  <2>3. CASE JoinTd(t)
    <3>1. /\ pc[t] = "joinTd" /\ local' = [local EXCEPT ![t] = Idle]
          /\ UNCHANGED bufPoolVars
      BY <2>3 DEF JoinTd, At
    <3>2. local[t].b = 0 /\ local[t].body = 0 /\ local[t].resp = 0
      BY <1>0, <3>1 DEF Locals, WithB, WithBody, WithResp
    <3> QED
      BY <1>0, <3>1, <3>2 DEF SameBufs, Idle, ThreadTypes
  <2> QED
    BY <1>2, <2>1, <2>2, <2>3 DEF Respond
<1>3. ASSUME NEW t \in Reqs, ReqNext(t)
      PROVE  \/ BufStep(t) /\ UNCHANGED <<wq, tdPoolVars>>
             \/ UNCHANGED bufPoolVars /\ \A u \in Threads : SameBufs(u)
             \/ UNCHANGED bufPoolVars /\ EnqueueJob(t)
  <2>1. CASE GetB(t) \/ GetError(t) \/ GetOut(t)
    BY <2>1, BufferActions DEF GetB, GetError, GetOut
  <2>2. CASE JoinError(t) \/ JoinB(t) \/ JoinBServed(t)
    BY <2>2, BufferActions DEF JoinError, JoinB, JoinBServed
  <2>3. CASE ReqTakes(t)
    BY <1>0, <2>3 DEF ReqTakes, SameBufs, ThreadTypes, LocalsOf
  <2>4. CASE WakeupJob(t)
    <3>1. /\ pc[t] = "wakeupJob" /\ local' = [local EXCEPT ![t] = Idle]
          /\ UNCHANGED bufPoolVars
      BY <2>4 DEF WakeupJob, At
    <3>2. local[t].b = 0 /\ local[t].body = 0 /\ local[t].resp = 0
      BY <1>0, <3>1, ServerAssumption DEF Locals, WithB, WithBody, WithResp
    <3> QED
      BY <1>0, <3>1, <3>2 DEF SameBufs, Idle, ThreadTypes
  <2>5. CASE EnqueueJob(t)
    BY <2>5 DEF EnqueueJob
  <2>6. CASE ReqSleeps(t) \/ ReqStops(t) \/ ReadFails(t) \/ ReadBadQuery(t) \/ ReadRequest(t)
    BY <2>6 DEF ReqSleeps, ReqStops, ReadFails, ReadBadQuery, ReadRequest, SameBufs
  <2> QED
    BY <1>3, <2>1, <2>2, <2>3, <2>4, <2>5, <2>6 DEF ReqNext
<1>4. ASSUME NEW t \in Workers, WorkerNext(t)
      PROVE  \/ BufStep(t) /\ UNCHANGED <<wq, tdPoolVars>>
             \/ UNCHANGED bufPoolVars /\ \A u \in Threads : SameBufs(u)
             \/ UNCHANGED bufPoolVars /\ WorkerTakes(t)
  <2>1. CASE JoinOut(t)
    BY <2>1, BufferActions DEF JoinOut
  <2>2. CASE WorkerTakes(t)
    BY <2>2 DEF WorkerTakes
  <2>3. CASE WorkerSleeps(t) \/ Process(t)
    BY <2>3 DEF WorkerSleeps, Process, SameBufs
  <2> QED
    BY <1>4, <2>1, <2>2, <2>3 DEF WorkerNext
<1>5. ASSUME (\E c \in Clients : Arrive(c)) \/ Signal \/ UNCHANGED vars
      PROVE  UNCHANGED bufPoolVars /\ \A t \in Threads : SameBufs(t)
  BY <1>5 DEF Arrive, Signal, SameBufs
<1>6. ASSUME SpuriousWakeup
      PROVE  \/ UNCHANGED bufPoolVars /\ \A t \in Threads : SameBufs(t)
             \/ BufPool!SpuriousWakeup /\ UNCHANGED <<local, wq, pc, content>>
  BY <1>6 DEF SpuriousWakeup, SameBufs
<1> QED
  BY <1>1, <1>2, <1>3, <1>4, <1>5, <1>6 DEF Next

-----------------------------------------------------------------------------
(* Types and places are kept.                                              *)

\* One thread moves in every step.
LEMMA SomeoneMoves ==
  ASSUME Base, [Next]_vars
  PROVE  \E t \in Threads : Moves(t)
<1>0. /\ ThreadTypes /\ wq \in Seq(Job) /\ JobsNamed /\ ~field[StopTd].sq
      /\ \A t \in Threads : pc[t] \in LabelsOf(t) /\ Locals(t)
  BY DEF Base, DataTypes, Control
<1>1. CASE MainNext
  BY <1>0, <1>1, MainMoves, ThreadsDistinct DEF LabelsOf
<1>2. ASSUME NEW t \in Others, Respond(t) PROVE Moves(t)
  BY <1>0, <1>2, RespondMoves, ThreadsDistinct
<1>3. ASSUME NEW t \in Reqs, ReqNext(t) PROVE Moves(t)
  BY <1>0, <1>3, ReqMoves, ThreadsDistinct
<1>4. ASSUME NEW t \in Workers, WorkerNext(t) PROVE Moves(t)
  BY <1>0, <1>4, WorkerMoves, ThreadsDistinct
<1>5. CASE UNCHANGED <<pc, local>>
  BY <1>0, <1>5, ThreadsDistinct DEF Moves, ThreadTypes, Locals
<1>6. CASE Signal
  <2>1. CASE UNCHANGED pc
    BY <1>5, <1>6, <2>1 DEF Signal
  <2>2. CASE pc[Main] \in {"poll", "pollForASecond"} /\ Goto(Main, "check")
    BY <1>0, <1>6, <2>2, ThreadsDistinct
    DEF Signal, Goto, Moves, ThreadTypes, Locals, LabelsOf, MainLabels, WithTd,
      WithB, WithBody, WithResp
  <2> QED
    BY <1>6, <2>1, <2>2 DEF Signal
<1>7. CASE (\E c \in Clients : Arrive(c)) \/ SpuriousWakeup \/ UNCHANGED vars
  BY <1>5, <1>7 DEF Arrive, SpuriousWakeup, vars
<1> QED
  BY <1>1, <1>2, <1>3, <1>4, <1>6, <1>7, ThreadsDistinct DEF Next, Others

\* A move keeps the types of the threads, and where they are.
LEMMA MovesKeep ==
  ASSUME Base, NEW t \in Threads, Moves(t)
  PROVE  /\ ThreadTypes'
         /\ \A u \in Threads : pc'[u] \in LabelsOf(u) /\ Locals(u)'
<1>1. ThreadTypes
  BY DEF Base
<1>2. LabelsOf(t) \subseteq Labels
  BY DEF LabelsOf, MainLabels, ReqLabels, WorkerLabels, Labels
<1>3. ThreadTypes'
  BY <1>1, <1>2 DEF ThreadTypes, Moves
<1>4. \A u \in Threads \ {t} : pc'[u] = pc[u] /\ local'[u] = local[u]
  BY <1>1 DEF ThreadTypes, Moves
<1>5. \A u \in Threads \ {t} : pc'[u] \in LabelsOf(u) /\ Locals(u)'
  BY <1>4 DEF Base, Control, Locals
<1> QED
  BY <1>3, <1>5 DEF Moves

\* The queues keep their types, and their jobs name what they are for.
LEMMA QueueTypes ==
  ASSUME Base, [Next]_vars
  PROVE  tlist' \in Seq(Td \cup {StopTd}) /\ wq' \in Seq(Job) /\ JobsNamed'
<1>0. /\ tlist \in Seq(Td \cup {StopTd}) /\ wq \in Seq(Job) /\ JobsNamed
      /\ ThreadTypes /\ \A t \in Threads : Locals(t)
  BY DEF Base, DataTypes, Control
<1>1. tlist' \in Seq(Td \cup {StopTd})
  <2>1. CASE EnqueueTd
    <3>1. local[Main].td \in Td \cup {StopTd} /\ tlist' = <<local[Main].td>> \o tlist
      BY <1>0, <2>1, ThreadsDistinct DEF EnqueueTd, TList!Enqueue, ThreadTypes, LocalsOf, StopTd
    <3> QED
      BY <1>0, <3>1, ConcatProperties
  <2>2. CASE StopReq
    BY <1>0, <2>2, ConcatProperties DEF StopReq, TList!Enqueue
  <2>3. CASE \E t \in Reqs : ReqTakes(t)
    BY <1>0, <2>3, HeadTailProperties DEF ReqTakes, TList!Take
  <2> QED
    BY <1>0, <2>1, <2>2, <2>3, WhoChanges
<1>2. wq' \in Seq(Job) /\ JobsNamed'
  <2>1. CASE StopWorker
    <3>1. wq' = Append(wq, StopJob) /\ StopJob \in Job
      BY <2>1 DEF StopWorker, WorkQ!Enqueue, StopJob, Job, StopTd
    <3> QED
      BY <1>0, <3>1, AppendProperties DEF JobsNamed
  <2>2. ASSUME NEW t \in Reqs, EnqueueJob(t)
        PROVE  wq' \in Seq(Job) /\ JobsNamed'
    <3> DEFINE j == [td |-> local[t].td, out |-> local[t].body]
    <3>1. wq' = Append(wq, j)
      BY <2>2 DEF EnqueueJob, WorkQ!Enqueue
    <3>2. local[t].td # 0 /\ local[t].body # 0
      BY <1>0, <2>2, ThreadsDistinct DEF EnqueueJob, At, Locals, WithTd, WithBody
    <3>3. j \in Job
      BY <1>0, ThreadsDistinct DEF ThreadTypes, LocalsOf, Job, StopTd
    <3> HIDE DEF j
    <3>4. j.td # 0 /\ j.out # 0
      BY <3>2 DEF j
    <3> QED
      BY <1>0, <3>1, <3>3, <3>4, AppendProperties DEF JobsNamed
  <2>3. CASE \E t \in Workers : WorkerTakes(t)
    <3>1. wq # <<>> /\ wq' = Tail(wq)
      BY <2>3 DEF WorkerTakes, WorkQ!Take
    <3> QED
      BY <1>0, <3>1, HeadTailProperties DEF JobsNamed
  <2>4. CASE UNCHANGED wq
    BY <1>0, <2>4 DEF JobsNamed
  <2> QED
    BY <2>1, <2>2, <2>3, <2>4, WhoChanges
<1> QED
  BY <1>1, <1>2

\* The fields of the thread_data keep their types; the stop entry has none set.
LEMMA FieldTypes ==
  ASSUME Base, [Next]_vars
  PROVE  field' \in [Td \cup {StopTd} -> Fields] /\ ~field'[StopTd].sq
<1>0. /\ field \in [Td \cup {StopTd} -> Fields] /\ ~field[StopTd].sq
      /\ ThreadTypes /\ 0 \notin Td
  BY ThreadsDistinct DEF Base, DataTypes, Control
<1>1. CASE GetTd
  <2>1. PICK e \in Td : field' = [field EXCEPT ![e] =
          [client |-> local[Main].client, sq |-> TRUE, bp |-> TRUE]]
    BY <1>1 DEF GetTd
  <2>2. [client |-> local[Main].client, sq |-> TRUE, bp |-> TRUE] \in Fields
    BY <1>0, ThreadsDistinct DEF ThreadTypes, LocalsOf, Fields
  <2> QED
    BY <1>0, <2>1, <2>2 DEF StopTd
<1>2. ASSUME NEW t \in Workers, JoinOut(t)
      PROVE  field' \in [Td \cup {StopTd} -> Fields] /\ ~field'[StopTd].sq
  <2>1. field' = [field EXCEPT ![local[t].td].sq = FALSE]
    BY <1>2 DEF JoinOut
  <2>2. local[t].td \in Td \cup {StopTd}
    BY <1>0, ThreadsDistinct DEF ThreadTypes, LocalsOf, StopTd
  <2>3. [field[local[t].td] EXCEPT !.sq = FALSE] \in Fields
    BY <1>0, <2>2 DEF Fields
  <2> QED
    BY <1>0, <2>1, <2>2, <2>3
<1> QED
  BY <1>0, <1>1, <1>2, WhoChanges

\* The connections are in one of their states.
LEMMA ConnTypes ==
  ASSUME Base, [Next]_vars
  PROVE  conn' \in [Clients -> {"away", "backlog", "refused", "open", "closed"}]
<1>0. conn \in [Clients -> {"away", "backlog", "refused", "open", "closed"}]
  BY DEF Base, DataTypes
<1>1. CASE Accept
  BY <1>0, <1>1 DEF Accept
<1>2. CASE Check
  BY <1>0, <1>2 DEF Check
<1>3. CASE \E c \in Clients : Arrive(c)
  BY <1>0, <1>3 DEF Arrive
<1>4. CASE \E t \in Others : Close(t)
  BY <1>0, <1>4 DEF Close
<1> QED
  BY <1>0, <1>1, <1>2, <1>3, <1>4, WhoChanges

\* Only its own steps, and a signal that ends a poll, move the main thread.
LEMMA MainStays ==
  ASSUME Base, [Next]_vars, ~MainNext, pc[Main] \notin {"poll", "pollForASecond"}
  PROVE  pc'[Main] = pc[Main]
<1>0. pc \in [Threads -> Labels]
  BY DEF Base, ThreadTypes
<1>1. ASSUME NEW t \in Others, Respond(t) PROVE pc'[Main] = pc[Main]
  BY <1>0, <1>1, ThreadsDistinct
  DEF Respond, GetResponse, Write, JoinResponse, Close, JoinTd, GetBufferBlocks, Goto
<1>2. ASSUME NEW t \in Reqs, ReqNext(t) PROVE pc'[Main] = pc[Main]
  BY <1>0, <1>2, ThreadsDistinct
  DEF ReqNext, ReqSleeps, ReqTakes, ReqStops, GetB, ReadFails, ReadBadQuery,
    ReadRequest, GetError, JoinError, JoinB, GetOut, EnqueueJob, JoinBServed,
    WakeupJob, Goto
<1>3. ASSUME NEW t \in Workers, WorkerNext(t) PROVE pc'[Main] = pc[Main]
  BY <1>0, <1>3, ThreadsDistinct
  DEF WorkerNext, WorkerSleeps, WorkerTakes, Process, JoinOut, Goto
<1>4. CASE (\E c \in Clients : Arrive(c)) \/ Signal \/ SpuriousWakeup \/ UNCHANGED vars
  BY <1>4 DEF Arrive, Signal, SpuriousWakeup, vars
<1> QED
  BY <1>1, <1>2, <1>3, <1>4 DEF Next, Others

\* A thread that asks for a buffer stays there until it has one.
LEMMA AskersStay ==
  ASSUME Base, [Next]_vars, NEW u \in Others, pc[u] \in GetsBuffer
  PROVE  pc'[u] = pc[u] \/ \E k \in Buffer : BufPool!Grant(u, k)
<1>0. pc \in [Threads -> Labels]
  BY DEF Base, ThreadTypes
<1>1. MainNext => pc'[u] = pc[u]
  BY <1>0, ThreadsDistinct
  DEF MainNext, Peek, PollTimeout, Accept, GetTdBlocks, GetTd, EnqueueTd,
    WakeupTd, Check, StopReq, StopReqWakeup, StopWorker, StopWorkerWakeup, Goto
<1>2. ASSUME NEW t \in Others, Respond(t)
      PROVE  pc'[u] = pc[u] \/ \E k \in Buffer : BufPool!Grant(u, k)
  BY <1>0, <1>2, ThreadsDistinct
  DEF Respond, GetResponse, Write, JoinResponse, Close, JoinTd, GetBufferBlocks,
    Goto, At, GetsBuffer
<1>3. ASSUME NEW t \in Reqs, ReqNext(t)
      PROVE  pc'[u] = pc[u] \/ \E k \in Buffer : BufPool!Grant(u, k)
  BY <1>0, <1>3, ThreadsDistinct
  DEF ReqNext, ReqSleeps, ReqTakes, ReqStops, GetB, ReadFails, ReadBadQuery,
    ReadRequest, GetError, JoinError, JoinB, GetOut, EnqueueJob, JoinBServed,
    WakeupJob, GetBuffer, Goto, At, GetsBuffer
<1>4. ASSUME NEW t \in Workers, WorkerNext(t) PROVE pc'[u] = pc[u]
  BY <1>0, <1>4, ThreadsDistinct
  DEF WorkerNext, WorkerSleeps, WorkerTakes, Process, JoinOut, Goto, At, GetsBuffer
<1>5. CASE (\E c \in Clients : Arrive(c)) \/ Signal \/ SpuriousWakeup \/ UNCHANGED vars
  BY <1>0, <1>5, ThreadsDistinct DEF Arrive, Signal, SpuriousWakeup, vars, Goto
<1> QED
  BY <1>1, <1>2, <1>3, <1>4, <1>5 DEF Next, Others

\* The stop loop ends after as many rounds as there are workers.
LEMMA StopsCounted ==
  ASSUME Base, [Next]_vars
  PROVE  /\ stops' \in 0..Cardinality(Workers)
         /\ pc'[Main] # "join" => stops' < Cardinality(Workers)
<1>0. /\ stops \in 0..Cardinality(Workers) /\ Cardinality(Workers) \in Nat
      /\ pc[Main] # "join" => stops < Cardinality(Workers)
      /\ pc \in [Threads -> Labels] /\ Main \in Threads
  BY ThreadsDistinct DEF Base, DataTypes, Control, ThreadTypes
<1>1. CASE StopWorkerWakeup
  <2>1. /\ stops' = stops + 1 /\ pc[Main] = "stopJobWakeup"
        /\ pc' = [pc EXCEPT ![Main] =
                    IF stops' = Cardinality(Workers) THEN "join" ELSE "stopTd"]
    BY <1>1 DEF StopWorkerWakeup, At, Goto
  <2> QED
    BY <1>0, <2>1
<1>2. CASE UNCHANGED stops
  <2>1. pc[Main] = "join" => ~MainNext
    BY DEF MainNext, Peek, PollTimeout, Accept, GetTdBlocks, GetTd, EnqueueTd,
      WakeupTd, Check, StopReq, StopReqWakeup, StopWorker, StopWorkerWakeup, At
  <2>2. pc[Main] = "join" => pc'[Main] = "join"
    BY <2>1, MainStays
  <2> QED
    BY <1>0, <1>2, <2>2
<1> QED
  BY <1>1, <1>2, WhoChanges

\* Who waits for a pool is where a pool is asked.
LEMMA WaitersKept ==
  ASSUME Base, [Next]_vars
  PROVE  Waiters'
<1>0. /\ tdWaiting \cup tdWoken \subseteq {t \in {Main} : pc[t] = "getTd"}
      /\ bufWaiting \cup bufWoken \subseteq {t \in Others : pc[t] \in GetsBuffer}
  BY DEF Base, Control, Waiters
<1>1. tdWaiting' \cup tdWoken' \subseteq {t \in {Main} : pc'[t] = "getTd"}
  <2>1. CASE GetTdBlocks
    BY <1>0, <2>1 DEF GetTdBlocks, At, TdPool!Block, TdPool!Cond!Wait
  <2>2. CASE GetTd
    BY <1>0, <2>2 DEF GetTd, TdPool!Grant, TdPool!Cond!Proceed
  <2>3. CASE /\ tdWaiting' \cup tdWoken' = tdWaiting \cup tdWoken
             /\ ~GetTdBlocks /\ ~GetTd
    <3>1. pc[Main] = "getTd" => ~MainNext
      BY <2>3
      DEF MainNext, Peek, PollTimeout, Accept, EnqueueTd, WakeupTd, Check, StopReq,
        StopReqWakeup, StopWorker, StopWorkerWakeup, At
    <3>2. pc[Main] = "getTd" => pc'[Main] = "getTd"
      BY <3>1, MainStays
    <3> QED
      BY <1>0, <2>3, <3>2
  <2>4. UNCHANGED tdPoolVars => tdWaiting' \cup tdWoken' = tdWaiting \cup tdWoken
    BY DEF tdPoolVars
  <2>5. \/ TdPool!SpuriousWakeup
        \/ \E t \in Others : JoinTd(t)
        => tdWaiting' \cup tdWoken' = tdWaiting \cup tdWoken
    BY DEF JoinTd, TdPool!SpuriousWakeup, TdPool!Join, TdPool!Cond!SpuriousWakeup,
      TdPool!Cond!Signal, TdPool!Cond!Awaken
  <2> QED
    BY <2>1, <2>2, <2>3, <2>4, <2>5, WhoChanges
<1>2. bufWaiting' \cup bufWoken' \subseteq {t \in Others : pc'[t] \in GetsBuffer}
  <2>1. SUFFICES ASSUME NEW u \in bufWaiting' \cup bufWoken'
                 PROVE  u \in Others /\ pc'[u] \in GetsBuffer
    OBVIOUS
  <2>2. u \in Others /\ pc[u] \in GetsBuffer
    <3>1. CASE UNCHANGED bufPoolVars
      BY <1>0, <3>1 DEF bufPoolVars
    <3>2. CASE BufPool!SpuriousWakeup
      BY <1>0, <3>2
      DEF BufPool!SpuriousWakeup, BufPool!Cond!SpuriousWakeup, BufPool!Cond!Awaken
    <3>3. ASSUME NEW t \in Others, BufStep(t)
          PROVE  u \in Others /\ pc[u] \in GetsBuffer
      BY <1>0, <3>3
      DEF BufStep, BufTakes, BufGives, JoinBuffer, GetBufferBlocks, At, GetsBuffer,
        BufPool!Grant, BufPool!Join, BufPool!Block, BufPool!Cond!Proceed,
        BufPool!Cond!Wait, BufPool!Cond!Signal, BufPool!Cond!Awaken
    <3> QED
      BY <3>1, <3>2, <3>3, BufferSteps
  <2>3. \A k \in Buffer : ~BufPool!Grant(u, k)
    <3>1. ASSUME NEW k \in Buffer, BufPool!Grant(u, k) PROVE FALSE
      BY <2>1, <3>1 DEF BufPool!Grant, BufPool!Cond!Proceed
    <3> QED
      BY <3>1
  <2> QED
    BY <2>2, <2>3, AskersStay
<1> QED
  BY <1>1, <1>2 DEF Waiters

\* The base holds at the start.
LEMMA BaseInit == Init => Base
<1> SUFFICES ASSUME Init PROVE Base
  OBVIOUS
<1>1. ThreadTypes
  BY ThreadsDistinct DEF Init, ThreadTypes, Labels, LocalsOf, Idle
<1>2. DataTypes
  <2>1. tlist = <<>> /\ wq = <<>>
    BY DEF Init, TList!Init, WorkQ!Init
  <2>2. field \in [Td \cup {StopTd} -> Fields]
    BY DEF Init, Fields
  <2>4. conn \in [Clients -> {"away", "backlog", "refused", "open", "closed"}]
    BY DEF Init
  <2>5. stops \in 0..Cardinality(Workers)
    BY ThreadsDistinct DEF Init
  <2> QED
    BY <2>1, <2>2, <2>4, <2>5 DEF DataTypes
<1>3. \A t \in Threads : pc[t] \in LabelsOf(t) /\ Locals(t)
  BY ThreadsDistinct
  DEF Init, LabelsOf, MainLabels, ReqLabels, WorkerLabels, Locals, Idle, WithTd,
    WithB, WithBody, WithResp
<1>4. JobsNamed /\ Waiters /\ ~field[StopTd].sq
  BY DEF Init, JobsNamed, Waiters, TdPool!Init, BufPool!Init, TdPool!Cond!Init,
    BufPool!Cond!Init, WorkQ!Init
<1>5. stops < Cardinality(Workers)
  BY ThreadsDistinct DEF Init
<1> QED
  BY <1>1, <1>2, <1>3, <1>4, <1>5 DEF Base, Control

\* Every step keeps the base.
LEMMA BaseNext == Base /\ [Next]_vars => Base'
<1> SUFFICES ASSUME Base, [Next]_vars PROVE Base'
  OBVIOUS
<1>1. PICK t \in Threads : Moves(t)
  BY SomeoneMoves
<1>2. ThreadTypes' /\ \A u \in Threads : pc'[u] \in LabelsOf(u) /\ Locals(u)'
  BY <1>1, MovesKeep
<1>3. DataTypes'
  BY QueueTypes, FieldTypes, ConnTypes, StopsCounted DEF DataTypes
<1>4. Control'
  BY <1>2, QueueTypes, FieldTypes, StopsCounted, WaitersKept DEF Control, LabelsOf
<1> QED
  BY <1>2, <1>3, <1>4 DEF Base

-----------------------------------------------------------------------------
(* Sequences and what is in them.                                          *)

\* An element more at the end.
LEMMA ItemsOfAppend ==
  ASSUME NEW S, NEW s \in Seq(S), NEW x \in S
  PROVE  ItemsOf(Append(s, x)) = ItemsOf(s) \cup {x}
<1>1. /\ Append(s, x) \in Seq(S) /\ Len(Append(s, x)) = Len(s) + 1
      /\ \A i \in 1..Len(s) : Append(s, x)[i] = s[i]
      /\ Append(s, x)[Len(s) + 1] = x /\ Len(s) \in Nat
  BY AppendProperties, LenProperties
<1>2. DOMAIN s = 1..Len(s) /\ DOMAIN Append(s, x) = 1..(Len(s) + 1)
  BY <1>1, LenProperties
<1> QED
  BY <1>1, <1>2 DEF ItemsOf

\* An element more at the head.
LEMMA ItemsOfPush ==
  ASSUME NEW S, NEW s \in Seq(S), NEW x \in S
  PROVE  /\ ItemsOf(<<x>> \o s) = {x} \cup ItemsOf(s)
         /\ DOMAIN (<<x>> \o s) = 1..(Len(s) + 1)
         /\ (<<x>> \o s)[1] = x
         /\ \A i \in DOMAIN s : (<<x>> \o s)[i + 1] = s[i]
<1>1. <<x>> \in Seq(S) /\ Len(<<x>>) = 1 /\ Len(s) \in Nat /\ DOMAIN s = 1..Len(s)
  BY LenProperties
<1>2. /\ Len(<<x>> \o s) = Len(s) + 1 /\ <<x>> \o s \in Seq(S)
      /\ \A i \in 1..(Len(s) + 1) :
           (<<x>> \o s)[i] = IF i <= 1 THEN <<x>>[i] ELSE s[i - 1]
  BY <1>1, ConcatProperties
<1>3. DOMAIN (<<x>> \o s) = 1..(Len(s) + 1)
  BY <1>2, LenProperties
<1>4. (<<x>> \o s)[1] = x
  BY <1>1, <1>2
<1>5. \A i \in DOMAIN s : (<<x>> \o s)[i + 1] = s[i]
  BY <1>1, <1>2
<1>6. \A i \in 2..(Len(s) + 1) : i - 1 \in DOMAIN s /\ (<<x>> \o s)[i] = s[i - 1]
  BY <1>1, <1>2
<1>7. ItemsOf(<<x>> \o s) = {x} \cup ItemsOf(s)
  <2>1. 1 \in DOMAIN (<<x>> \o s) /\ \A i \in DOMAIN s : i + 1 \in DOMAIN (<<x>> \o s)
    BY <1>1, <1>3
  <2>2. {x} \cup ItemsOf(s) \subseteq ItemsOf(<<x>> \o s)
    BY <1>4, <1>5, <2>1 DEF ItemsOf
  <2>3. \A i \in DOMAIN (<<x>> \o s) : i = 1 \/ i \in 2..(Len(s) + 1)
    BY <1>1, <1>3
  <2>4. ItemsOf(<<x>> \o s) \subseteq {x} \cup ItemsOf(s)
    BY <1>4, <1>6, <2>3 DEF ItemsOf
  <2> QED
    BY <2>2, <2>4
<1> QED
  BY <1>3, <1>4, <1>5, <1>7

\* An element less at the head.
LEMMA ItemsOfTail ==
  ASSUME NEW S, NEW s \in Seq(S), s # <<>>
  PROVE  /\ ItemsOf(s) = {Head(s)} \cup ItemsOf(Tail(s))
         /\ Head(s) = s[1] /\ 1 \in DOMAIN s
         /\ DOMAIN Tail(s) = 1..(Len(s) - 1)
         /\ \A i \in DOMAIN Tail(s) : i + 1 \in DOMAIN s /\ Tail(s)[i] = s[i + 1]
<1>1. /\ Len(s) \in Nat /\ Len(s) >= 1 /\ DOMAIN s = 1..Len(s)
  BY EmptySeq, LenProperties
<1>2. /\ Tail(s) \in Seq(S) /\ Len(Tail(s)) = Len(s) - 1
      /\ \A i \in 1..Len(Tail(s)) : Tail(s)[i] = s[i + 1]
      /\ Head(s) = s[1]
  BY HeadTailProperties
<1>3. DOMAIN Tail(s) = 1..(Len(s) - 1)
  BY <1>2, LenProperties
<1>4. \A i \in DOMAIN s \ {1} : i - 1 \in DOMAIN Tail(s) /\ Tail(s)[i - 1] = s[i]
  BY <1>1, <1>2, <1>3
<1>5. \A i \in DOMAIN Tail(s) : i + 1 \in DOMAIN s /\ Tail(s)[i] = s[i + 1]
  BY <1>1, <1>2, <1>3
<1>6. ItemsOf(s) = {Head(s)} \cup ItemsOf(Tail(s))
  <2>1. {Head(s)} \cup ItemsOf(Tail(s)) \subseteq ItemsOf(s)
    BY <1>1, <1>2, <1>5 DEF ItemsOf
  <2>2. ItemsOf(s) \subseteq {Head(s)} \cup ItemsOf(Tail(s))
    BY <1>2, <1>4 DEF ItemsOf
  <2> QED
    BY <2>1, <2>2
<1> QED
  BY <1>1, <1>2, <1>3, <1>5, <1>6

-----------------------------------------------------------------------------
(* Who owns which thread_data: the pool of thread_data as PoolUse has it.  *)

Owners == Threads \cup {"tlist", "wq"}

TdP == INSTANCE PoolProofs
  WITH Threads <- Owners, MaxHold <- MaxTd, MaxNum <- MaxTd, Amp <- TdAmp,
       num <- tdNum, inuse <- tdInuse, busy <- tdBusy, waiting <- tdWaiting,
       woken <- tdWoken, held <- TdHeld, failed <- {}

TdOwn(t) == (IF pc[t] \in NotOwner THEN {} ELSE {local[t].td}) \ {0}

\* The queues hold no thread_data twice.
TdsInjective ==
  /\ \A i, j \in DOMAIN tlist : tlist[i] = tlist[j] /\ tlist[i] # 0 => i = j
  /\ \A i, j \in DOMAIN wq : wq[i].td = wq[j].td /\ wq[i].td # 0 => i = j

\* TdHeld is a function on the owners, before and after a step.
LEMMA TdHeldFunction == /\ TdHeld = [h \in Owners |-> TdHeld[h]]
                        /\ TdHeld' = [h \in Owners |-> TdHeld'[h]]
BY DEF TdHeld, Owners

\* TdHeld, owner by owner.
LEMMA TdHeldValues ==
  /\ TdHeld["tlist"] = ItemsOf(tlist) \ {0}
  /\ TdHeld["wq"] = {j.td : j \in ItemsOf(wq)} \ {0}
  /\ \A t \in Threads : TdHeld[t] = TdOwn(t)
  /\ "tlist" \notin Threads /\ "wq" \notin Threads
BY OwnersAssumption DEF TdHeld, TdOwn, Owners

\* The same after a step.
LEMMA TdHeldValuesNext ==
  /\ TdHeld'["tlist"] = ItemsOf(tlist') \ {0}
  /\ TdHeld'["wq"] = {j.td : j \in ItemsOf(wq')} \ {0}
  /\ \A t \in Threads : TdHeld'[t] = TdOwn(t)'
BY OwnersAssumption DEF TdHeld, TdOwn, Owners

\* The instance counts as this module does.
LEMMA TdCounts ==
  /\ \A S : TdP!Cardinality(S) = Cardinality(S)
  /\ \A S : TdP!IsFiniteSet(S) <=> IsFiniteSet(S)
BY DEF TdP!Cardinality, Cardinality, TdP!IsFiniteSet, IsFiniteSet

\* What PoolProofs assumes holds of the server's pool of thread_data.
LEMMA TdAssumptions == TdP!PoolAssumption /\ TdP!UseAssumption
<1>1. IsFiniteSet(Owners)
  <2>1. IsFiniteSet(Reqs \cup Workers)
    BY ServerAssumption, FS_Union
  <2>2. IsFiniteSet((Reqs \cup Workers) \cup {Main})
    BY <2>1, FS_AddElement
  <2>3. IsFiniteSet(((Reqs \cup Workers) \cup {Main}) \cup {"tlist"})
    BY <2>2, FS_AddElement
  <2>4. IsFiniteSet((((Reqs \cup Workers) \cup {Main}) \cup {"tlist"}) \cup {"wq"})
    BY <2>3, FS_AddElement
  <2>5. Owners = (((Reqs \cup Workers) \cup {Main}) \cup {"tlist"}) \cup {"wq"}
    BY DEF Owners, Threads
  <2> QED
    BY <2>4, <2>5
<1>2. MaxTd \in Nat \ {0}
  BY SizesAssumption
<1> QED
  BY <1>1, <1>2, TdCounts, SizesAssumption DEF TdP!PoolAssumption, TdP!UseAssumption

\* What the invariant of the pool says of its owners.
LEMMA TdOwners ==
  ASSUME TdP!PoolInv
  PROVE  /\ \A h, g \in Owners : h # g => TdHeld[h] \cap TdHeld[g] = {}
         /\ \A h \in Owners : TdHeld[h] \subseteq Td /\ TdHeld[h] \subseteq tdBusy
BY DEF TdP!PoolInv, TdP!PTypeOK, TdP!StatusMatchesHolders, TdP!Entry, Td

\* Nothing is left of a pool's maximum for the others but what one has not got.
LEMMA TdRoom ==
  ASSUME TdP!PoolInv, NEW h \in Owners, NEW g \in Owners, h # g, NEW e \in TdHeld[h]
  PROVE  Cardinality(TdHeld[g]) < MaxTd
<1>1. TdHeld[g] \subseteq Td \ {e} /\ e \in Td
  BY TdOwners
<1>2. IsFiniteSet(Td) /\ Cardinality(Td) = MaxTd /\ MaxTd \in Nat
  <2>1. MaxTd \in Nat /\ MaxTd >= 1
    BY SizesAssumption
  <2>2. IsFiniteSet(1..MaxTd) /\ Cardinality(1..MaxTd) = MaxTd
    BY <2>1, FS_Interval
  <2> QED
    BY <2>1, <2>2 DEF Td
<1>3. IsFiniteSet(Td \ {e}) /\ Cardinality(Td \ {e}) = MaxTd - 1
  BY <1>1, <1>2, FS_RemoveElement
<1>4. Cardinality(TdHeld[g]) <= MaxTd - 1 /\ Cardinality(TdHeld[g]) \in Nat
  BY <1>1, <1>3, FS_Subset, FS_CardinalityType
<1> QED
  BY <1>2, <1>4

\* The pool's operations are those the server calls.
LEMMA TdOperations ==
  ASSUME NEW t, NEW e
  PROVE  /\ TdP!Grant(t, e) <=> TdPool!Grant(t, e)
         /\ TdP!Block(t) <=> TdPool!Block(t)
         /\ TdP!Join(e) <=> TdPool!Join(e)
         /\ TdP!SpuriousWakeup <=> TdPool!SpuriousWakeup
         /\ TdPool!Grant(t, e) /\ e # 0 => e \in (1..TdP!Populated) \ tdBusy
BY DEF TdP!Grant, TdPool!Grant, TdP!Block, TdPool!Block, TdP!Join, TdPool!Join,
  TdP!SpuriousWakeup, TdPool!SpuriousWakeup, TdP!MustWait, TdPool!MustWait,
  TdP!Exhausted, TdPool!Exhausted, TdP!Found, TdPool!Found, TdP!Free, TdPool!Free,
  TdP!Populated, TdPool!Populated, TdP!Null, TdPool!Null,
  TdP!Cond!Proceed, TdPool!Cond!Proceed, TdP!Cond!Wait, TdPool!Cond!Wait,
  TdP!Cond!Signal, TdPool!Cond!Signal, TdP!Cond!Awaken, TdPool!Cond!Awaken,
  TdP!Cond!SpuriousWakeup, TdPool!Cond!SpuriousWakeup

\* The thread_data in service: those the main thread has filled in and nobody
\* has closed the connection of.
TalkLabels == {"getB", "read", "getError", "getOut", "enqueueJob", "process",
               "getResponse", "write", "joinResponse", "joinError", "close"}
Serving == {"tlist", "wq", Main} \cup Talking
InService == UNION {TdHeld[h] : h \in Serving}

\* Whoever uses a thread_data finds its pointers set.
Usable == /\ \A e \in InService : ~TdNull(e)
          /\ \A t \in Reqs : pc[t] = "joinBServed" => field[local[t].td].bp

TdInv == TdP!PoolInv /\ TdsInjective /\ Usable

\* A thread_data passes from an owner to another.
TdMoved(h, g, e) ==
  /\ h # g /\ e \in TdHeld[h]
  /\ {h, g} \cap (tdWaiting \cup tdWoken) = {}
  /\ UNCHANGED tdPoolVars
  /\ TdHeld' = [TdHeld EXCEPT ![h] = @ \ {e}, ![g] = @ \cup {e}]

\* TdHeld, changed at two owners.
LEMMA TdMovedIf ==
  ASSUME NEW h \in Owners, NEW g \in Owners, NEW e, h # g,
         TdHeld'[h] = TdHeld[h] \ {e}, TdHeld'[g] = TdHeld[g] \cup {e},
         \A u \in Owners \ {h, g} : TdHeld'[u] = TdHeld[u]
  PROVE  TdHeld' = [TdHeld EXCEPT ![h] = @ \ {e}, ![g] = @ \cup {e}]
BY TdHeldFunction

\* The queues' names are owners, and apart from the threads.
LEMMA QueuesOwn ==
  ASSUME NEW t \in Threads, NEW q \in {"tlist", "wq"}
  PROVE  t \in Owners /\ q \in Owners /\ t # q
BY OwnersAssumption DEF Owners

\* What is kept, owner by owner, when a thread t and a queue q change.
LEMMA TdOthersKept ==
  ASSUME NEW t \in Threads, NEW q \in {"tlist", "wq"},
         \A u \in Threads \ {t} : TdOwn(u)' = TdOwn(u),
         \A p \in {"tlist", "wq"} \ {q} : TdHeld'[p] = TdHeld[p]
  PROVE  \A u \in Owners \ {t, q} : TdHeld'[u] = TdHeld[u]
<1>1. ASSUME NEW u \in Threads \ {t} PROVE TdHeld'[u] = TdHeld[u]
  BY <1>1, TdHeldValues, TdHeldValuesNext
<1> QED
  BY <1>1 DEF Owners

\* A thread puts e in a queue.
LEMMA TdPutIn ==
  ASSUME NEW t \in Threads, NEW q \in {"tlist", "wq"}, NEW e,
         \A u \in Threads \ {t} : TdOwn(u)' = TdOwn(u),
         TdOwn(t) = {e}, TdOwn(t)' = {},
         TdHeld'[q] = TdHeld[q] \cup {e},
         \A p \in {"tlist", "wq"} \ {q} : TdHeld'[p] = TdHeld[p]
  PROVE  TdHeld' = [TdHeld EXCEPT ![t] = @ \ {e}, ![q] = @ \cup {e}]
<1>1. TdHeld'[t] = TdHeld[t] \ {e}
  BY TdHeldValues, TdHeldValuesNext
<1> QED
  BY <1>1, TdMovedIf, TdOthersKept, QueuesOwn

\* A thread takes e out of a queue.
LEMMA TdTakenOut ==
  ASSUME NEW t \in Threads, NEW q \in {"tlist", "wq"}, NEW e,
         \A u \in Threads \ {t} : TdOwn(u)' = TdOwn(u),
         TdOwn(t) = {}, TdOwn(t)' = {e},
         TdHeld'[q] = TdHeld[q] \ {e},
         \A p \in {"tlist", "wq"} \ {q} : TdHeld'[p] = TdHeld[p]
  PROVE  TdHeld' = [TdHeld EXCEPT ![q] = @ \ {e}, ![t] = @ \cup {e}]
<1>1. TdHeld'[t] = TdHeld[t] \cup {e}
  BY TdHeldValues, TdHeldValuesNext
<1> QED
  BY <1>1, TdMovedIf, TdOthersKept, QueuesOwn

\* Nobody's share changes.
LEMMA TdAllKept ==
  ASSUME \A u \in Threads : TdOwn(u)' = TdOwn(u),
         \A p \in {"tlist", "wq"} : TdHeld'[p] = TdHeld[p]
  PROVE  TdHeld' = TdHeld
<1>1. ASSUME NEW u \in Threads PROVE TdHeld'[u] = TdHeld[u]
  BY <1>1, TdHeldValues, TdHeldValuesNext
<1>2. \A u \in Owners : TdHeld'[u] = TdHeld[u]
  BY <1>1 DEF Owners
<1> QED
  BY <1>2, TdHeldFunction

\* What a thread owns only changes when it gets, passes on, takes or returns.
LEMMA TdOwnKept ==
  ASSUME Base, [Next]_vars
  PROVE  \/ \A t \in Threads : TdOwn(t)' = TdOwn(t)
         \/ GetTd \/ EnqueueTd
         \/ \E t \in Reqs : ReqTakes(t) \/ EnqueueJob(t)
         \/ \E t \in Workers : WorkerTakes(t)
         \/ \E t \in Others : JoinTd(t)
<1>0. /\ ThreadTypes /\ \A t \in Threads : pc[t] \in LabelsOf(t) /\ Locals(t)
  BY DEF Base, Control
<1> USE ThreadsDistinct DEF ThreadTypes, LocalsOf, TdOwn, NotOwner, Goto, At
<1>1. ASSUME MainNext, ~GetTd, ~EnqueueTd
      PROVE  \A t \in Threads : TdOwn(t)' = TdOwn(t)
  BY <1>0, <1>1 DEF MainNext, Peek, PollTimeout, Accept, GetTdBlocks,
    WakeupTd, Check, StopReq, StopReqWakeup, StopWorker, StopWorkerWakeup
<1>2. ASSUME NEW t \in Others, Respond(t), ~JoinTd(t)
      PROVE  \A u \in Threads : TdOwn(u)' = TdOwn(u)
  BY <1>0, <1>2 DEF Respond, GetResponse, Write, JoinResponse, JoinBuffer, Close,
    GetBufferBlocks
<1>3. ASSUME NEW t \in Reqs, ReqNext(t), ~ReqTakes(t), ~EnqueueJob(t)
      PROVE  \A u \in Threads : TdOwn(u)' = TdOwn(u)
  <2>1. CASE GetB(t) \/ GetError(t) \/ GetOut(t)
    BY <1>0, <2>1 DEF GetB, GetError, GetOut, GetBuffer
  <2>2. CASE ReqSleeps(t) \/ ReqStops(t) \/ ReadFails(t) \/ ReadBadQuery(t) \/ ReadRequest(t)
    BY <1>0, <2>2 DEF ReqSleeps, ReqStops, ReadFails, ReadBadQuery, ReadRequest
  <2>3. CASE JoinError(t) \/ JoinB(t) \/ JoinBServed(t)
    BY <1>0, <2>3 DEF JoinError, JoinB, JoinBServed, JoinBuffer
  <2>4. CASE WakeupJob(t)
    BY <1>0, <2>4 DEF WakeupJob, Idle
  <2> QED
    BY <1>3, <2>1, <2>2, <2>3, <2>4 DEF ReqNext
<1>4. ASSUME NEW t \in Workers, WorkerNext(t), ~WorkerTakes(t)
      PROVE  \A u \in Threads : TdOwn(u)' = TdOwn(u)
  BY <1>0, <1>4 DEF WorkerNext, WorkerSleeps, Process, JoinOut, JoinBuffer
<1>5. ASSUME (\E c \in Clients : Arrive(c)) \/ Signal \/ SpuriousWakeup \/ UNCHANGED vars
      PROVE  \A t \in Threads : TdOwn(t)' = TdOwn(t)
  BY <1>0, <1>5 DEF Arrive, Signal, SpuriousWakeup, vars
<1> QED
  BY <1>1, <1>2, <1>3, <1>4, <1>5 DEF Next, Others

\* The main thread puts its thread_data in the list of connections.
LEMMA EnqueueTdMoves ==
  ASSUME Base, TdInv, EnqueueTd
  PROVE  TdMoved(Main, "tlist", local[Main].td)
<1> DEFINE e == local[Main].td
<1>0. ThreadTypes /\ Locals(Main) /\ Waiters /\ tlist \in Seq(Td \cup {StopTd})
  BY ThreadsDistinct DEF Base, Control, DataTypes
<1>1. /\ pc[Main] = "enqueueTd" /\ tlist' = <<e>> \o tlist /\ wq' = wq
      /\ pc' = [pc EXCEPT ![Main] = "wakeupTd"]
      /\ local' = [local EXCEPT ![Main] = Idle] /\ UNCHANGED tdPoolVars
  BY DEF EnqueueTd, At, Goto, TList!Enqueue, wqVars
<1>2. e \in Td
  BY <1>0, <1>1, ThreadsDistinct DEF ThreadTypes, LocalsOf, Locals, WithTd
<1>3. TdOwn(Main) = {e} /\ TdOwn(Main)' = {}
  BY <1>0, <1>1, <1>2, ThreadsDistinct DEF TdOwn, NotOwner, ThreadTypes, Idle
<1>4. \A u \in Threads \ {Main} : TdOwn(u)' = TdOwn(u)
  BY <1>0, <1>1 DEF TdOwn, ThreadTypes
<1>5. ItemsOf(tlist') = ItemsOf(tlist) \cup {e}
  BY <1>0, <1>1, <1>2, ItemsOfPush
<1> HIDE DEF e
<1>6. e # 0
  BY <1>2, ThreadsDistinct
<1>7. TdHeld' = [TdHeld EXCEPT ![Main] = @ \ {e}, !["tlist"] = @ \cup {e}]
  <2>1. TdHeld'["tlist"] = TdHeld["tlist"] \cup {e}
    BY <1>5, <1>6, TdHeldValues, TdHeldValuesNext
  <2>2. TdHeld'["wq"] = TdHeld["wq"]
    BY <1>1, TdHeldValues, TdHeldValuesNext
  <2>3. Main \in Threads
    BY ThreadsDistinct
  <2> QED
    BY <1>3, <1>4, <2>1, <2>2, <2>3, TdPutIn
<1>8. {Main, "tlist"} \cap (tdWaiting \cup tdWoken) = {}
  BY <1>0, <1>1, TdHeldValues, ThreadsDistinct DEF Waiters
<1> QED
  BY <1>1, <1>3, <1>7, <1>8, TdHeldValues, ThreadsDistinct DEF TdMoved, e

\* A request thread takes a thread_data, or a stop.
LEMMA ReqTakesMoves ==
  ASSUME Base, TdInv, NEW t \in Reqs, ReqTakes(t)
  PROVE  \/ TdMoved("tlist", t, Head(tlist)) /\ pc'[t] = "getB" /\ local'[t].td = Head(tlist)
         \/ UNCHANGED <<TdHeld, tdPoolVars>> /\ pc'[t] = "stopped" /\ local'[t].td = 0
<1> DEFINE e == Head(tlist)
<1>0. /\ ThreadTypes /\ Locals(t) /\ Waiters /\ tlist \in Seq(Td \cup {StopTd})
      /\ t \in Threads /\ t # Main /\ ~field[StopTd].sq
  BY ThreadsDistinct DEF Base, Control, DataTypes
<1>1. /\ pc[t] = "dequeue" /\ tlist # <<>> /\ tlist' = Tail(tlist) /\ wq' = wq
      /\ pc' = [pc EXCEPT ![t] = IF TdNull(e) THEN "stopped" ELSE "getB"]
      /\ local' = [local EXCEPT ![t].td = e] /\ UNCHANGED tdPoolVars
  BY DEF ReqTakes, At, Goto, TList!Take, wqVars
<1>2. /\ ItemsOf(tlist) = {e} \cup ItemsOf(tlist')
      /\ e = tlist[1] /\ 1 \in DOMAIN tlist
      /\ \A i \in DOMAIN tlist' : i + 1 \in DOMAIN tlist /\ tlist'[i] = tlist[i + 1] /\ i \in Nat /\ i # 0
  BY <1>0, <1>1, ItemsOfTail
<1>3. e # 0 => e \notin ItemsOf(tlist')
  <2> SUFFICES ASSUME e # 0, NEW i \in DOMAIN tlist', tlist'[i] = e PROVE FALSE
    BY DEF ItemsOf
  <2>1. tlist[i + 1] = tlist[1] /\ i + 1 \in DOMAIN tlist /\ tlist[1] # 0 /\ i + 1 # 1
    BY <1>2
  <2> QED
    BY <1>2, <2>1 DEF TdInv, TdsInjective
<1>4. TdNull(e) <=> e = 0
  <2>1. e # 0 => ~TdNull(e)
    BY <1>2, TdHeldValues DEF TdInv, Usable, InService, Serving, ItemsOf
  <2>2. e = 0 => TdNull(e)
    BY <1>0 DEF TdNull, StopTd
  <2> QED
    BY <2>1, <2>2
<1>5. \A u \in Threads \ {t} : TdOwn(u)' = TdOwn(u)
  BY <1>0, <1>1 DEF TdOwn, ThreadTypes
<1>6. /\ TdOwn(t) = {}
      /\ local'[t].td = e
      /\ pc'[t] = IF e = 0 THEN "stopped" ELSE "getB"
  BY <1>0, <1>1, <1>4 DEF TdOwn, ThreadTypes, LocalsOf, Locals, WithTd, NotOwner
<1>7. TdOwn(t)' = {e} \ {0}
  BY <1>6 DEF TdOwn, NotOwner
<1> HIDE DEF e
<1>8. CASE e = 0
  <2>1. TdHeld'["tlist"] = TdHeld["tlist"] /\ TdHeld'["wq"] = TdHeld["wq"]
    BY <1>1, <1>2, <1>8, TdHeldValues, TdHeldValuesNext
  <2>3. \A u \in Threads : TdOwn(u)' = TdOwn(u)
    BY <1>5, <1>6, <1>7, <1>8
  <2>2. TdHeld' = TdHeld
    BY <2>1, <2>3, TdAllKept
  <2> QED
    BY <1>1, <1>6, <1>8, <2>2
<1>9. CASE e # 0
  <2>1. TdHeld'["tlist"] = TdHeld["tlist"] \ {e}
    BY <1>2, <1>3, <1>9, TdHeldValues, TdHeldValuesNext
  <2>5. TdHeld'["wq"] = TdHeld["wq"]
    BY <1>1, TdHeldValues, TdHeldValuesNext
  <2>6. TdOwn(t) = {} /\ TdOwn(t)' = {e} /\ t \in Threads
    BY <1>0, <1>6, <1>7, <1>9
  <2>2. TdHeld' = [TdHeld EXCEPT !["tlist"] = @ \ {e}, ![t] = @ \cup {e}]
    BY <1>5, <2>1, <2>5, <2>6, TdTakenOut
  <2>3. {"tlist", t} \cap (tdWaiting \cup tdWoken) = {}
    BY <1>0, TdHeldValues, ThreadsDistinct DEF Waiters
  <2>4. e \in TdHeld["tlist"]
    BY <1>2, <1>9, TdHeldValues
  <2> QED
    BY <1>0, <1>1, <1>6, <1>9, <2>2, <2>3, <2>4, TdHeldValues DEF TdMoved, e
<1> QED
  BY <1>8, <1>9

\* A request thread puts its thread_data in a job.
LEMMA EnqueueJobMoves ==
  ASSUME Base, TdInv, NEW t \in Reqs, EnqueueJob(t)
  PROVE  TdMoved(t, "wq", local[t].td)
<1> DEFINE e == local[t].td
           j == [td |-> e, out |-> local[t].body]
<1>0. /\ ThreadTypes /\ Locals(t) /\ Waiters /\ wq \in Seq(Job)
      /\ t \in Threads /\ t # Main
  BY ThreadsDistinct DEF Base, Control, DataTypes
<1>1. /\ pc[t] = "enqueueJob" /\ wq' = Append(wq, j) /\ tlist' = tlist
      /\ pc' = [pc EXCEPT ![t] = "joinBServed"]
      /\ local' = [local EXCEPT ![t].body = 0] /\ UNCHANGED tdPoolVars
  BY DEF EnqueueJob, At, Goto, WorkQ!Enqueue, tlistVars
<1>2. e \in Td /\ j \in Job /\ j.td = e
  BY <1>0, <1>1 DEF ThreadTypes, LocalsOf, Locals, WithTd, Job, StopTd
<1>3. TdOwn(t) = {e} /\ TdOwn(t)' = {}
  BY <1>0, <1>1, <1>2, ThreadsDistinct DEF TdOwn, NotOwner, ThreadTypes
<1>4. \A u \in Threads \ {t} : TdOwn(u)' = TdOwn(u)
  BY <1>0, <1>1 DEF TdOwn, ThreadTypes
<1>5. ItemsOf(wq') = ItemsOf(wq) \cup {j}
  BY <1>0, <1>1, <1>2, ItemsOfAppend
<1> HIDE DEF e, j
<1>6. e # 0
  BY <1>2, ThreadsDistinct
<1>7. TdHeld' = [TdHeld EXCEPT ![t] = @ \ {e}, !["wq"] = @ \cup {e}]
  <2>1. TdHeld'["wq"] = TdHeld["wq"] \cup {e}
    BY <1>2, <1>5, <1>6, TdHeldValues, TdHeldValuesNext
  <2>2. TdHeld'["tlist"] = TdHeld["tlist"]
    BY <1>1, TdHeldValues, TdHeldValuesNext
  <2>3. t \in Threads
    BY <1>0
  <2> QED
    BY <1>3, <1>4, <2>1, <2>2, <2>3, TdPutIn
<1>8. {t, "wq"} \cap (tdWaiting \cup tdWoken) = {}
  BY <1>0, TdHeldValues, ThreadsDistinct DEF Waiters
<1> QED
  BY <1>0, <1>1, <1>3, <1>7, <1>8, TdHeldValues DEF TdMoved, e

\* A worker takes a job, or a stop.
LEMMA WorkerTakesMoves ==
  ASSUME Base, TdInv, NEW t \in Workers, WorkerTakes(t)
  PROVE  /\ wq # <<>> /\ wq' = Tail(wq)
         /\ local' = [local EXCEPT ![t].td = Head(wq).td, ![t].body = Head(wq).out]
         /\ \/ TdMoved("wq", t, Head(wq).td) /\ pc'[t] = "process"
            \/ UNCHANGED <<TdHeld, tdPoolVars>> /\ pc'[t] = "exited" /\ Head(wq) = StopJob
<1> DEFINE j == Head(wq)
           e == j.td
<1>0. /\ ThreadTypes /\ Locals(t) /\ Waiters /\ wq \in Seq(Job) /\ JobsNamed
      /\ t \in Threads /\ t # Main
  BY ThreadsDistinct DEF Base, Control, DataTypes
<1>1. /\ pc[t] = "dequeue" /\ wq # <<>> /\ wq' = Tail(wq) /\ tlist' = tlist
      /\ pc' = [pc EXCEPT ![t] = IF j = StopJob THEN "exited" ELSE "process"]
      /\ local' = [local EXCEPT ![t].td = e, ![t].body = j.out]
      /\ UNCHANGED tdPoolVars
  BY DEF WorkerTakes, At, Goto, WorkQ!Take, tlistVars
<1>2. /\ ItemsOf(wq) = {j} \cup ItemsOf(wq')
      /\ j = wq[1] /\ 1 \in DOMAIN wq
      /\ \A i \in DOMAIN wq' : i + 1 \in DOMAIN wq /\ wq'[i] = wq[i + 1] /\ i \in Nat /\ i # 0
  BY <1>0, <1>1, ItemsOfTail
<1>3. e # 0 => e \notin {k.td : k \in ItemsOf(wq')}
  <2> SUFFICES ASSUME e # 0, NEW i \in DOMAIN wq', wq'[i].td = e PROVE FALSE
    BY DEF ItemsOf
  <2>1. wq[i + 1].td = wq[1].td /\ i + 1 \in DOMAIN wq /\ wq[1].td # 0 /\ i + 1 # 1
    BY <1>2
  <2> QED
    BY <1>2, <2>1 DEF TdInv, TdsInjective
<1>4. (j = StopJob) <=> (e = 0)
  BY <1>0, <1>2 DEF JobsNamed, StopJob
<1>5. \A u \in Threads \ {t} : TdOwn(u)' = TdOwn(u)
  BY <1>0, <1>1 DEF TdOwn, ThreadTypes
<1>6. TdOwn(t) = {}
  BY <1>0, <1>1 DEF TdOwn, Locals, WithTd
<1>7. local'[t].td = e
  BY <1>0, <1>1 DEF ThreadTypes, LocalsOf
<1>8. pc'[t] = IF j = StopJob THEN "exited" ELSE "process"
  BY <1>0, <1>1 DEF ThreadTypes
<1>9. TdOwn(t)' = {e} \ {0}
  BY <1>7, <1>8 DEF TdOwn, NotOwner
<1> HIDE DEF e, j
<1>a. {k.td : k \in ItemsOf(wq)} = {e} \cup {k.td : k \in ItemsOf(wq')}
  BY <1>2 DEF e
<1>b. CASE e = 0
  <2>1. TdHeld'["tlist"] = TdHeld["tlist"] /\ TdHeld'["wq"] = TdHeld["wq"]
    BY <1>a, <1>1, <1>b, TdHeldValues, TdHeldValuesNext
  <2>3. \A u \in Threads : TdOwn(u)' = TdOwn(u)
    BY <1>5, <1>6, <1>9, <1>b
  <2>2. TdHeld' = TdHeld
    BY <2>1, <2>3, TdAllKept
  <2> QED
    BY <1>1, <1>4, <1>8, <1>b, <2>2 DEF e, j
<1>c. CASE e # 0
  <2>1. TdHeld'["wq"] = TdHeld["wq"] \ {e}
    BY <1>a, <1>3, <1>c, TdHeldValues, TdHeldValuesNext
  <2>6. TdHeld'["tlist"] = TdHeld["tlist"]
    BY <1>1, TdHeldValues, TdHeldValuesNext
  <2>7. TdOwn(t) = {} /\ TdOwn(t)' = {e} /\ t \in Threads
    BY <1>0, <1>6, <1>9, <1>c
  <2>2. TdHeld' = [TdHeld EXCEPT !["wq"] = @ \ {e}, ![t] = @ \cup {e}]
    BY <1>5, <2>1, <2>6, <2>7, TdTakenOut
  <2>3. {"wq", t} \cap (tdWaiting \cup tdWoken) = {}
    BY <1>0, TdHeldValues, ThreadsDistinct DEF Waiters
  <2>4. e \in TdHeld["wq"]
    BY <1>a, <1>c, TdHeldValues
  <2>5. TdMoved("wq", t, e)
    BY <1>0, <1>1, <2>2, <2>3, <2>4, TdHeldValues DEF TdMoved
  <2> QED
    BY <1>1, <1>4, <1>8, <1>c, <2>5 DEF e, j
<1> QED
  BY <1>b, <1>c

-----------------------------------------------------------------------------
(* The server uses the pool of thread_data as PoolUse says.                *)

\* A thread returns its thread_data.
LEMMA JoinTdReturns ==
  ASSUME Base, NEW t \in Others, JoinTd(t)
  PROVE  TdP!Return(t) /\ UNCHANGED <<tlist, wq>>
<1> DEFINE e == local[t].td
<1>0. ThreadTypes /\ Locals(t) /\ Waiters /\ t \in Threads /\ t # Main
  BY ThreadsDistinct DEF Base, Control
<1>1. /\ pc[t] = "joinTd" /\ tlist' = tlist /\ wq' = wq
      /\ TdPool!Join(e)
      /\ pc' = [pc EXCEPT ![t] = "dequeue"]
      /\ local' = [local EXCEPT ![t] = Idle]
  BY DEF JoinTd, At, Goto, queuesVars, tlistVars, wqVars
<1>2. e # 0
  BY <1>0, <1>1 DEF Locals, WithTd
<1>3. TdOwn(t) = {e} /\ TdOwn(t)' = {}
  BY <1>0, <1>1, <1>2 DEF TdOwn, NotOwner, ThreadTypes, Idle
<1>4. \A u \in Threads \ {t} : TdOwn(u)' = TdOwn(u)
  BY <1>0, <1>1 DEF TdOwn, ThreadTypes
<1> HIDE DEF e
<1>5. TdHeld' = [TdHeld EXCEPT ![t] = @ \ {e}]
  <2>1. \A u \in Threads \ {t} : TdHeld'[u] = TdHeld[u]
    BY <1>4, TdHeldValues, TdHeldValuesNext
  <2>2. TdHeld'["tlist"] = TdHeld["tlist"] /\ TdHeld'["wq"] = TdHeld["wq"]
    BY <1>1, TdHeldValues, TdHeldValuesNext
  <2>3. TdHeld'[t] = TdHeld[t] \ {e}
    BY <1>0, <1>3, TdHeldValues, TdHeldValuesNext
  <2>4. \A u \in Owners \ {t} : TdHeld'[u] = TdHeld[u]
    BY <2>1, <2>2 DEF Owners
  <2> QED
    BY <2>3, <2>4, TdHeldFunction
<1>6. e \in TdHeld[t]
  BY <1>0, <1>3, TdHeldValues
<1>7. t \notin tdWaiting \cup tdWoken
  BY <1>0 DEF Waiters
<1>8. TdP!Join(e)
  BY <1>1, TdOperations
<1> QED
  BY <1>1, <1>5, <1>6, <1>7, <1>8 DEF TdP!Return

\* The main thread asks for a thread_data with none in its hands.
LEMMA MainAsks ==
  ASSUME Base, pc[Main] = "getTd"
  PROVE  TdHeld[Main] = {} /\ TdP!Cardinality(TdHeld[Main]) < MaxTd
<1>1. Locals(Main) /\ Main \in Threads
  BY ThreadsDistinct DEF Base, Control
<1>2. TdOwn(Main) = {}
  BY <1>1 DEF TdOwn, Locals, WithTd
<1>3. Cardinality({}) = 0 /\ MaxTd > 0
  BY FS_EmptySet, SizesAssumption
<1> QED
  BY <1>1, <1>2, <1>3, TdHeldValues, TdCounts

\* The main thread gets a thread_data.
LEMMA GetTdGets ==
  ASSUME Base, TdInv, GetTd
  PROVE  /\ TdP!Get(Main) /\ UNCHANGED <<tlist, wq>>
         /\ pc[Main] = "getTd" /\ pc'[Main] = "enqueueTd"
         /\ local'[Main].td \in Td \ tdBusy
         /\ field' = [field EXCEPT ![local'[Main].td] =
                        [client |-> local[Main].client, sq |-> TRUE, bp |-> TRUE]]
<1>0. ThreadTypes /\ Main \in Threads /\ 0 \notin Td
  BY ThreadsDistinct DEF Base, Control
<1>1. PICK e \in Td :
        /\ TdPool!Grant(Main, e)
        /\ local' = [local EXCEPT ![Main] = [Idle EXCEPT !.td = e]]
        /\ field' = [field EXCEPT ![e] =
                        [client |-> local[Main].client, sq |-> TRUE, bp |-> TRUE]]
  BY DEF GetTd
<1>2. /\ pc[Main] = "getTd" /\ tlist' = tlist /\ wq' = wq
      /\ pc' = [pc EXCEPT ![Main] = "enqueueTd"]
  BY DEF GetTd, At, Goto, queuesVars, tlistVars, wqVars
<1>3. local'[Main].td = e /\ pc'[Main] = "enqueueTd" /\ e # 0
  BY <1>0, <1>1, <1>2 DEF ThreadTypes, Idle
<1>4. TdOwn(Main)' = {e}
  BY <1>3 DEF TdOwn, NotOwner
<1>5. \A u \in Threads \ {Main} : TdOwn(u)' = TdOwn(u)
  BY <1>0, <1>1, <1>2 DEF TdOwn, ThreadTypes
<1>6. TdHeld[Main] = {} /\ TdP!Cardinality(TdHeld[Main]) < MaxTd
  BY <1>2, MainAsks
<1>7. TdHeld' = [TdHeld EXCEPT ![Main] = @ \cup ({e} \ {TdP!Null})]
  <2>1. \A u \in Threads \ {Main} : TdHeld'[u] = TdHeld[u]
    BY <1>5, TdHeldValues, TdHeldValuesNext
  <2>2. TdHeld'["tlist"] = TdHeld["tlist"] /\ TdHeld'["wq"] = TdHeld["wq"]
    BY <1>2, TdHeldValues, TdHeldValuesNext
  <2>3. TdHeld'[Main] = TdHeld[Main] \cup ({e} \ {TdP!Null})
    BY <1>0, <1>3, <1>4, <1>6, TdHeldValuesNext DEF TdP!Null
  <2>4. \A u \in Owners \ {Main} : TdHeld'[u] = TdHeld[u]
    BY <2>1, <2>2 DEF Owners
  <2> QED
    BY <2>3, <2>4, TdHeldFunction
<1>8. TdP!Grant(Main, e) /\ e \in (1..TdP!Populated) \ tdBusy
  BY <1>1, <1>3, TdOperations
<1>9. TdP!Get(Main)
  BY <1>3, <1>6, <1>7, <1>8 DEF TdP!Get, TdP!Null
<1> QED
  BY <1>1, <1>2, <1>3, <1>8, <1>9

\* No other step changes what anybody owns: the stops name no thread_data.
LEMMA TdKept ==
  ASSUME Base, [Next]_vars, ~GetTd, ~EnqueueTd,
         \A t \in Reqs : ~ReqTakes(t) /\ ~EnqueueJob(t),
         \A t \in Workers : ~WorkerTakes(t),
         \A t \in Others : ~JoinTd(t)
  PROVE  TdHeld' = TdHeld
<1>0. tlist \in Seq(Td \cup {StopTd}) /\ wq \in Seq(Job)
  BY DEF Base, DataTypes
<1>1. \A t \in Threads : TdOwn(t)' = TdOwn(t)
  BY TdOwnKept
<1>2. TdHeld'["tlist"] = TdHeld["tlist"]
  <2>1. CASE StopReq
    <3>1. tlist' = <<StopTd>> \o tlist
      BY <2>1 DEF StopReq, TList!Enqueue
    <3>2. ItemsOf(tlist') = {StopTd} \cup ItemsOf(tlist)
      BY <1>0, <3>1, ItemsOfPush
    <3> QED
      BY <3>2, TdHeldValues, TdHeldValuesNext DEF StopTd
  <2>2. CASE UNCHANGED tlist
    BY <2>2, TdHeldValues, TdHeldValuesNext
  <2> QED
    BY <2>1, <2>2, WhoChanges
<1>3. TdHeld'["wq"] = TdHeld["wq"]
  <2>1. CASE StopWorker
    <3>1. wq' = Append(wq, StopJob) /\ StopJob \in Job /\ StopJob.td = 0
      BY <2>1 DEF StopWorker, WorkQ!Enqueue, StopJob, Job, StopTd
    <3>2. ItemsOf(wq') = ItemsOf(wq) \cup {StopJob}
      BY <1>0, <3>1, ItemsOfAppend
    <3> QED
      BY <3>1, <3>2, TdHeldValues, TdHeldValuesNext
  <2>2. CASE UNCHANGED wq
    BY <2>2, TdHeldValues, TdHeldValuesNext
  <2> QED
    BY <2>1, <2>2, WhoChanges
<1> QED
  BY <1>1, <1>2, <1>3, TdAllKept

\* A thread_data that is passed on is handed over.
LEMMA TdHandover ==
  ASSUME TdInv, NEW h \in Owners, NEW g \in Owners, NEW e, TdMoved(h, g, e)
  PROVE  TdP!PNext
<1>1. Cardinality(TdHeld[g]) < MaxTd
  BY TdRoom DEF TdMoved, TdInv
<1>2. TdP!Handover(h, g)
  BY <1>1, TdCounts DEF TdMoved, TdP!Handover, TdP!poolVars, tdPoolVars
<1> QED
  BY <1>2 DEF TdP!PNext

\* Every step of the server is a step of the pool's users, or none.
LEMMA TdSteps ==
  ASSUME Base, TdInv, [Next]_vars
  PROVE  [TdP!PNext]_(TdP!vars)
<1>0. /\ Main \in Owners /\ "tlist" \in Owners /\ "wq" \in Owners
      /\ \A t \in Others : t \in Owners
      /\ \A t \in Reqs : t \in Owners
      /\ \A t \in Workers : t \in Owners
  BY ThreadsDistinct DEF Owners
<1>1. CASE GetTd
  BY <1>0, <1>1, GetTdGets DEF TdP!PNext
<1>2. CASE EnqueueTd
  BY <1>0, <1>2, EnqueueTdMoves, TdHandover
<1>3. ASSUME NEW t \in Reqs, ReqTakes(t) PROVE [TdP!PNext]_(TdP!vars)
  <2>1. CASE TdMoved("tlist", t, Head(tlist))
    BY <1>0, <2>1, TdHandover
  <2>2. CASE UNCHANGED <<TdHeld, tdPoolVars>>
    BY <2>2 DEF TdP!vars, TdP!poolVars, tdPoolVars
  <2> QED
    BY <1>3, <2>1, <2>2, ReqTakesMoves
<1>4. ASSUME NEW t \in Reqs, EnqueueJob(t) PROVE [TdP!PNext]_(TdP!vars)
  BY <1>0, <1>4, EnqueueJobMoves, TdHandover
<1>5. ASSUME NEW t \in Workers, WorkerTakes(t) PROVE [TdP!PNext]_(TdP!vars)
  <2>1. CASE TdMoved("wq", t, Head(wq).td)
    BY <1>0, <2>1, TdHandover
  <2>2. CASE UNCHANGED <<TdHeld, tdPoolVars>>
    BY <2>2 DEF TdP!vars, TdP!poolVars, tdPoolVars
  <2> QED
    BY <1>5, <2>1, <2>2, WorkerTakesMoves
<1>6. ASSUME NEW t \in Others, JoinTd(t) PROVE [TdP!PNext]_(TdP!vars)
  BY <1>0, <1>6, JoinTdReturns DEF TdP!PNext
<1>7. ASSUME ~GetTd, ~EnqueueTd,
             \A t \in Reqs : ~ReqTakes(t) /\ ~EnqueueJob(t),
             \A t \in Workers : ~WorkerTakes(t),
             \A t \in Others : ~JoinTd(t)
      PROVE  [TdP!PNext]_(TdP!vars)
  <2>1. TdHeld' = TdHeld
    BY <1>7, TdKept
  <2>2. CASE UNCHANGED tdPoolVars
    BY <2>1, <2>2 DEF TdP!vars, TdP!poolVars, tdPoolVars
  <2>3. CASE GetTdBlocks
    <3>1. pc[Main] = "getTd" /\ TdP!Block(Main)
      BY <2>3, TdOperations DEF GetTdBlocks, At
    <3>2. TdP!GetBlocks(Main)
      BY <2>1, <3>1, MainAsks DEF TdP!GetBlocks
    <3> QED
      BY <1>0, <3>2 DEF TdP!PNext
  <2>4. CASE TdPool!SpuriousWakeup
    BY <2>1, <2>4, TdOperations DEF TdP!Spurious, TdP!PNext
  <2> QED
    BY <1>7, <2>2, <2>3, <2>4, WhoChanges
<1> QED
  BY <1>1, <1>2, <1>3, <1>4, <1>5, <1>6, <1>7

-----------------------------------------------------------------------------
(* Which thread_data are in service, and that they are usable.             *)

\* A thread starts and ends its talk with a client in few steps.
LEMMA TalkingChanges ==
  ASSUME Base, [Next]_vars, NEW u \in Others
  PROVE  \/ u \in Talking' <=> u \in Talking
         \/ u \in Reqs /\ (ReqTakes(u) \/ EnqueueJob(u))
         \/ u \in Workers /\ WorkerTakes(u)
         \/ Close(u)
<1>0. pc \in [Threads -> Labels] /\ u \in Threads /\ u # Main
      /\ pc[u] \in LabelsOf(u) /\ pc'[u] \in LabelsOf(u)
  <2>1. PICK t \in Threads : Moves(t)
    BY SomeoneMoves
  <2> QED
    BY <2>1, MovesKeep, ThreadsDistinct DEF Base, Control, ThreadTypes
<1> DEFINE Same == pc'[u] \in TalkLabels <=> pc[u] \in TalkLabels
<1>1. MainNext => Same
  BY <1>0
  DEF MainNext, Peek, PollTimeout, Accept, GetTdBlocks, GetTd, EnqueueTd,
    WakeupTd, Check, StopReq, StopReqWakeup, StopWorker, StopWorkerWakeup, Goto
<1>2. ASSUME NEW t \in Others, Respond(t) PROVE Same \/ Close(u)
  BY <1>0, <1>2
  DEF Respond, GetResponse, Write, JoinResponse, Close, JoinTd, GetBufferBlocks,
    Goto, At, TalkLabels
<1>3. ASSUME NEW t \in Reqs, ReqNext(t) PROVE Same \/ (t = u /\ (ReqTakes(u) \/ EnqueueJob(u)))
  <2>1. CASE t # u
    BY <1>0, <1>3, <2>1
    DEF ReqNext, ReqSleeps, ReqStops, GetB, ReadFails, ReadBadQuery, ReqTakes, EnqueueJob,
      ReadRequest, GetError, JoinError, JoinB, GetOut, JoinBServed, WakeupJob, Goto
  <2>2. CASE t = u /\ ~ReqTakes(u) /\ ~EnqueueJob(u)
    BY <1>0, <1>3, <2>2
    DEF ReqNext, ReqSleeps, ReqStops, GetB, ReadFails, ReadBadQuery,
      ReadRequest, GetError, JoinError, JoinB, GetOut, JoinBServed, WakeupJob, Goto, At,
      TalkLabels
  <2> QED
    BY <2>1, <2>2
<1>4. ASSUME NEW t \in Workers, WorkerNext(t) PROVE Same \/ (t = u /\ WorkerTakes(u))
  <2>1. CASE t # u
    BY <1>0, <1>4, <2>1
    DEF WorkerNext, WorkerSleeps, WorkerTakes, Process, JoinOut, Goto
  <2>2. CASE t = u /\ ~WorkerTakes(u)
    BY <1>0, <1>4, <2>2
    DEF WorkerNext, WorkerSleeps, Process, JoinOut, Goto, At, TalkLabels
  <2> QED
    BY <2>1, <2>2
<1>5. (\E c \in Clients : Arrive(c)) \/ Signal \/ SpuriousWakeup \/ UNCHANGED vars => Same
  BY <1>0 DEF Arrive, Signal, SpuriousWakeup, vars, Goto
<1>6. Same => (u \in Talking' <=> u \in Talking)
  BY DEF Talking, TalkLabels, Others
<1> HIDE DEF Same
<1> QED
  BY <1>1, <1>2, <1>3, <1>4, <1>5, <1>6 DEF Next, Others

\* A step of one thread leaves the talks of the others alone.
LEMMA TalkingElsewhere ==
  ASSUME NEW t \in Threads, NEW l, pc \in [Threads -> Labels],
         pc' = [pc EXCEPT ![t] = l]
  PROVE  /\ \A u \in Others \ {t} : u \in Talking' <=> u \in Talking
         /\ t \in Others => (t \in Talking' <=> l \in TalkLabels)
         /\ t \in Others => (t \in Talking <=> pc[t] \in TalkLabels)
BY ThreadsDistinct DEF Talking, TalkLabels, Others

\* The owners in service are owners.
LEMMA ServingOwners ==
  /\ Serving \subseteq Owners /\ Serving' \subseteq Owners
  /\ {"tlist", "wq", Main} \subseteq Serving \cap Serving'
  /\ Owners = {"tlist", "wq", Main} \cup Others
  /\ {"tlist", "wq", Main} \cap Others = {}
  /\ \A u \in Others : /\ u \in Serving <=> u \in Talking
                       /\ u \in Serving' <=> u \in Talking'
<1>1. Owners = {"tlist", "wq", Main} \cup Others /\ {"tlist", "wq", Main} \cap Others = {}
  BY ThreadsDistinct, OwnersAssumption DEF Owners
<1>2. Talking \subseteq Others /\ Talking' \subseteq Others
  BY DEF Talking, Others
<1> QED
  BY <1>1, <1>2 DEF Serving

\* A thread_data that passes from one owner in service to another stays there.
LEMMA ServiceMoved ==
  ASSUME NEW h \in Owners, NEW g \in Owners, NEW e, TdMoved(h, g, e),
         h \in Serving, g \in Serving',
         g \in Serving \/ TdHeld[g] = {}, h \in Serving' \/ TdHeld[h] = {e},
         \A u \in Owners \ {h, g} : u \in Serving' <=> u \in Serving
  PROVE  InService' = InService
<1>1. Serving \subseteq Owners /\ Serving' \subseteq Owners
  BY ServingOwners
<1>2. /\ h # g /\ e \in TdHeld[h]
      /\ TdHeld'[h] = TdHeld[h] \ {e} /\ TdHeld'[g] = TdHeld[g] \cup {e}
      /\ \A u \in Owners \ {h, g} : TdHeld'[u] = TdHeld[u]
  BY TdHeldFunction DEF TdMoved
<1>3. ASSUME NEW u \in Serving', NEW f \in TdHeld'[u] PROVE f \in InService
  <2>1. CASE u = g
    BY <1>2, <1>3, <2>1 DEF InService
  <2>2. CASE u = h
    BY <1>2, <1>3, <2>2 DEF InService
  <2>3. CASE u \notin {h, g}
    BY <1>1, <1>2, <1>3, <2>3 DEF InService
  <2> QED
    BY <2>1, <2>2, <2>3
<1>4. ASSUME NEW u \in Serving, NEW f \in TdHeld[u] PROVE f \in InService'
  <2>0. InService' = UNION {TdHeld'[v] : v \in Serving'}
    BY DEF InService
  <2>1. CASE u = g
    BY <1>2, <1>4, <2>0, <2>1
  <2>2. CASE u = h
    BY <1>2, <1>4, <2>0, <2>2
  <2>3. CASE u \notin {h, g}
    BY <1>1, <1>2, <1>4, <2>0, <2>3
  <2> QED
    BY <2>1, <2>2, <2>3
<1>5. InService' = UNION {TdHeld'[v] : v \in Serving'}
  BY DEF InService
<1> QED
  BY <1>3, <1>4, <1>5 DEF InService

\* A thread_data is in service from when the main thread gets it to when its
\* connection is closed.
ServiceStarts == /\ GetTd
                 /\ local'[Main].td \in Td \ InService
                 /\ InService' = InService \cup {local'[Main].td}
ServiceEnds(t) == /\ Close(t)
                  /\ local[t].td \in InService
                  /\ InService' = InService \ {local[t].td}
ServiceKept == /\ ~GetTd /\ \A t \in Others : ~Close(t)
               /\ InService' = InService

\* The main thread's get starts a service.
LEMMA GetTdStarts ==
  ASSUME Base, TdInv, GetTd
  PROVE  ServiceStarts
<1> DEFINE e == local'[Main].td
<1>0. pc \in [Threads -> Labels] /\ Main \in Threads /\ Main \in Owners
  BY ThreadsDistinct DEF Base, ThreadTypes, Owners
<1>1. /\ e \in Td \ tdBusy
      /\ tlist' = tlist /\ wq' = wq
      /\ pc[Main] = "getTd"
  BY GetTdGets
<1>2. /\ pc' = [pc EXCEPT ![Main] = "enqueueTd"]
      /\ local' = [local EXCEPT ![Main] = local'[Main]]
  <2>1. ThreadTypes
    BY DEF Base
  <2> QED
    BY <1>0, <2>1 DEF GetTd, Goto, ThreadTypes
<1>3. \A u \in Others : u \in Serving' <=> u \in Serving
  BY <1>0, <1>2, TalkingElsewhere, ServingOwners, ThreadsDistinct
<1>4. TdHeld[Main] = {} /\ TdHeld'[Main] = {e}
  <2>1. TdHeld[Main] = {}
    BY <1>1, MainAsks
  <2>2. TdOwn(Main)' = {e}
    BY <1>0, <1>1, <1>2, ThreadsDistinct DEF TdOwn, NotOwner
  <2> QED
    BY <1>0, <2>1, <2>2, TdHeldValuesNext
<1>5. \A u \in Owners \ {Main} : TdHeld'[u] = TdHeld[u]
  <2>1. \A u \in Threads \ {Main} : TdOwn(u)' = TdOwn(u)
    <3>1. ThreadTypes
      BY DEF Base
    <3>2. \A u \in Threads \ {Main} : pc'[u] = pc[u] /\ local'[u] = local[u]
      BY <1>2, <3>1 DEF ThreadTypes
    <3> QED
      BY <3>2 DEF TdOwn
  <2>2. \A u \in Threads \ {Main} : TdHeld'[u] = TdHeld[u]
    BY <2>1, TdHeldValues, TdHeldValuesNext
  <2>3. TdHeld'["tlist"] = TdHeld["tlist"] /\ TdHeld'["wq"] = TdHeld["wq"]
    BY <1>1, TdHeldValues, TdHeldValuesNext
  <2> QED
    BY <2>2, <2>3 DEF Owners
<1>6. \A u \in Owners : TdHeld[u] \subseteq tdBusy
  BY TdOwners DEF TdInv
<1>7. e \notin InService
  BY <1>1, <1>6, ServingOwners DEF InService
<1>8. InService' = UNION {TdHeld'[u] : u \in Serving'}
  BY DEF InService
<1>9. Serving' = Serving
  <2>1. \A u \in Others : u \in Talking' <=> u \in Talking
    BY <1>3, ServingOwners
  <2>2. Talking \subseteq Others /\ Talking' \subseteq Others
    BY DEF Talking, Others
  <2>3. Talking' = Talking
    BY <2>1, <2>2
  <2> QED
    BY <2>3 DEF Serving
<1> HIDE DEF e
<1>10. InService' = InService \cup {e}
  <2>1. \A u \in Serving \ {Main} : TdHeld'[u] = TdHeld[u]
    BY <1>5, ServingOwners
  <2>2. Main \in Serving
    BY DEF Serving
  <2> QED
    BY <1>4, <1>8, <1>9, <2>1, <2>2 DEF InService
<1> QED
  BY <1>1, <1>7, <1>10 DEF ServiceStarts, e

\* A thread's close ends one.
LEMMA CloseEnds ==
  ASSUME Base, TdInv, NEW t \in Others, Close(t)
  PROVE  ServiceEnds(t) /\ TdHeld' = TdHeld /\ TdHeld[t] = {local[t].td}
<1>0. ThreadTypes /\ t \in Threads /\ t \in Owners /\ Locals(t)
  BY ThreadsDistinct DEF Base, Control, Owners
<1>1. /\ pc[t] = "close" /\ tlist' = tlist /\ wq' = wq /\ local' = local
      /\ pc' = [pc EXCEPT ![t] = IF t \in Reqs THEN "joinB" ELSE "joinOut"]
  BY DEF Close, At, Goto, queuesVars, tlistVars, wqVars
<1>2. \A u \in Threads : TdOwn(u)' = TdOwn(u)
  BY <1>0, <1>1 DEF TdOwn, ThreadTypes, NotOwner
<1>3. TdHeld' = TdHeld
  BY <1>1, <1>2, TdAllKept, TdHeldValues, TdHeldValuesNext
<1>4. TdHeld[t] = {local[t].td}
  BY <1>0, <1>1, TdHeldValues DEF TdOwn, NotOwner, Locals, WithTd
<1>5. Serving' = Serving \ {t} /\ t \in Serving
  <2>1. \A u \in Others \ {t} : u \in Talking' <=> u \in Talking
    BY <1>0, <1>1, TalkingElsewhere DEF ThreadTypes
  <2>2. t \in Talking /\ t \notin Talking'
    <3>1. (IF t \in Reqs THEN "joinB" ELSE "joinOut") \notin TalkLabels
      BY DEF TalkLabels
    <3>2. "close" \in TalkLabels
      BY DEF TalkLabels
    <3> QED
      BY <1>0, <1>1, <3>1, <3>2, TalkingElsewhere DEF ThreadTypes
  <2> QED
    BY <2>1, <2>2, ServingOwners
<1>6. \A u \in Owners \ {t} : local[t].td \notin TdHeld[u]
  BY <1>0, <1>4, TdOwners DEF TdInv
<1>7. InService' = UNION {TdHeld[u] : u \in Serving \ {t}}
  BY <1>3, <1>5 DEF InService
<1>8. InService' = InService \ {local[t].td}
  <2>1. \A u \in Serving \ {t} : local[t].td \notin TdHeld[u]
    BY <1>6, ServingOwners
  <2> QED
    BY <1>4, <1>5, <1>7, <2>1 DEF InService
<1>9. local[t].td \in InService
  BY <1>4, <1>5 DEF InService
<1> QED
  BY <1>3, <1>4, <1>8, <1>9 DEF ServiceEnds

\* The queues and the threads in between keep it going.
LEMMA HandoversKeep ==
  ASSUME Base, TdInv,
         \/ EnqueueTd
         \/ \E t \in Reqs : ReqTakes(t) \/ EnqueueJob(t)
         \/ \E t \in Workers : WorkerTakes(t)
  PROVE  InService' = InService
<1>0. /\ ThreadTypes /\ pc \in [Threads -> Labels]
      /\ \A t \in Threads : Locals(t) /\ t \in Owners
      /\ "tlist" \in Owners /\ "wq" \in Owners /\ Main \in Owners
  BY DEF Base, Control, ThreadTypes, Owners, Threads
<1>1. CASE EnqueueTd
  <2>1. TdMoved(Main, "tlist", local[Main].td)
    BY <1>1, EnqueueTdMoves
  <2>2. pc' = [pc EXCEPT ![Main] = "wakeupTd"]
    BY <1>1 DEF EnqueueTd, Goto
  <2>3. \A u \in Owners : u \in Serving' <=> u \in Serving
    BY <1>0, <2>2, TalkingElsewhere, ServingOwners, ThreadsDistinct
  <2> QED
    BY <1>0, <2>1, <2>3, ServiceMoved, ServingOwners
<1>2. ASSUME NEW t \in Reqs, ReqTakes(t) PROVE InService' = InService
  <2>0. t \in Others /\ t \in Threads /\ t \in Owners
    BY <1>0, ThreadsDistinct
  <2>1. pc[t] = "dequeue" /\ pc' = [pc EXCEPT ![t] = IF TdNull(Head(tlist)) THEN "stopped" ELSE "getB"]
    BY <1>2 DEF ReqTakes, At, Goto, TList!Take
  <2>2. \A u \in Owners \ {t} : u \in Serving' <=> u \in Serving
    BY <1>0, <2>0, <2>1, TalkingElsewhere, ServingOwners
  <2>3. TdHeld[t] = {} /\ t \notin Serving
    <3>1. TdOwn(t) = {}
      BY <1>0, <2>0, <2>1 DEF TdOwn, Locals, WithTd
    <3>2. t \notin Talking
      BY <2>1 DEF Talking
    <3> QED
      BY <2>0, <3>1, <3>2, TdHeldValues, ServingOwners
  <2>4. CASE TdMoved("tlist", t, Head(tlist)) /\ pc'[t] = "getB"
    <3>1. t \in Talking'
      BY <2>0, <2>4 DEF Talking, Others
    <3>2. t \in Serving'
      BY <2>0, <3>1, ServingOwners
    <3> QED
      BY <1>0, <2>0, <2>2, <2>3, <2>4, <3>2, ServiceMoved, ServingOwners
  <2>5. CASE UNCHANGED <<TdHeld, tdPoolVars>> /\ pc'[t] = "stopped"
    <3>1. t \notin Talking'
      BY <2>5 DEF Talking
    <3>2. \A u \in Owners : u \in Serving' <=> u \in Serving
      BY <2>0, <2>2, <2>3, <3>1, ServingOwners
    <3>3. Serving' = Serving
      BY <3>2, ServingOwners
    <3> QED
      BY <2>5, <3>3 DEF InService
  <2> QED
    BY <1>2, <2>4, <2>5, ReqTakesMoves
<1>3. ASSUME NEW t \in Reqs, EnqueueJob(t) PROVE InService' = InService
  <2>0. t \in Others /\ t \in Threads /\ t \in Owners
    BY <1>0, ThreadsDistinct
  <2>1. pc[t] = "enqueueJob" /\ pc' = [pc EXCEPT ![t] = "joinBServed"]
    BY <1>3 DEF EnqueueJob, At, Goto
  <2>2. \A u \in Owners \ {t} : u \in Serving' <=> u \in Serving
    BY <1>0, <2>0, <2>1, TalkingElsewhere, ServingOwners
  <2>3. TdHeld[t] = {local[t].td}
    <3>1. TdOwn(t) = {local[t].td}
      BY <1>0, <2>0, <2>1 DEF TdOwn, Locals, WithTd, NotOwner
    <3> QED
      BY <2>0, <3>1, TdHeldValues
  <2>4. t \in Serving
    <3>1. t \in Talking
      BY <2>0, <2>1 DEF Talking, Others
    <3> QED
      BY <2>0, <3>1, ServingOwners
  <2>5. TdMoved(t, "wq", local[t].td)
    BY <1>3, EnqueueJobMoves
  <2> QED
    BY <1>0, <2>0, <2>2, <2>3, <2>4, <2>5, ServiceMoved, ServingOwners
<1>4. ASSUME NEW t \in Workers, WorkerTakes(t) PROVE InService' = InService
  <2>0. t \in Others /\ t \in Threads /\ t \in Owners
    BY <1>0, ThreadsDistinct
  <2>1. pc[t] = "dequeue" /\ pc' = [pc EXCEPT ![t] = IF Head(wq) = StopJob THEN "exited" ELSE "process"]
    BY <1>4 DEF WorkerTakes, At, Goto, WorkQ!Take
  <2>2. \A u \in Owners \ {t} : u \in Serving' <=> u \in Serving
    BY <1>0, <2>0, <2>1, TalkingElsewhere, ServingOwners
  <2>3. TdHeld[t] = {} /\ t \notin Serving
    <3>1. TdOwn(t) = {}
      BY <1>0, <2>0, <2>1 DEF TdOwn, Locals, WithTd
    <3>2. t \notin Talking
      BY <2>1 DEF Talking
    <3> QED
      BY <2>0, <3>1, <3>2, TdHeldValues, ServingOwners
  <2>4. CASE TdMoved("wq", t, Head(wq).td) /\ pc'[t] = "process"
    <3>1. t \in Talking'
      BY <2>0, <2>4 DEF Talking, Others
    <3>2. t \in Serving'
      BY <2>0, <3>1, ServingOwners
    <3> QED
      BY <1>0, <2>0, <2>2, <2>3, <2>4, <3>2, ServiceMoved, ServingOwners
  <2>5. CASE UNCHANGED <<TdHeld, tdPoolVars>> /\ pc'[t] = "exited"
    <3>1. t \notin Talking'
      BY <2>5 DEF Talking
    <3>2. \A u \in Owners : u \in Serving' <=> u \in Serving
      BY <2>0, <2>2, <2>3, <3>1, ServingOwners
    <3>3. Serving' = Serving
      BY <3>2, ServingOwners
    <3> QED
      BY <2>5, <3>3 DEF InService
  <2> QED
    BY <1>4, <2>4, <2>5, WorkerTakesMoves
<1> QED
  BY <1>1, <1>2, <1>3, <1>4

\* Every step starts a service, ends one or keeps all of them.
LEMMA ServiceSteps ==
  ASSUME Base, TdInv, [Next]_vars
  PROVE  \/ ServiceStarts
         \/ \E t \in Others : ServiceEnds(t)
         \/ ServiceKept
<1>1. CASE GetTd
  BY <1>1, GetTdStarts
<1>2. ASSUME NEW t \in Others, Close(t) PROVE ServiceEnds(t)
  BY <1>2, CloseEnds
<1>3. ASSUME ~GetTd, \A t \in Others : ~Close(t)
      PROVE  InService' = InService
  <2>1. CASE \/ EnqueueTd
             \/ \E t \in Reqs : ReqTakes(t) \/ EnqueueJob(t)
             \/ \E t \in Workers : WorkerTakes(t)
    BY <2>1, HandoversKeep
  <2>2. ASSUME ~EnqueueTd, \A t \in Reqs : ~ReqTakes(t) /\ ~EnqueueJob(t),
               \A t \in Workers : ~WorkerTakes(t)
        PROVE  InService' = InService
    <3>1. \A u \in Others : u \in Talking' <=> u \in Talking
      BY <1>3, <2>2, TalkingChanges
    <3>2. Talking \subseteq Others /\ Talking' \subseteq Others
      BY DEF Talking, Others
    <3>3. Talking' = Talking
      BY <3>1, <3>2
    <3>4. Serving' = Serving
      BY <3>3 DEF Serving
    <3>5. CASE \A t \in Others : ~JoinTd(t)
      <4>1. TdHeld' = TdHeld
        BY <1>3, <2>2, <3>5, TdKept
      <4> QED
        BY <3>4, <4>1 DEF InService
    <3>6. ASSUME NEW t \in Others, JoinTd(t) PROVE InService' = InService
      <4>1. PICK e : TdHeld' = [TdHeld EXCEPT ![t] = @ \ {e}]
        BY <3>6, JoinTdReturns DEF TdP!Return
      <4>2. t \notin Serving
        <5>1. t \notin Talking
          BY <3>6 DEF JoinTd, At, Talking
        <5> QED
          BY <5>1, ServingOwners
      <4>3. \A u \in Owners \ {t} : TdHeld'[u] = TdHeld[u]
        BY <4>1, TdHeldFunction
      <4>4. \A u \in Serving : TdHeld'[u] = TdHeld[u]
        BY <4>2, <4>3, ServingOwners
      <4> QED
        BY <3>4, <4>4 DEF InService
    <3> QED
      BY <3>5, <3>6
  <2> QED
    BY <2>1, <2>2
<1> QED
  BY <1>1, <1>2, <1>3 DEF ServiceKept

\* Only a thread that has just put its thread_data in a job is at joinBServed.
LEMMA ServedFrom ==
  ASSUME Base, [Next]_vars, NEW u \in Reqs, pc'[u] = "joinBServed"
  PROVE  local'[u].td = local[u].td /\ (pc[u] = "joinBServed" \/ EnqueueJob(u))
<1>0. ThreadTypes /\ u \in Threads /\ u # Main /\ u \notin Workers
  BY ThreadsDistinct DEF Base
<1>1. ASSUME MainNext PROVE pc'[u] = pc[u] /\ local'[u] = local[u]
  BY <1>0, <1>1
  DEF ThreadTypes, MainNext, Peek, PollTimeout, Accept, GetTdBlocks, GetTd, EnqueueTd,
    WakeupTd, Check, StopReq, StopReqWakeup, StopWorker, StopWorkerWakeup, Goto
<1>2. ASSUME NEW t \in Others, Respond(t) PROVE pc'[u] = pc[u] /\ local'[u].td = local[u].td
  BY <1>0, <1>2
  DEF ThreadTypes, LocalsOf, Respond, GetResponse, Write, JoinResponse, JoinBuffer, Close,
    JoinTd, GetBufferBlocks, Goto
<1>3. ASSUME NEW t \in Reqs, ReqNext(t)
      PROVE  local'[u].td = local[u].td /\ (pc[u] = "joinBServed" \/ EnqueueJob(u))
  <2>1. CASE t # u
    BY <1>0, <1>3, <2>1
    DEF ThreadTypes, ReqNext, ReqSleeps, ReqStops, GetB, ReadFails, ReadBadQuery, ReqTakes,
      EnqueueJob, ReadRequest, GetError, JoinError, JoinB, GetOut, JoinBServed, WakeupJob,
      GetBuffer, JoinBuffer, Goto
  <2>2. CASE t = u /\ ~EnqueueJob(u)
    BY <1>0, <1>3, <2>2
    DEF ThreadTypes, ReqNext, ReqSleeps, ReqStops, GetB, ReadFails, ReadBadQuery, ReqTakes,
      ReadRequest, GetError, JoinError, JoinB, GetOut, JoinBServed, WakeupJob, Goto, At
  <2>3. CASE EnqueueJob(u)
    BY <1>0, <2>3 DEF EnqueueJob, ThreadTypes, LocalsOf
  <2> QED
    BY <2>1, <2>2, <2>3
<1>4. ASSUME NEW t \in Workers, WorkerNext(t) PROVE pc'[u] = pc[u] /\ local'[u] = local[u]
  BY <1>0, <1>4
  DEF ThreadTypes, WorkerNext, WorkerSleeps, WorkerTakes, Process, JoinOut, JoinBuffer, Goto
<1>5. ASSUME (\E c \in Clients : Arrive(c)) \/ Signal \/ SpuriousWakeup \/ UNCHANGED vars
      PROVE  pc'[u] = pc[u] /\ local'[u] = local[u]
  BY <1>0, <1>5 DEF ThreadTypes, Arrive, Signal, SpuriousWakeup, vars, Goto
<1> QED
  BY <1>1, <1>2, <1>3, <1>4, <1>5 DEF Next, Others

\* A worker that gives its out buffer back clears sq of a thread_data that is
\* out of service.
LEMMA JoinOutClears ==
  ASSUME Base, TdInv, NEW t \in Workers, JoinOut(t)
  PROVE  /\ field' = [field EXCEPT ![local[t].td].sq = FALSE]
         /\ local[t].td \in Td \ InService
<1>0. /\ ThreadTypes /\ Locals(t) /\ t \in Threads /\ t \in Others /\ t \in Owners
  BY ThreadsDistinct DEF Base, Control, Owners
<1>1. pc[t] = "joinOut" /\ field' = [field EXCEPT ![local[t].td].sq = FALSE]
  BY DEF JoinOut, At
<1>2. local[t].td # 0 /\ local[t].td \in Td
  BY <1>0, <1>1 DEF Locals, WithTd, ThreadTypes, LocalsOf
<1>3. local[t].td \in TdHeld[t]
  BY <1>0, <1>1, <1>2, TdHeldValues DEF TdOwn, NotOwner
<1>4. t \notin Serving
  <2>1. t \notin Talking
    BY <1>1 DEF Talking
  <2> QED
    BY <1>0, <2>1, ServingOwners
<1>5. \A u \in Serving : local[t].td \notin TdHeld[u]
  BY <1>0, <1>3, <1>4, TdOwners, ServingOwners DEF TdInv
<1> QED
  BY <1>1, <1>2, <1>5 DEF InService

\* What is in service stays usable, and a pointer to the buffer pool that has
\* been set stays set.
LEMMA UsableKept ==
  ASSUME Base, TdInv, [Next]_vars
  PROVE  Usable'
<1>0. /\ field \in [Td \cup {StopTd} -> Fields] /\ ThreadTypes
      /\ \A e \in InService : ~TdNull(e)
      /\ \A t \in Reqs : pc[t] = "joinBServed" => field[local[t].td].bp
  BY DEF Base, DataTypes, TdInv, Usable
<1>1. CASE GetTd
  <2>0. PICK e \in Td :
          /\ \E c : field' = [field EXCEPT ![e] = [client |-> c, sq |-> TRUE, bp |-> TRUE]]
          /\ e = local'[Main].td
    BY <1>1, GetTdGets
  <2>1. PICK c : /\ field' = [field EXCEPT ![e] = [client |-> c, sq |-> TRUE, bp |-> TRUE]]
                 /\ e = local'[Main].td
    BY <2>0
  <2>2. InService' = InService \cup {e}
    BY <1>1, <2>1, GetTdStarts DEF ServiceStarts
  <2>3. field'[e].sq /\ field'[e].bp
    BY <1>0, <2>1
  <2>4. \A f : f # e => field'[f] = field[f]
    BY <1>0, <2>1
  <2>5. \A f \in InService' : field'[f].sq /\ field'[f].bp
    BY <1>0, <2>2, <2>3, <2>4 DEF TdNull
  <2>6. ASSUME NEW t \in Reqs, pc'[t] = "joinBServed" PROVE field'[local'[t].td].bp
    <3>1. local'[t].td = local[t].td /\ (pc[t] = "joinBServed" \/ EnqueueJob(t))
      BY <2>6, ServedFrom
    <3>2. ~EnqueueJob(t)
      <4>1. pc'[Main] # pc[Main]
        BY <1>1, GetTdGets
      <4>2. EnqueueJob(t) => pc'[Main] = pc[Main]
        BY <1>0, ThreadsDistinct DEF EnqueueJob, Goto, ThreadTypes
      <4> QED
        BY <4>1, <4>2
    <3>3. field[local[t].td].bp
      BY <1>0, <3>1, <3>2
    <3> QED
      BY <2>3, <2>4, <3>1, <3>3
  <2> QED
    BY <2>5, <2>6 DEF Usable, TdNull
<1>2. CASE ~GetTd
  <2>1. InService' \subseteq InService
    BY <1>2, ServiceSteps DEF ServiceStarts, ServiceEnds, ServiceKept
  <2>2. /\ \A e \in InService : field'[e] = field[e]
        /\ \A f \in Td \cup {StopTd} : field'[f].bp = field[f].bp
    <3>1. ASSUME NEW t \in Workers, JoinOut(t)
          PROVE  /\ \A e \in InService : field'[e] = field[e]
                 /\ \A f \in Td \cup {StopTd} : field'[f].bp = field[f].bp
      <4>1. field' = [field EXCEPT ![local[t].td].sq = FALSE] /\ local[t].td \in Td \ InService
        BY <3>1, JoinOutClears
      <4> QED
        BY <1>0, <4>1 DEF Fields
    <3> QED
      BY <1>2, <3>1, WhoChanges
  <2>3. \A e \in InService' : ~TdNull(e)'
    BY <1>0, <2>1, <2>2 DEF TdNull
  <2>4. ASSUME NEW t \in Reqs, pc'[t] = "joinBServed" PROVE field'[local'[t].td].bp
    <3>1. local'[t].td = local[t].td /\ (pc[t] = "joinBServed" \/ EnqueueJob(t))
      BY <2>4, ServedFrom
    <3>2. local[t].td \in Td \cup {StopTd} /\ t \in Threads
      BY <1>0, ThreadsDistinct DEF ThreadTypes, LocalsOf, StopTd
    <3>3. field[local[t].td].bp
      <4>1. CASE EnqueueJob(t)
        <5>1. TdMoved(t, "wq", local[t].td)
          BY <4>1, EnqueueJobMoves
        <5>2. t \in Serving
          BY <4>1, ServingOwners, ThreadsDistinct DEF EnqueueJob, At, Talking, Serving
        <5>3. local[t].td \in InService
          BY <5>1, <5>2 DEF TdMoved, InService
        <5> QED
          BY <1>0, <5>3 DEF TdNull
      <4> QED
        BY <1>0, <3>1, <4>1
    <3> QED
      BY <2>2, <3>1, <3>2, <3>3
  <2> QED
    BY <2>3, <2>4 DEF Usable
<1> QED
  BY <1>1, <1>2

\* No queue gets a thread_data it has already.
LEMMA InjectiveKept ==
  ASSUME Base, TdInv, [Next]_vars
  PROVE  TdsInjective'
<1>0. /\ tlist \in Seq(Td \cup {StopTd}) /\ wq \in Seq(Job)
      /\ \A i, j \in DOMAIN tlist : tlist[i] = tlist[j] /\ tlist[i] # 0 => i = j
      /\ \A i, j \in DOMAIN wq : wq[i].td = wq[j].td /\ wq[i].td # 0 => i = j
  BY DEF Base, DataTypes, TdInv, TdsInjective
<1>1. \A i, j \in DOMAIN tlist' : tlist'[i] = tlist'[j] /\ tlist'[i] # 0 => i = j
  <2>1. ASSUME NEW e \in Td \cup {StopTd}, tlist' = <<e>> \o tlist, e # 0 => e \notin ItemsOf(tlist),
               NEW i \in DOMAIN tlist', NEW j \in DOMAIN tlist',
               tlist'[i] = tlist'[j], tlist'[i] # 0
        PROVE  i = j
    <3>1. Len(tlist) \in Nat /\ DOMAIN tlist = 1..Len(tlist)
      BY <1>0, LenProperties
    <3>2. /\ DOMAIN tlist' = 1..(Len(tlist) + 1) /\ tlist'[1] = e
          /\ \A k \in DOMAIN tlist : tlist'[k + 1] = tlist[k]
      BY <1>0, <2>1, ItemsOfPush
    <3>3. \A k \in DOMAIN tlist' : k = 1 \/ (k - 1 \in DOMAIN tlist /\ tlist'[k] = tlist[k - 1])
      <4>1. \A k \in 1..(Len(tlist) + 1) : k = 1 \/ (k - 1 \in 1..Len(tlist) /\ (k - 1) + 1 = k)
        BY <3>1
      <4> QED
        BY <3>1, <3>2, <4>1
    <3>4. \A k \in DOMAIN tlist : tlist[k] = e => e = 0
      BY <2>1 DEF ItemsOf
    <3>5. i \in Int /\ j \in Int
      BY <3>1, <3>2
    <3>6. CASE i = 1
      BY <2>1, <3>2, <3>3, <3>4, <3>6
    <3>7. CASE j = 1
      BY <2>1, <3>2, <3>3, <3>4, <3>7
    <3>8. CASE i # 1 /\ j # 1
      <4>1. i - 1 = j - 1
        BY <1>0, <2>1, <3>3, <3>8
      <4> QED
        BY <3>5, <4>1
    <3> QED
      BY <3>6, <3>7, <3>8
  <2>2. CASE EnqueueTd
    <3>1. TdMoved(Main, "tlist", local[Main].td)
      BY <2>2, EnqueueTdMoves
    <3>2. local[Main].td \notin TdHeld["tlist"]
      BY <3>1, TdOwners, ThreadsDistinct DEF TdMoved, TdInv, Owners
    <3>3. tlist' = <<local[Main].td>> \o tlist
      BY <2>2 DEF EnqueueTd, TList!Enqueue
    <3>4. local[Main].td \in Td \cup {StopTd}
      BY ThreadsDistinct DEF Base, ThreadTypes, LocalsOf, StopTd
    <3>5. local[Main].td # 0 => local[Main].td \notin ItemsOf(tlist)
      BY <3>2, TdHeldValues
    <3> QED
      BY <2>1, <3>3, <3>4, <3>5
  <2>3. CASE StopReq
    <3>1. tlist' = <<StopTd>> \o tlist
      BY <2>3 DEF StopReq, TList!Enqueue
    <3> QED
      BY <2>1, <3>1 DEF StopTd
  <2>4. CASE \E t \in Reqs : ReqTakes(t)
    <3>1. tlist # <<>> /\ tlist' = Tail(tlist)
      BY <2>4 DEF ReqTakes, TList!Take
    <3>2. \A i \in DOMAIN tlist' : i + 1 \in DOMAIN tlist /\ tlist'[i] = tlist[i + 1] /\ i \in Int
      BY <1>0, <3>1, ItemsOfTail
    <3>3. \A i, j \in DOMAIN tlist' : i + 1 = j + 1 => i = j
      BY <3>2
    <3> QED
      BY <1>0, <3>2, <3>3
  <2>5. CASE UNCHANGED tlist
    BY <1>0, <2>5
  <2> QED
    BY <2>2, <2>3, <2>4, <2>5, WhoChanges
<1>2. \A i, j \in DOMAIN wq' : wq'[i].td = wq'[j].td /\ wq'[i].td # 0 => i = j
  <2>1. ASSUME NEW x \in Job, wq' = Append(wq, x),
               x.td # 0 => \A k \in DOMAIN wq : wq[k].td # x.td,
               NEW i \in DOMAIN wq', NEW j \in DOMAIN wq',
               wq'[i].td = wq'[j].td, wq'[i].td # 0
        PROVE  i = j
    <3>1. Len(wq) \in Nat /\ DOMAIN wq = 1..Len(wq)
      BY <1>0, LenProperties
    <3>2. /\ \A k \in 1..Len(wq) : wq'[k] = wq[k]
          /\ wq'[Len(wq) + 1] = x
          /\ DOMAIN wq' = 1..(Len(wq) + 1)
      BY <1>0, <2>1, AppendProperties, LenProperties
    <3>3. \A k \in DOMAIN wq' : k = Len(wq) + 1 \/ (k \in DOMAIN wq /\ wq'[k] = wq[k])
      BY <3>1, <3>2
    <3> HIDE DEF Job
    <3> QED
      BY <1>0, <2>1, <3>2, <3>3
  <2>2. CASE StopWorker
    <3>1. wq' = Append(wq, StopJob) /\ StopJob \in Job /\ StopJob.td = 0
      BY <2>2 DEF StopWorker, WorkQ!Enqueue, StopJob, Job, StopTd
    <3> QED
      BY <2>1, <3>1
  <2>3. ASSUME NEW t \in Reqs, EnqueueJob(t)
        PROVE  \A i, j \in DOMAIN wq' : wq'[i].td = wq'[j].td /\ wq'[i].td # 0 => i = j
    <3> DEFINE x == [td |-> local[t].td, out |-> local[t].body]
    <3>1. wq' = Append(wq, x)
      BY <2>3 DEF EnqueueJob, WorkQ!Enqueue
    <3>2. x \in Job /\ x.td = local[t].td
      BY ThreadsDistinct DEF Base, ThreadTypes, LocalsOf, Job, StopTd
    <3>3. TdMoved(t, "wq", local[t].td)
      BY <2>3, EnqueueJobMoves
    <3>4. local[t].td \notin TdHeld["wq"]
      BY <3>3, TdOwners, ThreadsDistinct DEF TdMoved, TdInv, Owners
    <3>5. local[t].td # 0 => \A k \in DOMAIN wq : wq[k].td # local[t].td
      BY <3>4, TdHeldValues DEF ItemsOf
    <3> HIDE DEF x
    <3> QED
      BY <2>1, <3>1, <3>2, <3>5
  <2>4. CASE \E t \in Workers : WorkerTakes(t)
    <3>1. wq # <<>> /\ wq' = Tail(wq)
      BY <2>4 DEF WorkerTakes, WorkQ!Take
    <3>2. \A i \in DOMAIN wq' : i + 1 \in DOMAIN wq /\ wq'[i] = wq[i + 1] /\ i \in Int
      BY <1>0, <3>1, ItemsOfTail
    <3>3. \A i, j \in DOMAIN wq' : i + 1 = j + 1 => i = j
      BY <3>2
    <3> QED
      BY <1>0, <3>2, <3>3
  <2>5. CASE UNCHANGED wq
    BY <1>0, <2>5
  <2> QED
    BY <2>2, <2>3, <2>4, <2>5, WhoChanges
<1> QED
  BY <1>1, <1>2 DEF TdsInjective

\* At the start nobody has a thread_data.
LEMMA TdInitial ==
  ASSUME Init
  PROVE  /\ tlist = <<>> /\ wq = <<>>
         /\ \A t \in Threads : pc[t] \in {"peek", "dequeue"}
         /\ \A h \in Owners : TdHeld[h] = {}
         /\ TdP!PInit
<1>0. tlist = <<>> /\ wq = <<>> /\ \A t \in Threads : pc[t] \in {"peek", "dequeue"} /\ local[t].td = 0
  BY DEF Init, TList!Init, WorkQ!Init, Idle
<1>1. \A h \in Owners : TdHeld[h] = {}
  <2>1. \A t \in Threads : TdHeld[t] = {}
    BY <1>0, TdHeldValues DEF TdOwn
  <2>2. TdHeld["tlist"] = {} /\ TdHeld["wq"] = {}
    BY <1>0, TdHeldValues DEF ItemsOf
  <2> QED
    BY <2>1, <2>2 DEF Owners
<1>2. TdHeld = [h \in Owners |-> {}]
  BY <1>1, TdHeldFunction
<1>3. TdP!PInit
  BY <1>2 DEF Init, TdP!PInit, TdP!Init, TdPool!Init, TdP!Cond!Init, TdPool!Cond!Init
<1> QED
  BY <1>0, <1>1, <1>3

\* The invariant of the pool's users holds at the start.
LEMMA TdInvInit == Init => TdInv
<1> SUFFICES ASSUME Init PROVE TdInv
  OBVIOUS
<1>0. /\ tlist = <<>> /\ wq = <<>>
      /\ \A t \in Threads : pc[t] \in {"peek", "dequeue"}
      /\ \A h \in Owners : TdHeld[h] = {}
      /\ TdP!PInit
  BY TdInitial
<1>4. TdP!PoolInv
  BY <1>0, TdP!InitInv, TdAssumptions
<1>5. TdsInjective
  BY <1>0 DEF TdsInjective
<1>6. Usable
  BY <1>0, ServingOwners, ThreadsDistinct DEF Usable, InService
<1> QED
  BY <1>4, <1>5, <1>6 DEF TdInv

\* Every step keeps it.
LEMMA TdInvNext == Base /\ TdInv /\ [Next]_vars => TdInv'
<1> SUFFICES ASSUME Base, TdInv, [Next]_vars PROVE TdInv'
  OBVIOUS
<1>1. TdP!PoolInv'
  BY TdSteps, TdP!NextInv, TdAssumptions DEF TdInv
<1> QED
  BY <1>1, UsableKept, InjectiveKept DEF TdInv

\* The inductive invariant holds in every reachable state.
THEOREM ServerInvariant == Spec => [](Base /\ TdInv)
<1>1. Init => Base /\ TdInv
  BY BaseInit, TdInvInit
<1>2. Base /\ TdInv /\ [Next]_vars => (Base /\ TdInv)'
  BY BaseNext, TdInvNext
<1> QED
  BY <1>1, <1>2, PTL DEF Spec

\* Two instances of the pool say the same.
LEMMA TdUseSame ==
  /\ TdUse!PInit <=> TdP!PInit
  /\ UNCHANGED TdP!vars => UNCHANGED TdUse!vars
  /\ TdP!PNext => TdUse!PNext
<1>1. (TdUse!PInit <=> TdP!PInit) /\ (UNCHANGED TdP!vars => UNCHANGED TdUse!vars)
  BY DEF TdUse!PInit, TdP!PInit, TdUse!Init, TdP!Init, TdUse!Cond!Init, TdP!Cond!Init, Owners,
    TdUse!vars, TdP!vars, TdUse!poolVars, TdP!poolVars
<1>2. \A S : TdUse!Cardinality(S) = TdP!Cardinality(S)
  BY DEF TdUse!Cardinality, TdP!Cardinality
<1> USE DEF TdUse!Grant, TdP!Grant, TdUse!Block, TdP!Block, TdUse!Join, TdP!Join,
  TdUse!SpuriousWakeup, TdP!SpuriousWakeup, TdUse!MustWait, TdP!MustWait,
  TdUse!Exhausted, TdP!Exhausted, TdUse!Found, TdP!Found, TdUse!Free, TdP!Free,
  TdUse!Populated, TdP!Populated, TdUse!Null, TdP!Null,
  TdUse!Cond!Proceed, TdP!Cond!Proceed, TdUse!Cond!Wait, TdP!Cond!Wait,
  TdUse!Cond!Signal, TdP!Cond!Signal, TdUse!Cond!Awaken, TdP!Cond!Awaken,
  TdUse!Cond!SpuriousWakeup, TdP!Cond!SpuriousWakeup
<1>3. ASSUME NEW t \in Owners
      PROVE  /\ TdP!Get(t) => TdUse!Get(t)
             /\ TdP!GetBlocks(t) => TdUse!GetBlocks(t)
             /\ TdP!Return(t) => TdUse!Return(t)
  <2>1. TdP!Get(t) => TdUse!Get(t)
    BY <1>2 DEF TdP!Get, TdUse!Get
  <2>2. TdP!GetBlocks(t) => TdUse!GetBlocks(t)
    BY <1>2 DEF TdP!GetBlocks, TdUse!GetBlocks
  <2>3. TdP!Return(t) => TdUse!Return(t)
    BY DEF TdP!Return, TdUse!Return
  <2> QED
    BY <2>1, <2>2, <2>3
<1>4. ASSUME NEW t \in Owners, NEW u \in Owners
      PROVE  TdP!Handover(t, u) => TdUse!Handover(t, u)
  BY <1>2 DEF TdP!Handover, TdUse!Handover, TdP!poolVars, TdUse!poolVars
<1>5. TdP!Spurious => TdUse!Spurious
  BY DEF TdP!Spurious, TdUse!Spurious
<1>6. TdP!PNext => TdUse!PNext
  BY <1>3, <1>4, <1>5 DEF TdP!PNext, TdUse!PNext, Owners
<1> QED
  BY <1>1, <1>6

\* The threads of the server use the pool of thread_data the way PoolUse says,
\* so that everything PoolProofs proves of a pool holds of this one: each
\* td_pool_join_td returns what its caller owns, along every path from the
\* main thread's td_pool_get_td through the list of connections, a request
\* thread, the work queue and a worker.
THEOREM ServerUsesTdPool == Spec => UsesTdPool
<1>1. Init => TdUse!PInit
  <2>1. Init => TdP!PInit
    BY TdInitial
  <2> QED
    BY <2>1, TdUseSame
<1>2. Base /\ TdInv /\ [Next]_vars => [TdUse!PNext]_(TdUse!vars)
  BY TdSteps, TdUseSame
<1> QED
  BY <1>1, <1>2, ServerInvariant, PTL DEF Spec, UsesTdPool, TdUse!PSpec

\* Whoever uses a thread_data finds the pointers it needs set, and no client's
\* thread_data is taken for a stop (td_null of work.c), for any number of
\* clients and threads: job_complete clears td->sq when the thread_data is out
\* of service already, and nobody clears td->bp, which http_handle_read still
\* reads after the job is queued.
THEOREM ThreadDataUsable == Spec => []TdUsable
<1>1. Base /\ TdInv => TdUsable
  <2> SUFFICES ASSUME Base, TdInv PROVE TdUsable
    OBVIOUS
  <2>1. /\ \A e \in InService : ~TdNull(e)
        /\ \A t \in Reqs : pc[t] = "joinBServed" => field[local[t].td].bp
    BY DEF TdInv, Usable
  <2>2. \A e \in ItemsOf(tlist) \ {StopTd} : e \in InService
    BY TdHeldValues DEF InService, Serving, StopTd
  <2>3. ASSUME NEW j \in ItemsOf(wq) \ {StopJob} PROVE j.td \in InService
    <3>1. j.td # 0
      BY DEF Base, Control, JobsNamed, ItemsOf
    <3>2. j.td \in TdHeld["wq"]
      BY <3>1, TdHeldValues
    <3> QED
      BY <3>2 DEF InService, Serving
  <2>4. ASSUME NEW t \in Talking PROVE local[t].td \in InService
    <3>1. t \in Others /\ t \in Threads /\ Locals(t)
      BY ThreadsDistinct DEF Base, Control, Talking, Others
    <3>2. local[t].td # 0 /\ pc[t] \notin NotOwner
      BY <3>1 DEF Talking, Locals, WithTd, NotOwner
    <3>3. local[t].td \in TdHeld[t]
      BY <3>1, <3>2, TdHeldValues DEF TdOwn
    <3> QED
      BY <3>3 DEF InService, Serving
  <2> QED
    BY <2>1, <2>2, <2>3, <2>4 DEF TdUsable
<1> QED
  BY <1>1, ServerInvariant, PTL
=============================================================================
