------------------------------- MODULE Server --------------------------------
(***************************************************************************)
(* The tracker as a whole: the main thread accepts connections, the        *)
(* request threads read and parse the requests, the workers process the    *)
(* jobs and reply.  The threads share two pools (of thread_data and of     *)
(* buffers, see Pool) and two queues (the list of accepted connections     *)
(* and the work queue, see JobQueue).                                      *)
(*                                                                         *)
(* A step is a critical section or a system call, with the thread's own    *)
(* computation up to the next one.  What a job does to the swarm is not    *)
(* part of this module; what it writes is data of the client it is for.    *)
(***************************************************************************)
EXTENDS Integers, Sequences, FiniteSets

CONSTANTS Clients,          \* one connection each
          Main, Reqs, Workers,
          MaxTd, TdAmp,     \* TD_POOL_MAX_TD, TD_POOL_AMP
          MaxBuf, BufAmp,   \* MAX_BUFFERS, BUFFER_AMP
          MaxSignals,       \* bound: the shutdown signals sent
          SpuriousWakeups,  \* whether condition waits also end by themselves
          NoClient

ASSUME ServerAssumption ==
  /\ IsFiniteSet(Clients) /\ IsFiniteSet(Reqs) /\ IsFiniteSet(Workers)
  /\ Main \notin Reqs \cup Workers
  /\ Reqs \cap Workers = {}
  /\ Workers # {}
  /\ NoClient \notin Clients
  /\ MaxSignals \in Nat
  /\ SpuriousWakeups \in BOOLEAN

\* Both pools are grown as Pool says (PoolAssumption): by a step that divides
\* the maximum.
ASSUME SizesAssumption ==
  /\ TdAmp \in Nat \ {0} /\ MaxTd \in Nat /\ \E k \in 1..MaxTd : MaxTd = k * TdAmp
  /\ BufAmp \in Nat \ {0} /\ MaxBuf \in Nat
  /\ \E k \in 1..MaxBuf : MaxBuf = k * BufAmp

\* As many request threads as workers, MAX_THREADS/2 of each; only the
\* shutdown depends on it.
ASSUME ThreadsAssumption ==
  MaxSignals > 0 => Cardinality(Reqs) = Cardinality(Workers)

VARIABLES tdNum, tdInuse, tdBusy, tdWaiting, tdWoken,
          bufNum, bufInuse, bufBusy, bufWaiting, bufWoken,
          tlist, tlistWaiting, tlistWoken,
          wq, wqWaiting, wqWoken,
          pc,        \* where each thread is
          local,     \* its local variables
          field,     \* the fields of every thread_data
          content,   \* the clients whose data is in each buffer
          conn,      \* the state of each client's connection
          reply,     \* the replies written to each client
          signals,   \* how many signals may still come
          flag,      \* __DO_SHUTDOWN
          stops,     \* the threads server_stop_threads has seen to
          crashed    \* the process has been killed

tdPoolVars == <<tdNum, tdInuse, tdBusy, tdWaiting, tdWoken>>
bufPoolVars == <<bufNum, bufInuse, bufBusy, bufWaiting, bufWoken>>
tlistVars == <<tlist, tlistWaiting, tlistWoken>>
wqVars == <<wq, wqWaiting, wqWoken>>
queuesVars == <<tlistVars, wqVars>>
dataVars == <<field, content>>
clientVars == <<conn, reply>>
shutdownVars == <<signals, flag, stops, crashed>>

vars == <<tdPoolVars, bufPoolVars, tlistVars, wqVars, pc, local, field,
          content, conn, reply, signals, flag, stops, crashed>>

TdPool == INSTANCE Pool
            WITH MaxNum <- MaxTd, Amp <- TdAmp, num <- tdNum, inuse <- tdInuse,
                 busy <- tdBusy, waiting <- tdWaiting, woken <- tdWoken
BufPool == INSTANCE Pool
            WITH MaxNum <- MaxBuf, Amp <- BufAmp, num <- bufNum,
                 inuse <- bufInuse, busy <- bufBusy, waiting <- bufWaiting,
                 woken <- bufWoken
TList == INSTANCE JobQueue
            WITH Lifo <- TRUE, queue <- tlist, waiting <- tlistWaiting,
                 woken <- tlistWoken
WorkQ == INSTANCE JobQueue
            WITH Lifo <- FALSE, queue <- wq, waiting <- wqWaiting,
                 woken <- wqWoken

Threads == {Main} \cup Reqs \cup Workers
Td == 1..MaxTd
Buffer == 1..MaxBuf

\* The thread_data that mk_td makes for a stop, which no pool knows.
StopTd == 0

\* A job of type JOB_T_STOP has no thread_data and no buffer.
StopJob == [td |-> 0, out |-> 0]

Idle == [client |-> NoClient, td |-> 0, b |-> 0, body |-> 0, resp |-> 0]

\* The connection a thread works on, read from its thread_data every time.
ClientOf(t) == field[local[t].td].client

Goto(t, l) == pc' = [pc EXCEPT ![t] = l]
At(t, l) == ~crashed /\ pc[t] = l

-----------------------------------------------------------------------------
Init == /\ TdPool!Init /\ BufPool!Init /\ TList!Init /\ WorkQ!Init
        /\ pc = [t \in Threads |-> IF t = Main THEN "peek" ELSE "dequeue"]
        /\ local = [t \in Threads |-> Idle]
        /\ field = [e \in Td \cup {StopTd} |->
                      [client |-> NoClient, sq |-> FALSE, bp |-> FALSE]]
        /\ content = [k \in Buffer |-> {}]
        /\ conn = [c \in Clients |-> "away"]
        /\ reply = [c \in Clients |-> <<>>]
        /\ signals = MaxSignals /\ flag = FALSE /\ stops = 0 /\ crashed = FALSE

-----------------------------------------------------------------------------
(* The clients, and the user who sends signals.                            *)

Listening == pc[Main] \notin {"stopTd", "stopTdWakeup", "stopJob",
                              "stopJobWakeup", "join"}

Arrive(c) == /\ ~crashed /\ Listening
             /\ conn[c] = "away"
             /\ conn' = [conn EXCEPT ![c] = "backlog"]
             /\ UNCHANGED <<tdPoolVars, bufPoolVars, queuesVars, pc, local,
                            dataVars, reply, shutdownVars>>

\* SIGUSR1, SIGUSR2 or SIGTERM.  Some thread runs the handler; if it is the
\* main thread, a poll it sleeps in returns with EINTR.
Signal == /\ ~crashed /\ signals > 0
          /\ signals' = signals - 1
          /\ flag' = TRUE
          /\ \/ UNCHANGED pc
             \/ pc[Main] \in {"poll", "pollForASecond"} /\ Goto(Main, "check")
          /\ UNCHANGED <<tdPoolVars, bufPoolVars, queuesVars, local, dataVars,
                         clientVars, stops, crashed>>

-----------------------------------------------------------------------------
(* The main thread.                                                        *)

Backlog == {c \in Clients : conn[c] = "backlog"}

\* The head of runq_events: poll has no timeout unless there is work.
Peek == /\ At(Main, "peek")
        /\ Goto(Main, IF wq # <<>> THEN "pollForASecond" ELSE "poll")
        /\ UNCHANGED <<tdPoolVars, bufPoolVars, queuesVars, local, dataVars,
                       clientVars, shutdownVars>>

PollTimeout == /\ At(Main, "pollForASecond")
               /\ Backlog = {}
               /\ Goto(Main, "check")
               /\ UNCHANGED <<tdPoolVars, bufPoolVars, queuesVars, local,
                              dataVars, clientVars, shutdownVars>>

Accept == /\ At(Main, "poll") \/ At(Main, "pollForASecond")
          /\ \E c \in Backlog :
               /\ conn' = [conn EXCEPT ![c] = "open"]
               /\ local' = [local EXCEPT ![Main].client = c]
          /\ Goto(Main, "getTd")
          /\ UNCHANGED <<tdPoolVars, bufPoolVars, queuesVars, dataVars, reply,
                         shutdownVars>>

GetTdBlocks == /\ At(Main, "getTd")
               /\ TdPool!Block(Main)
               /\ UNCHANGED <<bufPoolVars, queuesVars, pc, local, dataVars,
                              clientVars, shutdownVars>>

\* The fields are filled in while nobody else knows the thread_data.
GetTd == /\ At(Main, "getTd")
         /\ \E e \in Td :
              /\ TdPool!Grant(Main, e)
              /\ field' = [field EXCEPT ![e] =
                    [client |-> local[Main].client, sq |-> TRUE, bp |-> TRUE]]
              /\ local' = [local EXCEPT ![Main] = [Idle EXCEPT !.td = e]]
         /\ Goto(Main, "enqueueTd")
         /\ UNCHANGED <<bufPoolVars, queuesVars, content, clientVars,
                        shutdownVars>>

EnqueueTd == /\ At(Main, "enqueueTd")
             /\ TList!Enqueue(local[Main].td)
             /\ local' = [local EXCEPT ![Main] = Idle]
             /\ Goto(Main, "wakeupTd")
             /\ UNCHANGED <<tdPoolVars, bufPoolVars, wqVars, dataVars,
                            clientVars, shutdownVars>>

\* Faulty: the flag is only looked at when no client has come.
WakeupTdAndPeek == /\ At(Main, "wakeupTd")
                   /\ TList!Wakeup
                   /\ Goto(Main, "peek")
                   /\ UNCHANGED <<tdPoolVars, bufPoolVars, wqVars, local,
                                  dataVars, clientVars, shutdownVars>>

WakeupTd == /\ At(Main, "wakeupTd")
            /\ TList!Wakeup
            /\ Goto(Main, "check")
            /\ UNCHANGED <<tdPoolVars, bufPoolVars, wqVars, local, dataVars,
                           clientVars, shutdownVars>>

\* The condition of main_server's loop, and do_shutdown's close of the
\* listening socket.
Check == /\ At(Main, "check")
         /\ Goto(Main, IF flag THEN "stopTd" ELSE "peek")
         /\ conn' = IF flag
                      THEN [c \in Clients |->
                              IF c \in Backlog THEN "refused" ELSE conn[c]]
                      ELSE conn
         /\ UNCHANGED <<tdPoolVars, bufPoolVars, queuesVars, local, dataVars,
                        reply, shutdownVars>>

\* server_stop_threads: its loop has four critical sections.
StopReq == /\ At(Main, "stopTd")
           /\ TList!Enqueue(StopTd)
           /\ Goto(Main, "stopTdWakeup")
           /\ UNCHANGED <<tdPoolVars, bufPoolVars, wqVars, local, dataVars,
                          clientVars, shutdownVars>>

StopReqWakeup == /\ At(Main, "stopTdWakeup")
                 /\ TList!Wakeup
                 /\ Goto(Main, "stopJob")
                 /\ UNCHANGED <<tdPoolVars, bufPoolVars, wqVars, local,
                                dataVars, clientVars, shutdownVars>>

StopWorker == /\ At(Main, "stopJob")
              /\ WorkQ!Enqueue(StopJob)
              /\ Goto(Main, "stopJobWakeup")
              /\ UNCHANGED <<tdPoolVars, bufPoolVars, tlistVars, local,
                             dataVars, clientVars, shutdownVars>>

\* Faulty: one round too many.
StopOneTooMany ==
  /\ At(Main, "stopJobWakeup")
  /\ WorkQ!Wakeup
  /\ stops' = stops + 1
  /\ Goto(Main, IF stops' > Cardinality(Workers) THEN "join" ELSE "stopTd")
  /\ UNCHANGED <<tdPoolVars, bufPoolVars, tlistVars, local, dataVars,
                 clientVars, signals, flag, crashed>>

\* Faulty: the stop jobs are not announced to the workers.
StopWithoutSignal ==
  /\ At(Main, "stopJobWakeup")
  /\ stops' = stops + 1
  /\ Goto(Main, IF stops' = Cardinality(Workers) THEN "join" ELSE "stopTd")
  /\ UNCHANGED <<tdPoolVars, bufPoolVars, queuesVars, local, dataVars,
                 clientVars, signals, flag, crashed>>

\* After the last pair the main thread joins its threads (cleanup_server),
\* which it does not survive: see ReqStops.
StopWorkerWakeup ==
  /\ At(Main, "stopJobWakeup")
  /\ WorkQ!Wakeup
  /\ stops' = stops + 1
  /\ Goto(Main, IF stops' = Cardinality(Workers) THEN "join" ELSE "stopTd")
  /\ UNCHANGED <<tdPoolVars, bufPoolVars, tlistVars, local, dataVars,
                 clientVars, signals, flag, crashed>>

-----------------------------------------------------------------------------
(* Buffers, for the request threads and the workers alike.                 *)

\* The thread t asks the pool for the buffer it will know as v.
GetBuffer(t, v) == \E k \in Buffer : /\ BufPool!Grant(t, k)
                                     /\ local' = [local EXCEPT ![t][v] = k]

\* Faulty: the buffer keeps what is in it.
JoinBufferAsItIs(t, v) == /\ BufPool!Join(local[t][v])
                          /\ content' = content
                          /\ local' = [local EXCEPT ![t][v] = 0]

\* A buffer is emptied when it is given back, before its status is free.
JoinBuffer(t, v) == /\ BufPool!Join(local[t][v])
                    /\ content' = [content EXCEPT ![local[t][v]] = {}]
                    /\ local' = [local EXCEPT ![t][v] = 0]

GetBufferBlocks(t) ==
  /\ \E l \in {"getB", "getError", "getOut", "getResponse"} : At(t, l)
  /\ BufPool!Block(t)
  /\ UNCHANGED <<tdPoolVars, queuesVars, pc, local, dataVars, clientVars,
                 shutdownVars>>

(* http_response, which a request thread calls for an error and a worker   *)
(* for the answer: the buffer "body" is sent behind a header.              *)

GetResponse(t) ==
  /\ At(t, "getResponse")
  /\ \E k \in Buffer :
       /\ BufPool!Grant(t, k)
       /\ local' = [local EXCEPT ![t].resp = k]
       /\ content' = [content EXCEPT ![k] = @ \cup content[local[t].body]]
  /\ Goto(t, "write")
  /\ UNCHANGED <<tdPoolVars, queuesVars, field, clientVars, shutdownVars>>

\* The write loop sends the whole reply, or gives up after five failures.
Write(t) ==
  /\ At(t, "write")
  /\ \/ reply' = [reply EXCEPT ![ClientOf(t)] =
                    Append(@, content[local[t].resp])]
     \/ UNCHANGED reply
  /\ Goto(t, "joinResponse")
  /\ UNCHANGED <<tdPoolVars, bufPoolVars, queuesVars, local, dataVars, conn,
                 shutdownVars>>

JoinResponse(t) ==
  /\ At(t, "joinResponse")
  /\ JoinBuffer(t, "resp")
  /\ Goto(t, IF t \in Reqs THEN "joinError" ELSE "close")
  /\ UNCHANGED <<tdPoolVars, queuesVars, field, clientVars, shutdownVars>>

\* Faulty: on a failed request, the buffer b is forgotten.
CloseForgetsB(t) ==
  /\ At(t, "close")
  /\ conn' = [conn EXCEPT ![ClientOf(t)] = "closed"]
  /\ Goto(t, IF t \in Reqs THEN "joinTd" ELSE "joinOut")
  /\ UNCHANGED <<tdPoolVars, bufPoolVars, queuesVars, local, dataVars, reply,
                 shutdownVars>>

\* close(td->client).
Close(t) ==
  /\ At(t, "close")
  /\ conn' = [conn EXCEPT ![ClientOf(t)] = "closed"]
  /\ Goto(t, IF t \in Reqs THEN "joinB" ELSE "joinOut")
  /\ UNCHANGED <<tdPoolVars, bufPoolVars, queuesVars, local, dataVars, reply,
                 shutdownVars>>

JoinTd(t) ==
  /\ At(t, "joinTd")
  /\ TdPool!Join(local[t].td)
  /\ local' = [local EXCEPT ![t] = Idle]
  /\ Goto(t, "dequeue")
  /\ UNCHANGED <<bufPoolVars, queuesVars, dataVars, clientVars, shutdownVars>>

-----------------------------------------------------------------------------
(* The request threads: handle_req, http_handle_read, http_error.          *)

\* td_null: the thread_data is one of server_stop_threads.
TdNull(e) == ~field[e].sq \/ ~field[e].bp

ReqSleeps(t) == /\ At(t, "dequeue")
                /\ TList!Block(t)
                /\ UNCHANGED <<tdPoolVars, bufPoolVars, wqVars, pc, local,
                               dataVars, clientVars, shutdownVars>>

ReqTakes(t) == /\ At(t, "dequeue")
               /\ \E e \in Td \cup {StopTd} :
                    /\ TList!Take(t, e)
                    /\ Goto(t, IF TdNull(e) THEN "stopped" ELSE "getB")
                    /\ local' = [local EXCEPT ![t].td = e]
               /\ UNCHANGED <<tdPoolVars, bufPoolVars, wqVars, dataVars,
                              clientVars, shutdownVars>>

\* td_pool_join_td(td->tp, td) with a tp nobody has set: the memory that
\* malloc returned decides.  A pointer to no pool is a segmentation fault,
\* the pool itself leads to the abort of "thread_data not found", and what
\* looks like a locked mutex or a ring of entries keeps the thread for ever.
ReqStops(t) == /\ At(t, "stopped")
               /\ \/ crashed' = TRUE /\ UNCHANGED pc
                  \/ Goto(t, "hung") /\ UNCHANGED crashed
               /\ UNCHANGED <<tdPoolVars, bufPoolVars, queuesVars, local,
                              dataVars, clientVars, signals, flag, stops>>

GetB(t) == /\ At(t, "getB")
           /\ GetBuffer(t, "b")
           /\ Goto(t, "read")
           /\ UNCHANGED <<tdPoolVars, queuesVars, dataVars, clientVars,
                          shutdownVars>>

\* Nothing to read, or neither an announce nor a scrape: no answer.
ReadFails(t) ==
  /\ At(t, "read")
  /\ content' = [content EXCEPT ![local[t].b] = @ \cup {ClientOf(t)}]
  /\ Goto(t, "close")
  /\ UNCHANGED <<tdPoolVars, bufPoolVars, queuesVars, local, field,
                 clientVars, shutdownVars>>

\* A query that does not parse: http_error.
ReadBadQuery(t) ==
  /\ At(t, "read")
  /\ content' = [content EXCEPT ![local[t].b] = @ \cup {ClientOf(t)}]
  /\ Goto(t, "getError")
  /\ UNCHANGED <<tdPoolVars, bufPoolVars, queuesVars, local, field,
                 clientVars, shutdownVars>>

\* A good query; the request is wiped out of b, the job keeps the parsed one.
ReadRequest(t) ==
  /\ At(t, "read")
  /\ content' = [content EXCEPT ![local[t].b] = {}]
  /\ Goto(t, "getOut")
  /\ UNCHANGED <<tdPoolVars, bufPoolVars, queuesVars, local, field,
                 clientVars, shutdownVars>>

\* The text of the error has nothing of the client's in it.
GetError(t) == /\ At(t, "getError")
               /\ GetBuffer(t, "body")
               /\ Goto(t, "getResponse")
               /\ UNCHANGED <<tdPoolVars, queuesVars, dataVars, clientVars,
                              shutdownVars>>

\* Faulty: the error buffer is not given back.
KeepError(t) == /\ At(t, "joinError")
                /\ local' = [local EXCEPT ![t].body = 0]
                /\ Goto(t, "close")
                /\ UNCHANGED <<tdPoolVars, bufPoolVars, queuesVars, dataVars,
                               clientVars, shutdownVars>>

\* Faulty: http_handle_read goes on to the job after the error reply.
ErrorAndJob(t) == /\ At(t, "joinError")
                  /\ JoinBuffer(t, "body")
                  /\ Goto(t, "getOut")
                  /\ UNCHANGED <<tdPoolVars, queuesVars, field, clientVars,
                                 shutdownVars>>

JoinError(t) == /\ At(t, "joinError")
                /\ JoinBuffer(t, "body")
                /\ Goto(t, "close")
                /\ UNCHANGED <<tdPoolVars, queuesVars, field, clientVars,
                               shutdownVars>>

\* After a failure, the thread still has its thread_data.
JoinB(t) == /\ At(t, "joinB")
            /\ JoinBuffer(t, "b")
            /\ Goto(t, "joinTd")
            /\ UNCHANGED <<tdPoolVars, queuesVars, field, clientVars,
                           shutdownVars>>

GetOut(t) == /\ At(t, "getOut")
             /\ GetBuffer(t, "body")
             /\ Goto(t, "enqueueJob")
             /\ UNCHANGED <<tdPoolVars, queuesVars, dataVars, clientVars,
                            shutdownVars>>

\* The thread_data and the out buffer belong to the job from here on, but
\* the thread keeps its pointer to the thread_data.
EnqueueJob(t) ==
  /\ At(t, "enqueueJob")
  /\ WorkQ!Enqueue([td |-> local[t].td, out |-> local[t].body])
  /\ local' = [local EXCEPT ![t].body = 0]
  /\ Goto(t, "joinBServed")
  /\ UNCHANGED <<tdPoolVars, bufPoolVars, tlistVars, dataVars, clientVars,
                 shutdownVars>>

\* buffer_pool_join_buffer(td->bp, b), when a worker may have completed the
\* job and the main thread given the thread_data to the next client.
JoinBServed(t) ==
  /\ At(t, "joinBServed")
  /\ JoinBuffer(t, "b")
  /\ Goto(t, "wakeupJob")
  /\ UNCHANGED <<tdPoolVars, queuesVars, field, clientVars, shutdownVars>>

\* Faulty: the thread_data is returned by the request thread as well.
WakeupJobAndReturn(t) == /\ At(t, "wakeupJob")
                         /\ WorkQ!Wakeup
                         /\ Goto(t, "joinTd")
                         /\ UNCHANGED <<tdPoolVars, bufPoolVars, tlistVars,
                                        local, dataVars, clientVars,
                                        shutdownVars>>

\* Faulty: nobody is told of the job.
NoWakeupJob(t) == /\ At(t, "wakeupJob")
                  /\ local' = [local EXCEPT ![t] = Idle]
                  /\ Goto(t, "dequeue")
                  /\ UNCHANGED <<tdPoolVars, bufPoolVars, queuesVars,
                                 dataVars, clientVars, shutdownVars>>

WakeupJob(t) == /\ At(t, "wakeupJob")
                /\ WorkQ!Wakeup
                /\ local' = [local EXCEPT ![t] = Idle]
                /\ Goto(t, "dequeue")
                /\ UNCHANGED <<tdPoolVars, bufPoolVars, tlistVars, dataVars,
                               clientVars, shutdownVars>>

-----------------------------------------------------------------------------
(* The workers: handle_jobs, job_complete.                                 *)

WorkerSleeps(t) == /\ At(t, "dequeue")
                   /\ WorkQ!Block(t)
                   /\ UNCHANGED <<tdPoolVars, bufPoolVars, tlistVars, pc,
                                  local, dataVars, clientVars, shutdownVars>>

WorkerTakes(t) ==
  /\ At(t, "dequeue")
  /\ \E j \in [td : Td \cup {StopTd}, out : Buffer \cup {0}] :
       /\ WorkQ!Take(t, j)
       /\ local' = [local EXCEPT ![t].td = j.td, ![t].body = j.out]
       /\ Goto(t, IF j = StopJob THEN "exited" ELSE "process")
  /\ UNCHANGED <<tdPoolVars, bufPoolVars, tlistVars, dataVars, clientVars,
                 shutdownVars>>

\* work_process_job: the answer goes to the out buffer; an event the tracker
\* does not expect of a peer it does not know leaves it empty.
Process(t) ==
  /\ At(t, "process")
  /\ \E answer \in {{}, {ClientOf(t)}} :
       content' = [content EXCEPT ![local[t].body] = @ \cup answer]
  /\ Goto(t, "getResponse")
  /\ UNCHANGED <<tdPoolVars, bufPoolVars, queuesVars, local, field,
                 clientVars, shutdownVars>>

\* Faulty: job_complete resets both pointers of the thread_data.
JoinOutResetsBp(t) ==
  /\ At(t, "joinOut")
  /\ JoinBuffer(t, "body")
  /\ field' = [field EXCEPT ![local[t].td].sq = FALSE,
                            ![local[t].td].bp = FALSE]
  /\ Goto(t, "joinTd")
  /\ UNCHANGED <<tdPoolVars, queuesVars, clientVars, shutdownVars>>

\* The connection is closed before the thread_data goes back to its pool.
JoinOut(t) == /\ At(t, "joinOut")
              /\ JoinBuffer(t, "body")
              /\ field' = [field EXCEPT ![local[t].td].sq = FALSE]
              /\ Goto(t, "joinTd")
              /\ UNCHANGED <<tdPoolVars, queuesVars, clientVars, shutdownVars>>

-----------------------------------------------------------------------------
\* A thread in pthread_cond_wait wakes up though nobody has signalled.
SpuriousWakeup ==
  /\ SpuriousWakeups /\ ~crashed
  /\ \/ /\ TdPool!SpuriousWakeup
        /\ UNCHANGED <<bufPoolVars, queuesVars>>
     \/ /\ BufPool!SpuriousWakeup
        /\ UNCHANGED <<tdPoolVars, queuesVars>>
     \/ /\ TList!SpuriousWakeup
        /\ UNCHANGED <<tdPoolVars, bufPoolVars, wqVars>>
     \/ /\ WorkQ!SpuriousWakeup
        /\ UNCHANGED <<tdPoolVars, bufPoolVars, tlistVars>>
  /\ UNCHANGED <<pc, local, dataVars, clientVars, shutdownVars>>

MainNext == \/ Peek \/ PollTimeout \/ Accept \/ GetTdBlocks \/ GetTd
            \/ EnqueueTd \/ WakeupTd \/ Check
            \/ StopReq \/ StopReqWakeup \/ StopWorker \/ StopWorkerWakeup

Respond(t) == \/ GetResponse(t) \/ Write(t) \/ JoinResponse(t)
              \/ Close(t) \/ JoinTd(t) \/ GetBufferBlocks(t)

ReqNext(t) == \/ ReqSleeps(t) \/ ReqTakes(t) \/ ReqStops(t) \/ GetB(t)
              \/ ReadFails(t) \/ ReadBadQuery(t) \/ ReadRequest(t)
              \/ GetError(t) \/ JoinError(t) \/ JoinB(t)
              \/ GetOut(t) \/ EnqueueJob(t) \/ JoinBServed(t) \/ WakeupJob(t)

WorkerNext(t) == \/ WorkerSleeps(t) \/ WorkerTakes(t) \/ Process(t)
                 \/ JoinOut(t)

Next == \/ MainNext
        \/ \E t \in Reqs \cup Workers : Respond(t)
        \/ \E t \in Reqs : ReqNext(t)
        \/ \E t \in Workers : WorkerNext(t)
        \/ \E c \in Clients : Arrive(c)
        \/ Signal
        \/ SpuriousWakeup

\* A thread that can take a step takes it: the scheduler is fair, a read and
\* a write return in the end, and so does a poll once a client is there.
Fairness == /\ WF_vars(MainNext)
            /\ \A t \in Reqs : WF_vars(Respond(t) \/ ReqNext(t))
            /\ \A t \in Workers : WF_vars(Respond(t) \/ WorkerNext(t))

Spec == Init /\ [][Next]_vars
FairSpec == Spec /\ Fairness

-----------------------------------------------------------------------------
Labels == {"peek", "poll", "pollForASecond", "getTd", "enqueueTd", "wakeupTd",
           "check", "stopTd", "stopTdWakeup", "stopJob", "stopJobWakeup",
           "join", "dequeue", "stopped", "hung", "getB", "read", "getError",
           "getOut", "enqueueJob", "joinBServed", "wakeupJob", "getResponse",
           "write", "joinResponse", "joinError", "close", "joinB", "joinTd",
           "process", "joinOut", "exited"}

\* The variables have their types, and the stop loop runs no more often than
\* there are threads of each kind.
STypeOK ==
  /\ tlist \in Seq(Td \cup {StopTd})
  /\ wq \in Seq([td : Td \cup {StopTd}, out : Buffer \cup {0}])
  /\ pc \in [Threads -> Labels]
  /\ local \in [Threads -> [client : Clients \cup {NoClient},
                            td : Td \cup {0}, b : Buffer \cup {0},
                            body : Buffer \cup {0}, resp : Buffer \cup {0}]]
  /\ field \in [Td \cup {StopTd} -> [client : Clients \cup {NoClient},
                                     sq : BOOLEAN, bp : BOOLEAN]]
  /\ content \in [Buffer -> SUBSET Clients]
  /\ conn \in [Clients -> {"away", "backlog", "refused", "open", "closed"}]
  /\ stops \in 0..Cardinality(Workers)

\* The names of the queues, as owners of what is in them, are no thread's.
ASSUME OwnersAssumption == Threads \cap {"tlist", "wq"} = {}

ItemsOf(s) == {s[i] : i \in DOMAIN s}

\* The labels at which a thread still has a pointer to a thread_data, or to
\* one of the stop entries, that it does not own (any more).
NotOwner == {"joinBServed", "wakeupJob", "stopped", "hung"}

\* Who owns which thread_data: a thread, the list of connections, or the jobs
\* in the work queue.
TdHeld == [h \in Threads \cup {"tlist", "wq"} |->
             (CASE h = "tlist" -> ItemsOf(tlist)
                [] h = "wq"    -> {j.td : j \in ItemsOf(wq)}
                [] OTHER -> IF pc[h] \in NotOwner THEN {} ELSE {local[h].td})
             \ {0}]

BufHeld == [h \in Threads \cup {"wq"} |->
              (IF h = "wq" THEN {j.out : j \in ItemsOf(wq)}
                           ELSE {local[h].b, local[h].body, local[h].resp})
              \ {0}]

TdUse == INSTANCE PoolUse
  WITH Threads <- Threads \cup {"tlist", "wq"}, MaxHold <- MaxTd,
       MaxNum <- MaxTd, Amp <- TdAmp, num <- tdNum, inuse <- tdInuse,
       busy <- tdBusy, waiting <- tdWaiting, woken <- tdWoken,
       held <- TdHeld, failed <- {}

\* No bound on what an owner holds: a thread may wait for a buffer while it
\* holds all the others.
BufUse == INSTANCE PoolUse
  WITH Threads <- Threads \cup {"wq"}, MaxHold <- MaxBuf + 1,
       MaxNum <- MaxBuf, Amp <- BufAmp, num <- bufNum, inuse <- bufInuse,
       busy <- bufBusy, waiting <- bufWaiting, woken <- bufWoken,
       held <- BufHeld, failed <- {}

\* The threads use the pool of thread_data the way PoolUse says: what is
\* returned is what the caller owns, each thread_data passes from owner to
\* owner on its way through the queues, and none is returned by two threads
\* or forgotten.  All that PoolProofs proves of the pool holds in the server.
UsesTdPool == TdUse!PSpec

\* The same for the buffers, on every path through the read, the error reply,
\* the hand-over of the out buffer and the reply.
UsesBufPool == BufUse!PSpec

\* What the clients see is the service that Service specifies; in particular
\* no more connections are open than there are thread_data, and one that the
\* main thread has accepted but found no thread_data for.
ServiceSpec == INSTANCE Service
  WITH Capacity <- MaxTd + 1,
       answers <- [c \in Clients |-> Len(reply[c])]

ImplementsService == ServiceSpec!Spec

\* A thread that reads from, writes to or closes the client of its
\* thread_data finds the connection open, and no other thread talks to it:
\* the thread_data is not reused before its connection is closed.
Talking == {t \in Reqs \cup Workers :
              pc[t] \in {"getB", "read", "getError", "getOut", "enqueueJob",
                         "process", "getResponse", "write", "joinResponse",
                         "joinError", "close"}}
OwnClient == /\ \A t \in Talking : ClientOf(t) # NoClient
                                   /\ conn[ClientOf(t)] = "open"
             /\ \A t, u \in Talking : t # u => ClientOf(t) # ClientOf(u)

\* A client is sent one reply at most, with data of its own request only: the
\* buffers keep nothing of the clients they were used for before.
ReplyIsOwn == \A c \in Clients : reply[c] \in {<<>>, <<{}>>, <<{c}>>}

\* A buffer for every thread_data (its reply or its error), and for every
\* thread the one it reads into or composes the response in.
Demand == MaxTd + 2 * Cardinality(Reqs) + Cardinality(Workers)

\* No thread holds buffers while it waits for another one to be free: a pool
\* of the size of the demand (28 with the code's 16 and 8; it has 64) never
\* makes a thread wait, so the threads cannot wait for each other.
BuffersSuffice == /\ bufInuse <= Demand
                  /\ MaxBuf >= Demand => bufWaiting = {}

\* No thread_data of a client is mistaken for a stop, and whoever uses one
\* finds the pointers it needs set, also the request thread that reads td->bp
\* after it has handed the thread_data over.
TdUsable == /\ \A e \in ItemsOf(tlist) \ {StopTd} : ~TdNull(e)
            /\ \A j \in ItemsOf(wq) \ {StopJob} : ~TdNull(j.td)
            /\ \A t \in Talking : ~TdNull(local[t].td)
            /\ \A t \in Reqs : pc[t] = "joinBServed" => field[local[t].td].bp

\* Every connection in the backlog is accepted and closed in the end.
EveryClientServed ==
  \A c \in Clients : conn[c] = "backlog" ~> conn[c] = "closed"

\* Each worker gets a stop job of its own and ends, unless the process does.
WorkersStop == pc[Main] = "join" ~> \/ crashed
                                    \/ \A t \in Workers : pc[t] = "exited"

\* do_shutdown waits "for all threads to exit" (main.c:98) and then frees what
\* they shared: the shutdown is no crash.
ShutdownIsClean == ~crashed

\* A signal ends the loop of the main thread (main.c:346), unless the thread is
\* in the poll without a timeout, or about to be: then nobody interrupts the
\* poll, although "from sigint" (main.c:169) expects so.  Such a shutdown is
\* carried out when the next client connects, and not later than that.
ShutdownSeen ==
  /\ flag ~> crashed \/ pc[Main] \in {"poll", "join"}
  /\ flag /\ Backlog # {} ~> crashed \/ pc[Main] = "join"
=============================================================================
