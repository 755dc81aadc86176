----------------------------- MODULE TorrentCache ------------------------------
(***************************************************************************)
(* The list of torrents (torrent.c): an announce or a scrape looks its     *)
(* info_hash up, and loads the torrent from the database if it is not      *)
(* there.  The mutex of the list is held during the query (db.c), so every *)
(* other lookup and every workon and jobdone waits for it.                 *)
(*                                                                         *)
(* A hash that a request asks for is compared over the whole of its field. *)
(* An announce clears the field first; the field of a scrape is what       *)
(* malloc returned, with only the digits and their end written             *)
(* (url_decode).  Whether the rest of it is zero, like the rest of the     *)
(* field of every torrent (strncpy), is part of the request here.  A value *)
(* too short to decode leaves an old field as it is: any hash.             *)
(*                                                                         *)
(* What an announce does to the list of peers is one step; the module      *)
(* Swarm has it in detail.                                                 *)
(***************************************************************************)
EXTENDS Integers, Sequences, FiniteSets

CONSTANTS Workers, Hashes, Peers,
          Events,      \* the events of the announces
          Registered,  \* the hashes in the database
          Memory,      \* what malloc returns: {"zero"}, or also "used"
          MaxTry,      \* how often a busy database is asked again
          Scrapes,     \* bound: the sequences of hashes that scrapes ask for
          MaxJobs,     \* bound: the jobs handled
          NoWorker

ASSUME CacheAssumption ==
  /\ IsFiniteSet(Workers)
  /\ Events \subseteq {"start", "stop", "complete", "count"}
  /\ Registered \subseteq Hashes
  /\ Memory \subseteq {"zero", "used"}
  /\ MaxTry \in Nat /\ MaxJobs \in Nat
  /\ Scrapes \subseteq Seq(Hashes) \ {<<>>}
  /\ NoWorker \notin Workers

VARIABLES torrents,  \* in the order of their insertion: the last is the head
          lock,      \* who holds the mutex of the list
          working,   \* torrent_list_t.working
          pc,
          job,       \* the announce or scrape each worker handles
          todo,      \* the hashes it still has to look up
          at,        \* the torrent its lookup returned
          tries,     \* maxtry of its query
          report,    \* the hashes and peers its scrape has noted
          jobs       \* how many more jobs may come

vars == <<torrents, lock, working, pc, job, todo, at, tries, report, jobs>>

Wanted == [hash : Hashes, memory : {"zero", "used"}]

Announces == [type : {"announce"}, peer : Peers, event : Events]
Scrape(hashes) == [type |-> "scrape", asked |-> hashes]

Init == /\ torrents = <<>>
        /\ lock = NoWorker
        /\ working = 0
        /\ pc = [w \in Workers |-> "idle"]
        /\ job = [w \in Workers |-> Scrape(<<>>)]
        /\ todo = [w \in Workers |-> <<>>]
        /\ at = [w \in Workers |-> 0]
        /\ tries = [w \in Workers |-> 0]
        /\ report = [w \in Workers |-> <<>>]
        /\ jobs = MaxJobs

-----------------------------------------------------------------------------
Goto(w, l) == pc' = [pc EXCEPT ![w] = l]

\* The torrent that the search from the head of the list finds; 0 is NULL.
Newest(h) == LET known == {i \in DOMAIN torrents : torrents[i].hash = h}
             IN  IF known = {} THEN 0
                 ELSE CHOOSE i \in known : \A j \in known : j <= i

\* Faulty: only the head of the list is compared.
MatchHead(e) == IF /\ torrents # <<>> /\ e.memory = "zero"
                   /\ torrents[Len(torrents)].hash = e.hash
                  THEN Len(torrents) ELSE 0

\* torrent_do_lookup_torrent_info_hash.
Match(e) == IF e.memory = "zero" THEN Newest(e.hash) ELSE 0

-----------------------------------------------------------------------------
(* The jobs.  torrent_list_workon is the last step of their beginning.     *)

Begin(w, j, hashes) == /\ pc[w] = "idle" /\ lock = NoWorker /\ jobs > 0
                       /\ jobs' = jobs - 1
                       /\ working' = working + 1
                       /\ job' = [job EXCEPT ![w] = j]
                       /\ todo' = [todo EXCEPT ![w] = hashes]
                       /\ report' = [report EXCEPT ![w] = <<>>]
                       /\ Goto(w, "lookup")
                       /\ UNCHANGED <<torrents, lock, at, tries>>

BeginAnnounce(w) == \E j \in Announces, h \in Hashes :
                      Begin(w, j, <<[hash |-> h, memory |-> "zero"]>>)

BeginScrape(w) ==
  \E s \in Scrapes : \E m \in [DOMAIN s -> Memory] :
    Begin(w, Scrape(s), [i \in DOMAIN s |-> [hash |-> s[i], memory |-> m[i]]])

-----------------------------------------------------------------------------
(* torrent_lookup_torrent.                                                 *)

\* Faulty: the mutex is given up for the time of the query.
SearchUnlocks(w) ==
  /\ pc[w] = "lookup" /\ lock = NoWorker
  /\ LET t == Match(Head(todo[w]))
     IN  IF t # 0
           THEN /\ at' = [at EXCEPT ![w] = t]
                /\ Goto(w, "use")
                /\ UNCHANGED <<lock, tries>>
           ELSE /\ tries' = [tries EXCEPT ![w] = MaxTry]
                /\ Goto(w, "query")
                /\ UNCHANGED <<lock, at>>
  /\ UNCHANGED <<torrents, working, job, todo, report, jobs>>

Search(w) ==
  /\ pc[w] = "lookup" /\ lock = NoWorker
  /\ LET t == Match(Head(todo[w]))
     IN  IF t # 0
           THEN /\ at' = [at EXCEPT ![w] = t]
                /\ Goto(w, "use")
                /\ UNCHANGED <<lock, tries>>
           ELSE /\ lock' = w
                /\ tries' = [tries EXCEPT ![w] = MaxTry]
                /\ Goto(w, "query")
                /\ UNCHANGED at
  /\ UNCHANGED <<torrents, working, job, todo, report, jobs>>

\* SQLITE_BUSY.
QueryBusy(w) == /\ pc[w] = "query" /\ tries[w] > 0
                /\ tries' = [tries EXCEPT ![w] = @ - 1]
                /\ UNCHANGED <<torrents, lock, working, pc, job, todo, at,
                               report, jobs>>

\* A row: the torrent is inserted at the head.  The digits are compared as a
\* string here, whatever comes after their end.
QueryFinds(w) ==
  /\ pc[w] = "query" /\ tries[w] > 0
  /\ Head(todo[w]).hash \in Registered
  /\ torrents' = Append(torrents, [hash   |-> Head(todo[w]).hash,
                                   memory |-> Head(todo[w]).memory,
                                   swarm  |-> {}])
  /\ at' = [at EXCEPT ![w] = Len(torrents) + 1]
  /\ lock' = NoWorker
  /\ Goto(w, "use")
  /\ UNCHANGED <<working, job, todo, tries, report, jobs>>

\* A result that is neither a row nor an end and not counted as a try
\* (SQLITE_CORRUPT, SQLITE_LOCKED...), again and again: the mutex stays locked.
QuerySpins(w) == /\ pc[w] = "query" /\ tries[w] > 0
                 /\ Goto(w, "spin")
                 /\ UNCHANGED <<torrents, lock, working, job, todo, at, tries,
                                report, jobs>>

\* Faulty: the early return does not give the mutex back.
QueryFailsLocked(w) == /\ pc[w] = "query"
                       /\ Goto(w, "missing")
                       /\ UNCHANGED <<torrents, lock, working, job, todo, at,
                                      tries, report, jobs>>

\* No row, an error, or busy for too long.
QueryFails(w) == /\ pc[w] = "query"
                 /\ lock' = NoWorker
                 /\ Goto(w, "missing")
                 /\ UNCHANGED <<torrents, working, job, todo, at, tries, report,
                                jobs>>

-----------------------------------------------------------------------------
(* What the jobs do with the torrent.                                      *)

\* The peer is added, removed, or left alone, see Swarm.
After(j, swarm) == CASE j.event = "start" -> swarm \cup {j.peer}
                     [] j.event = "stop"  -> swarm \ {j.peer}
                     [] OTHER             -> swarm

UseAnnounce(w) ==
  /\ pc[w] = "use" /\ job[w].type = "announce"
  /\ torrents' = [torrents EXCEPT ![at[w]].swarm = After(job[w], @)]
  /\ Goto(w, "done")
  /\ UNCHANGED <<lock, working, job, todo, at, tries, report, jobs>>

\* Faulty: a torrent is noted once, however often it is asked for.
SnapshotOnce(w) ==
  /\ pc[w] = "use" /\ job[w].type = "scrape"
  /\ report' = IF \E i \in DOMAIN report[w] :
                      report[w][i].hash = torrents[at[w]].hash
                 THEN report
                 ELSE [report EXCEPT ![w] =
                         <<[hash  |-> torrents[at[w]].hash,
                            peers |-> torrents[at[w]].swarm]>> \o @]
  /\ todo' = [todo EXCEPT ![w] = Tail(@)]
  /\ Goto(w, IF Len(todo[w]) = 1 THEN "done" ELSE "lookup")
  /\ UNCHANGED <<torrents, lock, working, job, at, tries, jobs>>

\* scrape_add_torrent, and on to the next hash.
Snapshot(w) ==
  /\ pc[w] = "use" /\ job[w].type = "scrape"
  /\ report' = [report EXCEPT ![w] =
                  <<[hash  |-> torrents[at[w]].hash,
                     peers |-> torrents[at[w]].swarm]>> \o @]
  /\ todo' = [todo EXCEPT ![w] = Tail(@)]
  /\ Goto(w, IF Len(todo[w]) = 1 THEN "done" ELSE "lookup")
  /\ UNCHANGED <<torrents, lock, working, job, at, tries, jobs>>

\* The job and what it has pointed to are gone.
Idle(w) == /\ job' = [job EXCEPT ![w] = Scrape(<<>>)]
           /\ todo' = [todo EXCEPT ![w] = <<>>]
           /\ at' = [at EXCEPT ![w] = 0]
           /\ tries' = [tries EXCEPT ![w] = 0]
           /\ report' = [report EXCEPT ![w] = <<>>]
           /\ Goto(w, "idle")

\* torrent_list_jobdone, and the reply.
Done(w) == /\ pc[w] = "done" /\ lock = NoWorker
           /\ working' = working - 1
           /\ Idle(w)
           /\ UNCHANGED <<torrents, lock, jobs>>

\* Faulty: a scrape that fails half-way returns without jobdone.
MissingReturns(w) ==
  /\ pc[w] = "missing" /\ lock = NoWorker
  /\ working' = IF report[w] = <<>> THEN working - 1 ELSE working
  /\ Idle(w)
  /\ UNCHANGED <<torrents, lock, jobs>>

\* The same on the way out with the failure: nothing that was noted is sent.
Missing(w) == /\ pc[w] = "missing" /\ lock = NoWorker
              /\ working' = working - 1
              /\ Idle(w)
              /\ UNCHANGED <<torrents, lock, jobs>>

-----------------------------------------------------------------------------
WorkerNext(w) == \/ Search(w) \/ QueryBusy(w) \/ QueryFinds(w) \/ QuerySpins(w)
                 \/ QueryFails(w) \/ UseAnnounce(w) \/ Snapshot(w) \/ Done(w) \/ Missing(w)

Next == \E w \in Workers : BeginAnnounce(w) \/ BeginScrape(w) \/ WorkerNext(w)

Spec == Init /\ [][Next]_vars

\* A worker that can go on goes on.
FairSpec == Spec /\ \A w \in Workers : WF_vars(WorkerNext(w))

-----------------------------------------------------------------------------
\* The variables have their types, and the mutex is held during a query.
CacheTypeOK ==
  /\ torrents \in Seq([hash : Hashes, memory : {"zero", "used"},
                       swarm : SUBSET Peers])
  /\ lock \in Workers \cup {NoWorker}
  /\ working \in Int
  /\ pc \in [Workers -> {"idle", "lookup", "query", "spin", "use", "done",
                       "missing"}]
  /\ job \in [Workers -> Announces \cup
                 [type : {"scrape"}, asked : Seq(Hashes)]]
  /\ todo \in [Workers -> Seq(Wanted)]
  /\ at \in [Workers -> 0..Len(torrents)]
  /\ tries \in [Workers -> 0..MaxTry]
  /\ report \in [Workers -> Seq([hash : Hashes, peers : SUBSET Peers])]
  /\ jobs \in Nat
  /\ \A w \in Workers : pc[w] \in {"query", "spin"} <=> lock = w

\* However many workers look the same hash up at once, it is loaded once: a
\* "torrent found.. no need to add" (torrent.c:110).  The one way to a second
\* torrent, in front of the first, is a scrape whose field was not zero behind
\* the digits.
OneTorrentPerHash ==
  \A i, j \in DOMAIN torrents :
    i < j /\ torrents[i].hash = torrents[j].hash => torrents[j].memory = "used"

\* Every way out of both handlers, also the failure of a scrape after some of
\* its hashes were found, takes back the workon of its beginning.
CacheWorkingBalanced ==
  working = Cardinality({w \in Workers : pc[w] # "idle"})

\* A scrape is answered in whole or not at all: when it comes to its reply the
\* torrents noted are those it has asked for, repeated ones as often as asked.
ScrapeIsWhole ==
  \A w \in Workers : pc[w] = "done" /\ job[w].type = "scrape" =>
    /\ Len(report[w]) = Len(job[w].asked)
    /\ \A i \in DOMAIN report[w] :
         report[w][Len(report[w]) + 1 - i].hash = job[w].asked[i]

\* The peers that announces for a hash meet: those of the torrent that a
\* lookup of an announce finds.
SwarmOf == [h \in Hashes |-> IF Newest(h) = 0 THEN {}
                                              ELSE torrents[Newest(h)].swarm]

\* The hashes that a scrape has loaded although its lookup may have missed them.
Reloaded == {h \in Hashes : \E i \in DOMAIN torrents :
               torrents[i].hash = h /\ torrents[i].memory = "used"}

\* The announce of a worker, until it takes effect or is found to be missing.
Asked == [w \in Workers |->
            IF job[w].type = "announce" /\ pc[w] \in {"lookup", "query",
                                                        "spin", "use"}
              THEN {[hash |-> Head(todo[w]).hash, announce |-> job[w]]}
              ELSE {}]

\* Each announce takes effect once on the one swarm of its hash, which survives
\* the loading of torrents, failed queries and scrapes; it is refused only when
\* the swarm is empty.  Only a scrape that works on used memory can lose a
\* swarm, and then as a whole.
RegistrySpec == INSTANCE Registry
  WITH MayMiss <- "used" \in Memory, swarmOf <- SwarmOf, asked <- Asked,
       reloaded <- Reloaded

ImplementsRegistry == RegistrySpec!Spec

\* Every announce and scrape ends, with the mutex given up on each way out of
\* the lookup: a busy database is not asked for ever.  One that keeps returning
\* another code is, and then everybody waits for the worker that asks.
EveryJobEnds == \A w \in Workers :
  pc[w] # "idle" ~> pc[w] = "idle" \/ \E v \in Workers : pc[v] = "spin"
=============================================================================
