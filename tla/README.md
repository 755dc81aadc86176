# A model of ttracker

ttracker is a BitTorrent tracker in C: one process, POSIX threads, HTTP in and
bencoded replies out. These modules model the parts of it that a test hardly
reaches: the hand-over of connections, jobs and buffers between threads, the
two pools the threads share, the shutdown, the announces that several workers
handle on the same list of peers, the cache the torrents are looked up in, and
the way of one request from its query to the last byte of its response. Line
numbers refer to the
repository's files; `PROJECT.json` maps every definition to its lines.

## The system

| component | state | operations | interacts with |
|---|---|---|---|
| main thread (`main.c`) | listening socket, `__DO_SHUTDOWN` | `runq_events` (peek, poll, accept, get a `thread_data`, enqueue, wake up), `server_stop_threads`, `do_shutdown` | `thread_data` pool, list of connections, work queue (peeks; stop jobs) |
| request threads (`main.c`, `http.c`), `MAX_THREADS/2` = 4 | the `thread_data` and buffer in their hands | `handle_req`: dequeue, get `b`, `http_handle_read`; on failure (perhaps `http_error`) close and return everything, on success enqueue a job with an out buffer | both pools, both queues |
| workers (`main.c`, `work.c`, `http.c`), 4 | the job in their hands | `handle_jobs`: dequeue, `work_process_job`, `http_handle_write`, `job_complete` | work queue, swarm, both pools |
| `thread_data` pool (`td_pool.c`), 4 to 16 | list of entries with a status, `num`, `inuse`, a condition | populate, get (waits), join | main takes, request threads or workers return |
| buffer pool (`buffer_pool.c`), 4 to 64 | the same | the same; a returned buffer is emptied | request threads and workers |
| work queue, list of connections (`work.c`) | a tail queue (FIFO), a list (LIFO), a condition each | enqueue; wake up, as a separate call; waiting dequeue; peek | the threads |
| swarm of a torrent (`torrent.c`, `work.c`) | list of peers, `seeders`, `leechers`, `complete`, `peer_count`, the list's `working` | the announce: search (no lock), add, update, remove, `workon`/`jobdone`, free | workers |
| cache of torrents and scrape (`torrent.c`, `work.c`) | list of torrents | lookup, load on a miss, snapshots | workers, database |
| query parsing (`http.c`) | the list of pairs, the `peer_req` | reading the pairs, the check of the keys (request thread); building and validating the `peer_req` (worker) | reply writing |
| reply writing (`torrent.c`, `http.c`) | the text, `written`, the allocation | `bencode_torrent`, `bencode_scrape_ctx`, the failures; headers and write loop of `http_response` | buffers, the client's socket |
| buffers (`buffer.c`) | data, size, cursor | align, append, overwrite, zero | all of `http.c` |
| bencoding (`bncode.c`), database (`db.c`), `malloc` (`mem.c`) | - | - | - |

What is hard here: a queue entry is inserted in one critical section and
announced in a later one; a thread that was woken can be overtaken; a
`thread_data` has five owners in its life and one of them still reads it when it
is no longer its own; threads hold buffers while they wait for more; a flag set
by a signal handler is tested before a `poll` that has no timeout; the list of
peers is read without the lock that its changes take, and an entry is filled in
before that lock is taken; a torrent is compared over bytes that nobody has set;
keys are counted where they should be told apart; a reply is printed into 128
bytes an entry, of which one usual peer needs every one and an unusual one more;
a write may be partial or fail. `PROJECT.json` lists these hazards at their
lines with the properties that cover them.

## The modules

**CondVar** is a condition variable: who sleeps, who has been woken and has not
got the mutex back. A signal with no sleeper is lost. Spurious returns are
possible. It is modelled from how the code uses pthreads.

**Pool** is `buffer_pool.c`, and equally `td_pool.c`, which is the same code
over another type. `num`, `inuse` and the statuses (`busy`) are three variables,
as in the code, so that they *can* disagree. `Grant` is one critical section of
a get: the wait loop lets the caller through, populate grows the list or not,
the scan returns the free entry nearest the head or NULL. `Block` is the sleep,
at the first look or again after a wakeup; `Join` gives back and signals.

**PoolUse** puts threads around a pool: each holds up to `MaxHold` entries,
takes, returns, or hands an entry to another thread, as the job's out buffer
and every `thread_data` are handed over. **Allocator** is what a pool promises:
an entry is owned by one thread at a time.

**JobQueue** is both queues of `work.c`; `Lifo` tells `td_enqueue`
(`LIST_INSERT_HEAD`) from `workq_enqueue_job`. `Enqueue` and `Wakeup` are
separate steps. **QueueUse** puts producers and consumers around it, with the
histories `sent` and `taken`.

**Server** composes two `Pool`s and two `JobQueue`s with the main thread, the
request threads and the workers. A step is a critical section or a system call
with the thread's own computation up to the next one; `pc` holds where each
thread is. `local[t]` holds a thread's pointers: `td`, `b`, and `body` and
`resp`, the two buffers of a reply. `body` is the error buffer or the job's out
buffer, and `resp` the one `http_response` composes into. `field` are the three
fields of every `thread_data` that matter: `client`, and whether `sq` and `bp`
are set, because `td_null` recognises a stop by either being NULL. The fields
are read when the code reads them, not remembered: `ClientOf(t)` looks the
client up through the pointer every time. `content` says whose data a buffer
contains.

* Main: `Peek`, `PollTimeout`, `Accept`, `GetTd`(`Blocks`), `EnqueueTd`,
  `WakeupTd`, `Check` are `runq_events` and the loop of `main_server`; `StopReq`
  to `StopWorkerWakeup` are the four critical sections of a round of
  `server_stop_threads`.
* Request threads: `ReqSleeps`, `ReqTakes`, `ReqStops`, `GetB`; then one of
  `ReadFails` (no answer), `ReadBadQuery` (then `GetError`, `GetResponse`,
  `Write`, `JoinResponse`, `JoinError`) and `ReadRequest` (then `GetOut`,
  `EnqueueJob`, `JoinBServed`, `WakeupJob`); a failed one ends in `Close`,
  `JoinB`, `JoinTd`.
* Workers: `WorkerSleeps`, `WorkerTakes`, `Process`, `GetResponse`, `Write`,
  `JoinResponse`, `Close`, `JoinOut`, `JoinTd`.

What a job does to the swarm is the module Swarm; in Server, `Process` writes
data of the job's client, or nothing. The result of the parsing is a choice.
The write loop is one step that sends the reply or gives up.

**Service** is what the clients see: a connection is accepted, answered at most
once while it is open, and closed once; no more are open than there are
`thread_data` and the one in the main thread's hand.

**Swarm** is one torrent. `peers` is the list from its head; `mem` says what an
entry's memory is used for: free, made (allocated and filled in, not yet
inserted), listed, removed but not yet freed, or lost (made for a peer that was
there already, and never freed). Because
`peer_search_peer` takes no lock, the search is one step per entry
(`SearchesOn`), follows the stale `next` of a removed entry, and may read freed
memory (`ReadsFreed`). `MakePeer` is `mk_peer` and the copy of the announce's
peer into its memory (`work.c:204-205`), which take no lock either. If the memory
is that of an entry that another search still stands on, this search finds
the new peer before it is in the list, or follows a link that nobody has set
(`Strays`: to NULL, to any entry, or to nowhere). What runs under `peer_rwlk`
is one step: `Add` (`torrent_add_peer_and_return_list`, with its second search),
`Update`, `UpdateStopped`, `Remove`. `Done` is `torrent_list_jobdone` and `Free` is
`free_peer`, which comes after it. An entry that is freed may be allocated
again for another peer. `stops` is a history variable.

**TorrentCache** is the list of torrents. `Search` is
`torrent_lookup_torrent` up to the query (and the whole of it on a hit), which
runs with the list's mutex locked (`lock`): the other workers' lookups, workons
and jobdones wait. The query is busy, finds, fails, or spins for ever.
`UseAnnounce` is the effect of an announce in one step (Swarm has the steps);
`Snapshot` is one turn of the scrape. `Wanted` is an `info_hash` as it is
compared: the hash, and whether the bytes behind its 40 digits are zero. **Registry** is what the
cache promises: one swarm for each hash, on which each announce takes effect
once, and which nothing else changes.

**Stage** is how far a request has come; the following modules share it.
**Query** is the list of pairs, with the check of the keys (`Check`),
`http_build_peer_req` (`Build`, which may follow a NULL) and
`sanitize_peer_req`. **Reply** prints the two lists piece by piece, with what
`snprintf` does at the end of an allocation: it cuts the text off there, and the
rest that is left for the next piece is negative, which is no limit
at all (`SnPrint`). How long a peer is, is a choice without a bound, since the
code has none. `Overrun` is the end of a process that has printed behind the
allocation; it may also go on, and then what it has overwritten is not followed.
`short` and `held` are history variables: whether all that was printed so far
is short, and whether the `peer_id`s fit their array. **Buffer** has the buffers as
values and their operations as functions. `size` is a `size_t` and the room an
`int`; what is written is kept as `top`, so that `Fits` can say that it was
inside the allocation. **Response** appends the strings of a reply, puts the
response together and writes it. **Request** composes them: one action for each
way from a stage to the next, with the lengths of the real strings.

What Server treats as one step (`ReadRequest`, `Process`, `Write`) is what
Request has in detail. It can be a step there, because the data of a request is
in the hands of one thread at a time; and Request can be sequential for the
same reason (OwnClient and TdUsable are what gives it to one thread).

MC modules give TLC its model values. PoolProofs, QueueProofs, ServerProofs,
ServiceProofs, SwarmProofs, BufferProofs, RequestProofs and CacheProofs hold the
proofs.

Operators marked *Faulty* stand next to the ones they are variants of. No
specification uses them: each is a plausible mistake in that piece of code, and
each property has been seen to fail with one of them in place.

### Conventions

*Undefined behaviour* is a choice or an end. The `thread_data` of a stop comes
from `mk_td`, which does not set `tp`; `td_pool_join_td(td->tp, td)` then locks
a mutex at an arbitrary address. `ReqStops` lets the process be killed or the
thread hang. Use of memory that is freed or was never allocated sets
`corrupted` in Swarm, after which nothing more happens: the properties there
speak of the runs up to that point. The unset link of an entry that is made and
not inserted (`pe` of `_job_handle_announce`, copied whole) is any entry, NULL,
or no address, which is `corrupted` too. A print behind the allocation of a
reply ends in `overrun` or goes on as if nothing had happened.

*Memory order.* Stores are seen in the order of the program; the model does not
have the reorderings that a C compiler or a weakly ordered machine may add to
the unlocked search.

*NULL of a get* is part of Pool (`Null`) and never granted in Server, whose
callers would dereference it. This is no omission: GetNeverReturnsNull proves
the path dead, and ServerUsesTdPool and ServerUsesBufPool prove that the server
uses the pools as that theorem assumes.

## The runs

| run | instance | shows |
|---|---|---|
| `pool` | 4 threads, at most 2 entries each, pool of 2, 4, 6 | the pool's invariants and that it implements Allocator |
| `queue` | 2 producers, 2 consumers, 4 jobs, fair | jobs delivered once, in order, no wakeup lost, each taken in the end |
| `server` | 3 clients, 1 request thread, 1 worker, 2 `thread_data`, 5 buffers, spurious wakeups | a thread talks only to its own open connection (OwnClient), replies hold nothing of other clients (ReplyIsOwn), pointers are set where they are used (TdUsable), 5 buffers, exactly the demand, suffice, and Server implements Service |
| `server_tight` | 2 clients, 2 request threads, 1 worker, 1 `thread_data`, 3 buffers, spurious wakeups; fair | the main thread waits for the `thread_data`, request threads wait for buffers, both pools are used as PoolUse allows, and every client is served |
| `server_shutdown` | 1 client, 2 + 2 threads, 1 signal; fair | each worker gets a stop job, exactly as many are sent, and the signal is seen at the latest with the next client, unless the process dies |
| `shutdown_crash` | 1 client, 1 + 1 threads, 1 signal | *violated*: a shutdown kills the process |
| `swarm_races` | 3 workers, 2 peers, 5 announces of all kinds | no duplicates, counters right, `working` balanced; a started peer is listed, or another start is about to insert it, and it leaves the list by its own stop only |
| `swarm_race` | 2 workers, 3 announces | *violated*: the unlocked search uses what is gone |
| `cache` | 2 workers, 2 hashes, 1 peer, 3 announces or scrapes, used memory; fair | a hash is loaded once, scrapes are whole, `working` is balanced, every job ends, and the cache implements Registry |
| `request` | 2 requests in a row, up to 4 pairs, up to 6 peers of three lengths, 5 failing writes; fair | what passes the checks is right, replies that can fit do, buffers fit, the response is sent in order and in whole or given up |
| `reply_long` | 1 request, up to 2 peers | *violated*: the reply with one longer `peer_id` is not in its 128 bytes |
| `query_repeat` | 1 request | *violated*: an announce without one of the keys passes the check |

### Why these bounds are enough

*Pool.* The proofs need no bound. The run has two growth steps and more threads
wanting more entries (8) than there are (6), so threads sleep, are overtaken and
are woken. *Queue.* Proved as well; four items let both producers be between
enqueue and signal while both consumers sleep. *Server.* Threads of one kind are
alike, and a connection meets another in four places: a `thread_data` that is
used again, a buffer that is used again, a queue with two entries, a main thread
that waits. Two clients give the first three, the third client in `server` the
fourth; its request thread and its worker read, reply and close at the same
time, and use all five buffers of the demand at once. In `server_tight` one
`thread_data` and two clients give the wait of the main thread as well, here
with its end; the two request threads make the buffers scarce, as one of them
keeps its buffer after the hand-over while the other reads. Two workers that
take from one queue are in `server_shutdown` and `queue`; that more threads of a
kind change nothing is proved. `MaxSignals` is 0 or 1: the handler only sets a
flag, a second signal adds nothing. *Swarm.* The races need a peer that is
searched for while another announce changes the list; three workers and five
announces give every overlap of three handlers on a list that something came
before. Entries are as many as announces, so that memory may be new or reused.
The fifth announce is needed for the second case of StartListsPeer: a start and
a stop of a peer whose entry is freed, two starts of another one, of which one
fills that entry in and the other finds it there and is done first, and one more
start, without which the list were empty and the reply out of bounds.

*Cache.* A lookup interferes with a lookup, of the same or of another hash;
three jobs give an announce whose swarm is then missed by a scrape and the
announce that comes too late for it. The peers of a swarm do not look at each
other, so one is enough. A scrape asks for one hash, two, or one twice; `MaxTry`
1 has the query that succeeds at once, after a busy one, or not at all.
*Request.* Three required keys stand for the six: the check compares a count
with a number, and repeating one key while another is missing needs two. Four
pairs are one more than the keys. `MaxWant` 5 with 6 peers has the list that
stops early, and the five peers from which on a `peer_id` may fill its array. A
peer has 44 bytes of its own (port 5, `peer_id` 20, ip 15 and the two lengths),
87 (a `peer_id` of 63) or 130 (longer than its array), and the counters 6 digits
or the 22 of two ints: the first ones fill the 128 bytes of one peer to the
last, the second ones nearly those of five, and the third ones are too many for
any number of peers. `BufferSize` is the code's 64, so that the buffers grow at
replies of one peer, in small and large steps; two requests let a buffer of one
be used, at its size, by the next. `HalfRange` is far from every size here; the
proofs say what happens near it. Pieces of 50 bytes split a response several
times; failures are the five of the code.

`CHECK_DEADLOCK FALSE` stands in all configurations but those of the queue and the
pool: a
server whose clients have all been served, a swarm whose announces are used up,
a cache whose jobs and a tracker whose requests are done have nothing left to
do. Everyone waiting for everyone is caught by
EveryClientServed, BuffersSuffice, EveryJobEnds and EveryRequestEnds.

### Fairness

`FairSpec` gives weak fairness to each thread as a whole, never to single
actions, so a thread takes some step when it can, and which one stays a choice.
This is what a scheduler does, with three facts about system calls: `poll`
returns once a client is there, `read` and `write` return, and a mutex that is
given up is obtained in the end. The second one trusts the client: the code sets
no timeout on a socket, so a client that connects and sends nothing holds a
request thread for ever. The model has no such client. Arrivals, signals and
spurious wakeups are not fair. In QueueUse a producer that has enqueued signals,
and a consumer that is awake takes or sleeps; producing is not fair.

In TorrentCache a worker that can go on does: the mutex is obtained in the end
and the database returns from a step. In Request the thread that has the request
goes on, and a write returns; which of its outcomes it has is not fair, so the
tries and not luck must end the loop.

EveryClientServed and EveryItemTaken hold for finitely many clients or items.
With ever new connections the list of connections, last in first out, starves
its oldest entry; the model bounds the clients and so does not show it, and no
property claims it. Nor does any speak of the clients of a shutdown: jobs that
are enqueued behind the stop jobs are never processed.

## What is proved

Assumptions: finitely many threads; for a pool, a growth step `Amp` > 0 and a
`MaxNum` that is a multiple of it (4 and 16, 4 and 64 in the code), because the
growth stops at equality; for a queue, `Idle` not an item. No bound on threads,
entries or items.

*PoolProofs.* None of the pool's properties is inductive by itself. NeverNull
needs that the counter `inuse` is the number of busy entries, so that passing
the wait loop means one is free. That needs the statuses to match the holders,
so that a join never frees what is free. And NoLostWakeup needs to know that
threads sleep only when the pool has its full size, since a growth would make
free entries that no signal announces. `PoolInv` is their conjunction with
`num = k * Amp`, from which `num # MaxNum` leaves room for a whole step
(GrowthFits). GetFindsAnEntry is the heart of the proof; the other lemmas are
one per step. The theorems: PoolInvariant, PoolTypes, GetNeverReturnsNull,
PoolLosesNoWakeup, PoolStatusesAreRight, and PoolImplementsAllocator, which
uses the invariant in the step where a granted entry has to be nobody's.

*QueueProofs.* `QueueInv` counts: while a consumer sleeps, there are no more
items than producers that are still to signal and consumers that are woken. A
signal moves one from the first group to the second, a dequeue takes an item
and at most one from the second group. The theorems QueueInvariant,
QueueLosesNoWakeup, QueueDeliversOnce and QueueIsFifo hold for both orders of
insertion, the last for the work queue.

*BufferProofs.* For every `BUFFER_SIZE` and every width of an `int`: when a
buffer fits and may grow by one step without leaving the range of an `int`,
each of its three operations leaves it fitting (AppendStringFits,
AppendBufferFits, WriteOverFits). NeedExceeds is the rounding, which adds a
block too many rather than one too few; IntKept is why the mixed arithmetic of
`buffer.c:66` is harmless below the limit. GrowsWithContents is the other side: a
buffer is grown only when its contents come near its size, so that one that is
used again and again does not creep up to the limit.

*RequestProofs* has four invariants, each on top of the one before.

* `RequestInv` has one part for each module. For RepliesFit it counts
  (`Within`): after n short peers no more than 56 + 69 n bytes are printed, so that
  with the end and its NUL 128 an entry are enough, and exactly enough for one;
  after n peers whose `peer_id`s fit their array no more than 72 + 112 n, which is
  enough from five on; after n torrents no more than 9 + 100 n. SnPrintFits is what
  `snprintf` does with a piece that leaves room. Of other lists of peers the
  invariant says only that the text never reaches the end of its allocation
  (RepliesAnnounced needs no more): they may overrun it. For ResponsesInOrder it
  says that the client has got what was written.
* `PairsInv`: the list is the query reversed (`Mirrored`), and what each stage
  has found out about it (`StageSays`). ChecksAreRight is counting from there.
  If every required key is there, the entries with one are mapped onto the
  keys, so they are not too few. If they are enough and a key is missing, they
  are mapped into fewer keys than there are entries, so two have the same one.
  ValidsAreRight: the first entry of the list with a key (LookupIsFirst) is the
  last pair of the query with it (LastIsFound).
* `LengthInv`: what is in a buffer and what is still to be appended is the whole
  body, or the whole head. A reply and a head have six strings at most, so their
  sum (`Total`) is written out, without induction. RepliesAnnounced and
  ResponsesEnd.
* `SizeInv`: the contents of both buffers are bounded by the longest reply, and
  with them, by GrowsWithContents, their sizes, whatever requests came before.
  BuffersAlwaysFit has a hypothesis of its own, `IntsAreWide`: an int holds
  three times the longest response and three blocks. With the 2^31 and 64 of
  the code that is true up to some five million peers or hashes; beyond,
  `buffer.c:66` may be wrong. The instance of the run fulfils it.

No bound on keys, pairs, peers or sizes otherwise. The assumptions are those of
the modules: a peer's numbers and strings have any length, and a counter is an
int of 11 characters at most (ReplyAssumption); a positive number of tries,
pieces that are not empty, an event that is no required key.

*CacheProofs.* `CacheInv` adds to the types that who asks the database has the
mutex, and that what is asked for is not in the list unless its memory was
used; so an insertion cannot double a hash. CachedOnce and CacheJobsAreCounted
hold for any number of workers, hashes, jobs and tries. `JobsRight` is the
progress of each job: what has been noted is the beginning of what was asked
for, reversed, and what is to be looked up is the rest (`Noted`), from which
ScrapesAreWhole. CacheImplementsRegistry goes step by step: an announce whose
torrent is the newest of its hash is applied, another one's torrent has been
hidden by a load, and then the announce is lost, which the registry allows for
hashes that were reloaded only; the load is a Reload if the hash was there, and
nothing at all if it was not. That an announce never reloads a hash needs
`JobsRight` (what it looks up is never used memory) and `CacheInv`.

*SwarmProofs.* `SwarmInv` adds five parts to what it shows. An entry is in the
list once, and exactly if its memory is in use for the list (`ListedOnce`);
without it a removal could take two elements away. An entry that is made belongs
to one worker, who is about to insert it, and has that worker's peer in it
(`MadeInv`). The place of a worker fits its announce (`JobInv`): only starts
insert, only stops remove. What has been removed is freed by the worker that
removed it and by no other (`Owned`), which is why `Free` never takes an entry
that was listed again. Then the counts follow step by step: an insertion adds
one to the set of listed entries and to its seeders or leechers, a removal takes
one away. SwarmTypesHold, PeersListedOnce, CountersAreRight and
AnnouncesAreCounted hold for any workers, peers and number of announces, up to
the corruption that is finding 2 (a step that follows freed memory sets
`corrupted`, after which nothing is claimed). `HistoryInv` goes on from there
with the history of the stops. Every stop in progress is counted, and two of the
same peer twice (`StopsCounted`). As long as no peer has stopped twice, what a
stop has found or removed is its own peer's entry and nobody has freed it
(`FindsItsOwn`), an entry that is not listed any more tells of a stop of its
peer (`GoneByStop`), and a peer whose start has found or added it is still
there, or has been made by another start that has not inserted it yet
(`StaysListed`); an entry that was made for nothing has a listed peer as well
(`LostListed`), since a search may find that, too. They need each other: a start
can rely on what it found since only a stop of its own peer removes it, and a
stop has the right entry since the memory was not used again. From it
StopsRemoveTheirOwn and StartsAreListed, which assume in addition that the
model's name for no peer is not a peer.

*ServerProofs* has the control of the whole server, and who owns which
`thread_data`. `Base` says what a thread has in its hands at each place of its
code (`Locals`), and who may wait for a pool there. ServerInvariant adds
`TdInv`: the pool's own invariant `PoolInv` under the mapping `TdHeld` (the owner
of an entry is read off `local` and the two queues), that an entry is not twice
in a queue, and that the fields of every entry in service are set (`Usable`).
`PoolInv` is not proved again. PoolProofs is instantiated with the mapping, each
step of the server is shown to be a step of PoolUse or a stutter, and the
instantiated lemmas do the rest. The owners are the threads and the two queues,
so that handing over a `thread_data` moves one entry between two owners
(TdMovedIf) and changes nothing of the pool. This is the theorem
ServerUsesTdPool. Neither half goes without the other: that a job's `thread_data`
is nobody else's needs the pool's invariant, and that the pool's invariant is kept
needs the hand-overs. ThreadDataUsable follows; it covers the read of `td->bp` by
the request thread after the hand-over.

*ServiceProofs* goes on from there to what the clients see.

* `ClientsInv`: the `thread_data` in service and the open connections correspond
  one to one, the one just accepted aside. OwnClientHolds.
* `BufInv`: as `TdInv`, for the buffers, which have a thread or the work queue as
  their owner. ServerUsesBufPool.
* BuffersAlwaysSuffice counts: a buffer in use is the `b` of a request thread,
  the `resp` of a thread that answers, or the one of a `thread_data` (the error
  buffer or the out buffer), so that `Demand` bounds them. At a get the one asked
  for is not there yet, so the pool has a free buffer and the caller does not wait.
  64 buffers for 16 `thread_data`, 4 request threads and 4 workers, 28 at most,
  is one case.
* `ContentInv`: a buffer not in use is empty, the out buffer of a queued job is
  too, and what a thread answers with holds data of its own client only, nothing
  at all in an error. It needs `OwnClient` and that no buffer has two owners.
  ServerTypes comes with it.
* `RepliesInv`: the client of an entry in service has no reply until its thread
  has passed the write. RepliesAreOwn.
* ServerImplementsService: every step of the server is a step of Service or a
  stutter; `ServerInv`, the conjunction of all parts, gives the guards.

Their assumptions: finitely many clients and threads, at least one worker; pools
as in PoolProofs (SizesAssumption); and that the names the model gives the two
queues are not names of threads (OwnersAssumption). `MaxHold` of the instance is
`MaxTd`, or `MaxBuf + 1`: no limit.

*Only model-checked* is what is temporal: EveryItemTaken, EveryClientServed,
WorkersStop, ShutdownSeen, EveryJobEnds and EveryRequestEnds, because the provers
have no liveness under fairness. All other properties of the runs, the
invariants, OnlyStopRemoves and the refinements, are theorems.

## Findings

1. **A shutdown kills the process** (`main.c:396`): stop entries come from
   `mk_td` and have no pool, `td_pool_join_td` uses the unset `td->tp`. For
   this reason the code after the join of the threads (freeing of the pools and
   of the lists) is not modelled: no run reaches it in a defined state.
2. **The unlocked search** (`work.c:202`): an announce goes on with an entry
   that another worker has removed, down to freed memory, or replies with
   `128 * 0` bytes.
3. **An announce without a key passes the check** (`http.c:405`) if it repeats
   another one, and the worker follows the NULL of the lookup.
4. **128 bytes a peer may be too few** (`torrent.c:223`). A `peer_id` is
   copied undecoded (`http.c:67`) and only its characters are looked at
   (`http.c:107`). With one of more than 24 characters, a port of 5 and an ip of
   15 the reply to the only peer of a swarm is cut off, with more than 27 `snprintf`
   gets a negative rest as a `size_t` and `torrent.c:70` writes "ee" behind the
   allocation. With more peers the headroom of each adds up: five or more may
   all have the longest `peer_id` their array takes (ReplyFits). A swarm where
   counters have more digits is nearer to the limit in the same way.

The following are exceptions that properties state, each with the least that
the code needs to go wrong:

5. *A shutdown signal can be missed* (`main.c:166`): between the test of the
   flag and `poll` without timeout, or when another thread runs the handler. It
   is then seen with the next client (ShutdownSeen).
6. *A stop may remove another peer* (`torrent.c:266`), if the entry it found
   was freed by another stop of its peer and allocated for someone else
   (OnlyStopRemoves, StartListsPeer: only if some peer stops twice). *A start
   may be answered before its peer is listed*, if its search stood on an entry that
   was freed and that another start of the peer has filled in and not yet inserted
   (`work.c:204-205`; StartListsPeer).
7. *`complete` goes below zero* (`torrent.c:271`): a peer that starts with
   nothing left and stops is taken off the completed ones. *`seeders` stays too
   high*: it counts a peer that completes, and stopping that peer takes a
   leecher away (CountsRight, SwarmTypeOK).
8. *A scrape may hide a swarm* (`http.c:45`, `torrent.c:76`): its `info_hash`
   is compared over 256 bytes of which 41 are set. If the others are not zero it
   misses a torrent that is there and puts an empty one before it
   (OneTorrentPerHash, ImplementsRegistry: only with used memory).
9. *A query may be asked for ever* (`db.c:38`): a result other than a row, the
   end, an error or busy is not counted, and every worker waits for the mutex
   (EveryJobEnds).

A limit that the model takes as an assumption: a negative amount is never
refused, since `atoi` is assigned to an unsigned field before it is compared
with 0 (`http.c:126`, `132`, `140`); the model has values that are refused and
values that are not.

## Not modelled

* `bncode.c` formats strings and has no caller. Neither have
  `torrent_remove_torrent`, `torrent_search_torrent`, `workq_dequeue_job`,
  `buffer_alloc_buffer` and `buffer_ncmp_string`.
* `db.c` beyond the loop of its one query: connecting is input and output.
  `mem.c` exits when memory is exhausted.
* Start-up, and the exits on failing socket calls, which end the process.
* The characters of a query: `url_decode`, the splitting at `&` and `=`, the
  conversion of numbers. A pair is a key and a value that is refused or
  not, a malformed line is a choice. An `info_hash` too short to decode leaves
  an old field as it is, which the cache has as any hash.
* The text of replies; they are lengths.
* Everything after the threads have been joined (the freeing of the pools, the
  queues and the torrents), see finding 1: no run reaches it in a defined state.

## Plan

Done, in this order: Pool and its proofs, the queues and their proofs, Server,
Service and the refinements, Swarm, TorrentCache and Registry, Query, Reply,
Buffer, Response and Request, the proofs about them, the proofs about Server and
the service, then the proofs of the remaining safety properties: the history of
the stops, the scrape and the refinement of Registry, the query and the response.
Next, proofs:

1. The two queues of Server as instances of QueueUse, as the pools are of
   PoolUse, so that no wakeup is lost and no entry doubled in the server's own
   queues, with stop entries among them.
2. The safety side of a shutdown: as many stop jobs as workers, each taken once.
3. Starvation in the list of connections under ever new clients, as a run.
