-------------------------------- MODULE Swarm --------------------------------
(***************************************************************************)
(* The peers of one torrent (torrent.c) and the announces that workers     *)
(* handle on it at the same time (work.c, _job_handle_announce).  The list *)
(* of peers is searched without the lock that guards its changes, so the   *)
(* search is modelled entry by entry; what happens under the lock is one   *)
(* step.  Stores are seen in the order of the program.                     *)
(*                                                                         *)
(* An entry is a piece of memory: allocated and filled in, inserted into   *)
(* the list, removed from it, freed, and perhaps allocated again.          *)
(***************************************************************************)
EXTENDS Integers, Sequences, FiniteSets

CONSTANTS Workers,
          Peers,        \* a peer is its pair of ip and port
          Events,       \* the events of the announces
          MaxAnnounces  \* bound: the announces handled

ASSUME SwarmAssumption ==
  /\ IsFiniteSet(Workers) /\ IsFiniteSet(Peers)
  /\ "none" \notin Peers
  /\ Events \subseteq {"start", "stop", "complete", "count"}
  /\ MaxAnnounces \in Nat

VARIABLES peers,      \* the list, from its head
          mem,        \* what each entry's memory is used for
          who,        \* the peer in it, and whether it has something left
          next,       \* where an entry that was removed still points
          seeders, leechers, complete, peerCount,
          working,    \* torrent_list_t.working
          pc, job,    \* where each worker is, and the announce it handles
          pp,         \* the entry its search has come to, or pep, the entry
                      \* it has made; 0 is NULL
          announces,  \* how many more announces may come
          stops,      \* history: the stops each peer has announced
          corrupted   \* memory has been used that must not be

counters == <<seeders, leechers, complete, peerCount>>
list == <<peers, mem, who, next>>
arrivals == <<announces, stops>>

vars == <<list, counters, working, pc, job, pp, arrivals, corrupted>>

\* A peer_entry is allocated for at most one announce each.
Entry == 1..MaxAnnounces

\* What is left is looked at in the announce of a start only.
Request == {r \in [peer : Peers, event : Events, left : {0, 1}] :
              r.event # "start" => r.left = 0}

NoRequest == [peer |-> "none", event |-> "none", left |-> 0]

Init == /\ peers = <<>>
        /\ mem = [e \in Entry |-> "free"]
        /\ who = [e \in Entry |-> [peer |-> "none", left |-> 0]]
        /\ next = [e \in Entry |-> 0]
        /\ seeders = 0 /\ leechers = 0 /\ complete = 0 /\ peerCount = 0
        /\ working = 0
        /\ pc = [w \in Workers |-> "idle"]
        /\ job = [w \in Workers |-> NoRequest]
        /\ pp = [w \in Workers |-> 0]
        /\ announces = MaxAnnounces
        /\ stops = [p \in Peers |-> 0]
        /\ corrupted = FALSE

-----------------------------------------------------------------------------
Goto(w, l) == pc' = [pc EXCEPT ![w] = l]
At(w, l) == ~corrupted /\ pc[w] = l

Listed == {peers[i] : i \in DOMAIN peers}
First == IF peers = <<>> THEN 0 ELSE Head(peers)

Place(e) == CHOOSE i \in DOMAIN peers : peers[i] = e

\* LIST_NEXT of an entry in the list, or of one that was in it.
After(e) == IF e \in Listed
              THEN IF Place(e) = Len(peers) THEN 0 ELSE peers[Place(e) + 1]
              ELSE next[e]

\* LIST_REMOVE.
Without(e) == [i \in 1..(Len(peers) - 1) |->
                 IF i < Place(e) THEN peers[i] ELSE peers[i + 1]]

\* Faulty: the list is not searched again under the lock.
NeverKnown(p) == FALSE

\* peer_search_peer under the lock.
Known(p) == \E e \in Listed : who[e].peer = p

\* torrent_list_workon; the torrent is found, and the search starts at the
\* head of its list.
Announce(w) == /\ At(w, "idle") /\ announces > 0
               /\ announces' = announces - 1
               /\ \E r \in Request :
                    /\ job' = [job EXCEPT ![w] = r]
                    /\ stops' = IF r.event = "stop"
                                  THEN [stops EXCEPT ![r.peer] = @ + 1]
                                  ELSE stops
               /\ working' = working + 1
               /\ pp' = [pp EXCEPT ![w] = First]
               /\ Goto(w, "search")
               /\ UNCHANGED <<list, counters, corrupted>>

\* Memory the worker looks at has been freed: anything may follow.
ReadsFreed(w) == /\ At(w, "search")
                 /\ pp[w] # 0 /\ mem[pp[w]] = "free"
                 /\ corrupted' = TRUE
                 /\ UNCHANGED <<list, counters, working, pc, job, pp, arrivals>>

SearchesOn(w) == /\ At(w, "search")
                 /\ pp[w] # 0 /\ mem[pp[w]] \in {"listed", "removed"}
                 /\ who[pp[w]].peer # job[w].peer
                 /\ pp' = [pp EXCEPT ![w] = After(pp[w])]
                 /\ UNCHANGED <<list, counters, working, pc, job, arrivals,
                                corrupted>>

\* The search stood on an entry that was removed, and that has been allocated
\* again and not been inserted.  Its link was copied from a variable where
\* nobody has set it: NULL, some entry, or no address at all.
Strays(w) == /\ At(w, "search")
             /\ pp[w] # 0 /\ mem[pp[w]] \in {"made", "lost"}
             /\ who[pp[w]].peer # job[w].peer
             /\ \/ /\ \E e \in Entry \cup {0} : pp' = [pp EXCEPT ![w] = e]
                   /\ UNCHANGED corrupted
                \/ /\ corrupted' = TRUE
                   /\ UNCHANGED pp
             /\ UNCHANGED <<list, counters, working, pc, job, arrivals>>

\* Faulty: any peer will do.
FindsAnyone(w) == /\ At(w, "search")
                  /\ pp[w] # 0 /\ mem[pp[w]] # "free"
                  /\ Goto(w, IF job[w].event = "stop" THEN "stop" ELSE "update")
                  /\ UNCHANGED <<list, counters, working, job, pp, arrivals,
                                 corrupted>>

Finds(w) == /\ At(w, "search")
            /\ pp[w] # 0 /\ mem[pp[w]] # "free"
            /\ who[pp[w]].peer = job[w].peer
            /\ Goto(w, IF job[w].event = "stop" THEN "stop" ELSE "update")
            /\ UNCHANGED <<list, counters, working, job, pp, arrivals,
                           corrupted>>

\* Faulty: no jobdone for a peer that is not known.
FindsNothingForgets(w) ==
  /\ At(w, "search")
  /\ pp[w] = 0
  /\ Goto(w, IF job[w].event = "start" THEN "make" ELSE "idle")
  /\ UNCHANGED <<list, counters, working, job, pp, arrivals, corrupted>>

FindsNothing(w) == /\ At(w, "search")
                   /\ pp[w] = 0
                   /\ Goto(w, IF job[w].event = "start" THEN "make" ELSE "done")
                   /\ UNCHANGED <<list, counters, working, job, pp, arrivals,
                                  corrupted>>

\* malloc returns memory that was freed, or some that is new: the new ones are
\* alike, so the first will do.
Allocatable(e) == /\ mem[e] = "free"
                  /\ who[e].peer = "none"
                       => \A d \in 1..(e - 1) : who[d].peer # "none"

\* mk_peer, and the copy of the announce's peer into the entry, without the
\* lock: a search that stands on this memory may match it already.
MakePeer(w) ==
  /\ At(w, "make")
  /\ \E e \in Entry :
       /\ Allocatable(e)
       /\ mem' = [mem EXCEPT ![e] = "made"]
       /\ who' = [who EXCEPT ![e] = [peer |-> job[w].peer,
                                    left |-> job[w].left]]
       /\ pp' = [pp EXCEPT ![w] = e]
  /\ Goto(w, "add")
  /\ UNCHANGED <<peers, next, counters, working, job, arrivals, corrupted>>

\* Faulty: every new peer is counted as a leecher.
InsertLeecher(e) ==
  /\ peers' = <<e>> \o peers
  /\ mem' = [mem EXCEPT ![e] = "listed"]
  /\ peerCount' = peerCount + 1
  /\ leechers' = leechers + 1
  /\ UNCHANGED <<complete, seeders>>

\* LIST_INSERT_HEAD of the entry, and the counters.
Insert(e) ==
  /\ peers' = <<e>> \o peers
  /\ mem' = [mem EXCEPT ![e] = "listed"]
  /\ peerCount' = peerCount + 1
  /\ IF who[e].left = 0
       THEN seeders' = seeders + 1 /\ UNCHANGED leechers
       ELSE leechers' = leechers + 1 /\ UNCHANGED seeders
  /\ UNCHANGED complete

\* torrent_add_peer_and_return_list.  The list is searched again; an entry that
\* is not needed is not freed either.
Add(w) ==
  /\ At(w, "add")
  /\ IF Known(job[w].peer)
       THEN /\ mem' = [mem EXCEPT ![pp[w]] = "lost"]
            /\ UNCHANGED <<peers, counters>>
       ELSE Insert(pp[w])
  /\ Goto(w, "done")
  /\ UNCHANGED <<who, next, working, job, pp, arrivals, corrupted>>

\* torrent_update_peer_and_return_list: the peer itself is left alone.  The
\* reply is written into 128 bytes a peer: none, if there is no peer.
Reply(w, then) == /\ IF peerCount = 0
                       THEN corrupted' = TRUE /\ UNCHANGED pc
                       ELSE Goto(w, then) /\ UNCHANGED corrupted
                  /\ UNCHANGED <<list, working, job, pp, arrivals>>

Update(w) == /\ At(w, "update")
             /\ IF job[w].event = "complete"
                  THEN /\ complete' = complete + 1
                       /\ seeders' = seeders + 1
                       /\ UNCHANGED <<leechers, peerCount>>
                  ELSE UNCHANGED counters
             /\ Reply(w, "done")

UpdateStopped(w) == /\ At(w, "stop")
                    /\ Reply(w, "remove")
                    /\ UNCHANGED counters

\* torrent_remove_peer.  The lock is taken anew: the entry may have been
\* removed, and freed, since the search found it.
Remove(w) ==
  /\ At(w, "remove")
  /\ pp[w] \in Listed
  /\ peers' = Without(pp[w])
  /\ mem' = [mem EXCEPT ![pp[w]] = "removed"]
  /\ next' = [next EXCEPT ![pp[w]] = After(pp[w])]
  /\ peerCount' = peerCount - 1
  /\ IF who[pp[w]].left = 0
       THEN /\ seeders' = seeders - 1
            /\ complete' = complete - 1
            /\ UNCHANGED leechers
       ELSE /\ leechers' = leechers - 1
            /\ UNCHANGED <<seeders, complete>>
  /\ Goto(w, "done")
  /\ UNCHANGED <<who, working, job, pp, arrivals, corrupted>>

RemovesAgain(w) ==
  /\ At(w, "remove")
  /\ pp[w] \notin Listed
  /\ corrupted' = TRUE
  /\ UNCHANGED <<list, counters, working, pc, job, pp, arrivals>>

\* The handler returns, and its variables with it.
Return(w) == /\ Goto(w, "idle")
             /\ job' = [job EXCEPT ![w] = NoRequest]
             /\ pp' = [pp EXCEPT ![w] = 0]

\* torrent_list_jobdone, on every path; only the announce that stopped its
\* peer goes on to free_peer.
Done(w) ==
  /\ At(w, "done")
  /\ working' = working - 1
  /\ IF job[w].event = "stop" /\ pp[w] # 0
       THEN Goto(w, "free") /\ UNCHANGED <<job, pp>>
       ELSE Return(w)
  /\ UNCHANGED <<list, counters, arrivals, corrupted>>

\* Nobody sets or follows the link of memory that is free.
Free(w) == /\ At(w, "free")
           /\ mem' = [mem EXCEPT ![pp[w]] = "free"]
           /\ next' = [next EXCEPT ![pp[w]] = 0]
           /\ Return(w)
           /\ UNCHANGED <<peers, who, counters, working, arrivals, corrupted>>

WorkerNext(w) ==
  \/ Announce(w) \/ ReadsFreed(w) \/ SearchesOn(w) \/ Strays(w) \/ Finds(w)
  \/ FindsNothing(w) \/ MakePeer(w) \/ Add(w) \/ Update(w)
  \/ UpdateStopped(w) \/ Remove(w) \/ RemovesAgain(w) \/ Done(w) \/ Free(w)

Next == \E w \in Workers : WorkerNext(w)

Spec == Init /\ [][Next]_vars

-----------------------------------------------------------------------------
\* The variables have their types; no counter but complete goes below zero.
SwarmTypeOK ==
  /\ peers \in Seq(Entry)
  /\ mem \in [Entry -> {"free", "made", "listed", "removed", "lost"}]
  /\ next \in [Entry -> Entry \cup {0}]
  /\ seeders \in Nat /\ leechers \in Nat /\ peerCount \in Nat
  /\ complete \in Int
  /\ pp \in [Workers -> Entry \cup {0}]

\* A peer is in the list once, although two workers may both have searched
\* for it in vain before either takes the lock.
NoDuplicates == /\ \A d, e \in Listed : who[d].peer = who[e].peer => d = e
                /\ Cardinality(Listed) = Len(peers)

\* The counters agree with the list, whatever the events: peer_count with its
\* length, leechers with the peers that had something left when they started.
\* seeders also counts the peers that complete, and is never taken back.
CountsRight == /\ peerCount = Cardinality(Listed)
               /\ leechers = Cardinality({e \in Listed : who[e].left # 0})
               /\ seeders >= Cardinality({e \in Listed : who[e].left = 0})

\* Every path of the handler calls torrent_list_jobdone once, or a removal of
\* the torrent would wait for ever (or not wait).
WorkingBalanced ==
  working = Cardinality({w \in Workers : pc[w] \notin {"idle", "free"}})

\* A start of the peer has made an entry and is about to insert it.
BeingAdded(p) == \E w \in Workers : pc[w] = "add" /\ job[w].peer = p

\* When the announce of a start is handled its peer is in the list, or will be
\* when another start of it, that is at work, gets the lock; whichever of the
\* workers that handle its starts has added it, and whatever entries of others
\* were inserted, removed and used again during the search without the lock.
\* (The second case: the search stood on an entry that a stop of another peer
\* removed and freed, and that the other start has allocated and filled in.)
\* Two cases are excepted: the peer has announced a stop itself, or some peer
\* has announced two (see OnlyStopRemoves).
StartListsPeer ==
  \A w \in Workers :
    pc[w] = "done" /\ job[w].event = "start" /\ stops[job[w].peer] = 0
      => \/ Known(job[w].peer)
         \/ BeingAdded(job[w].peer)
         \/ \E p \in Peers : stops[p] > 1

\* What the comments call the critical section of the search (torrent.c:165)
\* is one: what the search has found is still there when it is used, so nobody
\* reads an entry that is freed, follows the link of one that is not in the list,
\* removes one twice or before it is in, or replies with the peers of a list that
\* has become empty into an allocation of no bytes.
ListSound == ~corrupted

\* A peer leaves the list by its own stop: "assert pe is correct"
\* (torrent.c:265), where nothing is asserted.  The one exception are two stops
\* of some peer: the second has a pointer to an entry that the first has freed,
\* and that may be another peer's by then.
OnlyStopRemoves ==
  [][\A e \in Listed \ Listed' :
       \/ \E w \in Workers : /\ pc[w] = "remove" /\ pp[w] = e
                             /\ job[w].event = "stop"
                             /\ job[w].peer = who[e].peer
       \/ \E p \in Peers : stops[p] > 1]_vars
=============================================================================
