------------------------------- MODULE Registry --------------------------------
(***************************************************************************)
(* What the cache of torrents promises the peers: there is one swarm for   *)
(* each info_hash, each announce takes effect on it once, at one moment    *)
(* between its beginning and its end, and nothing else changes it.  An     *)
(* announce is refused only while nobody is in the swarm.                  *)
(*                                                                         *)
(* The exception are lookups that may miss a torrent that is there: they   *)
(* lose its swarm, and announces that were on their way to it.             *)
(***************************************************************************)
CONSTANTS Workers, Hashes, Announces,
          After(_, _),  \* the swarm an announce makes of another
          MayMiss       \* whether there are lookups that may miss

VARIABLES swarmOf,
          asked,    \* the announce of each worker, if it has one, that is
                    \* still to take effect
          reloaded  \* the hashes that a lookup that may miss has loaded

Init == /\ swarmOf = [h \in Hashes |-> {}]
        /\ asked = [w \in Workers |-> {}]
        /\ reloaded = {}

Ask(w) == /\ asked[w] = {}
          /\ \E h \in Hashes, j \in Announces :
               asked' = [asked EXCEPT ![w] = {[hash |-> h, announce |-> j]}]
          /\ UNCHANGED <<swarmOf, reloaded>>

Ends(w) == /\ asked' = [asked EXCEPT ![w] = {}]
           /\ UNCHANGED reloaded

Apply(w) == \E a \in asked[w] :
              /\ Ends(w)
              /\ swarmOf' = [swarmOf EXCEPT ![a.hash] = After(a.announce, @)]

Lose(w) == \E a \in asked[w] :
             /\ Ends(w)
             /\ a.hash \in reloaded
             /\ UNCHANGED swarmOf

Refuse(w) == \E a \in asked[w] :
               /\ Ends(w)
               /\ swarmOf[a.hash] = {}
               /\ UNCHANGED swarmOf

Reload(h) == /\ MayMiss
             /\ swarmOf' = [swarmOf EXCEPT ![h] = {}]
             /\ reloaded' = reloaded \cup {h}
             /\ UNCHANGED asked

Next == \/ \E w \in Workers : Ask(w) \/ Apply(w) \/ Lose(w) \/ Refuse(w)
        \/ \E h \in Hashes : Reload(h)

Spec == Init /\ [][Next]_<<swarmOf, asked, reloaded>>
=============================================================================
