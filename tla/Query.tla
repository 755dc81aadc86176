--------------------------------- MODULE Query ---------------------------------
(***************************************************************************)
(* The query of a request (http.c): its pairs are read into a list, its    *)
(* keys are checked, and from an announce the worker builds a peer_req and *)
(* validates it.  A value is one that sanitize_peer_req refuses (Wrong) or *)
(* one that it accepts.                                                    *)
(***************************************************************************)
EXTENDS Stage, Integers, Sequences, FiniteSets

CONSTANTS Required,  \* the keys an announce needs; HTTP_MAX_KEYS of them
          Pairs,     \* the pairs of a key and a value
          Wrong,     \* those whose value is refused
          Order,     \* the keys in the order in which they are validated
          MaxPairs   \* bound: the pairs of a query

ASSUME QueryAssumption ==
  /\ IsFiniteSet(Required)
  /\ "info_hash" \in Required /\ "event" \notin Required
  /\ Wrong \subseteq Pairs
  /\ MaxPairs \in Nat

VARIABLES type,
          pairs,   \* the http_kv_list, from its first entry
          sent,    \* history: the pairs in the order of the query
          request, \* the pairs that the peer_req is built from
          error    \* the key that sanitize_peer_req complains of

queryVars == <<type, pairs, sent, request, error>>

NoQuery == /\ type = "announce"
           /\ pairs = <<>> /\ sent = <<>>
           /\ request = {} /\ error = "none"

-----------------------------------------------------------------------------
\* http_parse_job_from_request, of a request that is one.
Start(t) == /\ stage = "idle"
            /\ stage' = "reading" /\ type' = t
            /\ UNCHANGED <<pairs, sent, request, error>>

\* Faulty: the list is in the order of the query.
ReadPairAtEnd(p) == /\ stage = "reading" /\ Len(pairs) < MaxPairs
                    /\ pairs' = Append(pairs, p)
                    /\ sent' = Append(sent, p)
                    /\ UNCHANGED <<stage, type, request, error>>

ReadPair(p) == /\ stage = "reading" /\ Len(pairs) < MaxPairs
               /\ pairs' = <<p>> \o pairs
               /\ sent' = Append(sent, p)
               /\ UNCHANGED <<stage, type, request, error>>

\* No end of the line, no HTTP version, or a pair without a key.
Malformed == /\ stage = "reading"
             /\ stage' = "malformed"
             /\ UNCHANGED queryVars

Has(k) == \E i \in DOMAIN pairs : pairs[i].key = k

\* http_lookup_kv_key: the entry nearest the head.
Lookup(k) == CHOOSE p \in {pairs[i] : i \in DOMAIN pairs} :
               \E i \in DOMAIN pairs :
                 /\ pairs[i] = p /\ p.key = k
                 /\ \A j \in 1..(i - 1) : pairs[j].key # k

\* Faulty: optional keys are counted as well.
AnyFound == Len(pairs)

\* The entries whose key is one of keys[].
Found == Cardinality({i \in DOMAIN pairs : pairs[i].key \in Required})

\* The checks at the end of http_parse_query.
KeysPass == IF type = "announce"
              THEN Found >= Cardinality(Required)
              ELSE \A i \in DOMAIN pairs : pairs[i].key = "info_hash"

\* The loop reads at least one pair: what follows the path is one.
Check == /\ stage = "reading" /\ pairs # <<>>
         /\ stage' = IF KeysPass THEN "checked" ELSE "refused"
         /\ UNCHANGED queryVars

\* http_build_peer_req; a key that is not there is a NULL that is followed.
Build == /\ stage = "checked" /\ type = "announce"
         /\ IF \A k \in Required : Has(k)
              THEN /\ stage' = "built"
                   /\ request' = {Lookup(k) : k \in
                                    {k \in Required \cup {"event"} : Has(k)}}
              ELSE /\ stage' = "crashed"
                   /\ UNCHANGED request
         /\ UNCHANGED <<type, pairs, sent, error>>

RefusedKeys == {p.key : p \in request \cap Wrong}

\* sanitize_peer_req.
Sanitize == /\ stage = "built"
            /\ IF RefusedKeys = {}
                 THEN stage' = "valid" /\ UNCHANGED error
                 ELSE /\ stage' = "invalid"
                      /\ \E i \in DOMAIN Order :
                           /\ Order[i] \in RefusedKeys
                           /\ \A j \in 1..(i - 1) : Order[j] \notin RefusedKeys
                           /\ error' = Order[i]
            /\ UNCHANGED <<type, pairs, sent, request>>

ReadQuery == \/ \E p \in Pairs : ReadPair(p)
             \/ Malformed \/ Check \/ Build \/ Sanitize

-----------------------------------------------------------------------------
\* What a query says of a key: its last pair with that key.
LastSaid(p) == \E i \in DOMAIN sent : /\ sent[i] = p
                                      /\ \A j \in (i + 1)..Len(sent) :
                                           sent[j].key # p.key

Said(k) == \E i \in DOMAIN sent : sent[i].key = k

\* The check of the keys at the end of the parsing against what the worker does
\* with them: no announce that has all the keys is refused, however they are
\* ordered, repeated and mixed with others, and the worker follows a NULL only
\* for one that repeats one of the keys while another is missing, which the
\* count of http.c:405 does not tell apart.
CheckIsRight ==
  /\ stage = "refused" /\ type = "announce" => \E k \in Required : ~Said(k)
  /\ stage = "crashed" =>
       /\ \E k \in Required : ~Said(k)
       /\ \E i, j \in DOMAIN sent :
            i # j /\ sent[i].key = sent[j].key /\ sent[i].key \in Required

\* An announce that comes through the check, the building and the validation
\* has said something of every key, and what it has said last, of these keys
\* and of the event, is right.
ValidIsRight ==
  stage = "valid" =>
    /\ \A k \in Required : Said(k)
    /\ \A p \in Pairs : p.key \in Required \cup {"event"} /\ LastSaid(p)
                          => p \notin Wrong

\* "I want all the keys listed before if announce" (http.c:404): an announce
\* that passes the check has all of them.
AllKeysListed == stage = "checked" /\ type = "announce" => \A k \in Required : Has(k)
=============================================================================
