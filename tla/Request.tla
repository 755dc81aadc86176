-------------------------------- MODULE Request --------------------------------
(***************************************************************************)
(* One request after another on its way from the query to the response:    *)
(* the request thread reads and checks the query (Query), the worker       *)
(* validates it and prints its reply (Reply), and whoever answers puts the *)
(* response together and writes it (Response).  Each takes over from the   *)
(* one before through the job, so there is one stage at a time.  The two   *)
(* buffers keep their size from one request to the next.                   *)
(*                                                                         *)
(* Whether the torrent is found, and how many peers there are, is a        *)
(* choice; see TorrentCache and Swarm.                                     *)
(***************************************************************************)
EXTENDS Query, Reply, Response

CONSTANTS MaxPeers,    \* bound: the peers of a swarm
          MaxRequests  \* bound: the requests handled

ASSUME RequestAssumption == MaxPeers \in Nat /\ MaxRequests \in Nat

VARIABLES answer,   \* what kind of reply the request has led to
          requests  \* how many more may come

vars == <<stage, queryVars, replyVars, responseVars, answer, requests>>

Init == /\ stage = "idle"
        /\ NoQuery /\ NoReply /\ NoResponse
        /\ body = Made /\ resp = Made
        /\ answer = "none"
        /\ requests = MaxRequests

-----------------------------------------------------------------------------
Begin == /\ requests > 0
         /\ requests' = requests - 1
         /\ \E t \in {"announce", "scrape"} : Start(t)
         /\ UNCHANGED <<replyVars, responseVars, answer>>

Read == /\ ReadQuery
        /\ UNCHANGED <<replyVars, responseVars, answer, requests>>

\* Nothing but the reply is looked at from here on.
Forget == /\ type' = "announce" /\ pairs' = <<>> /\ sent' = <<>>
          /\ request' = {} /\ error' = "none"

\* The reply is made of strings that are appended to the body one by one.
Answer(kind, status, strings) ==
  /\ stage' = "body"
  /\ answer' = kind
  /\ code' = status
  /\ pending' = strings
  /\ UNCHANGED <<body, resp, announced, written, tries, got, skewed, requests>>

\* http_error: "d14:failure reason11:query errore".
QueryError == /\ stage \in {"malformed", "refused"}
              /\ Answer("query error", 400, <<33>>)
              /\ Forget
              /\ UNCHANGED replyVars

Message(k) == CASE k = "info_hash"  -> 14 [] k = "peer_id"  -> 15
                [] k = "port"       -> 12 [] k = "downloaded" -> 24
                [] k = "uploaded"   -> 22 [] k = "left"     -> 18
                [] k = "event"      -> 13 [] OTHER          -> 13

\* torrent_msg_failure_generic, with the length and a colon before the message.
FailureGeneric == /\ stage = "invalid"
                  /\ Answer("failure", 200, <<18, Message(error) + 3, 1>>)
                  /\ Forget
                  /\ UNCHANGED replyVars

Wanted == stage = "valid" \/ (stage = "checked" /\ type = "scrape")

\* torrent_msg_failure_missing_hash.
MissingHash == /\ Wanted
               /\ Answer("missing", 200, <<51>>)
               /\ Forget
               /\ UNCHANGED replyVars

\* An unknown peer that does not start gets an empty reply.
EmptyReply == /\ stage = "valid"
              /\ Answer("empty", 200, <<>>)
              /\ Forget
              /\ UNCHANGED replyVars

ListPeers == /\ stage = "valid"
             /\ stage' = "header"
             /\ \E n \in 1..MaxPeers : BeginPeers(n)
             /\ Forget
             /\ UNCHANGED <<responseVars, answer, requests>>

ListTorrents == /\ stage = "checked" /\ type = "scrape"
                /\ stage' = "header"
                /\ BeginTorrents(Len(pairs))
                /\ Forget
                /\ UNCHANGED <<responseVars, answer, requests>>

List == /\ PrintReply
        /\ UNCHANGED <<queryVars, responseVars, answer, requests>>

\* The peers are appended as a string, the torrents are written over whatever
\* the body has.
Listed == /\ stage = "listed"
          /\ IF list = "peers"
               THEN Answer("list", 200, <<Text>>)
               ELSE /\ stage' = "body" /\ answer' = "list" /\ code' = 200
                    /\ body' = WriteOver(body, printed)
                    /\ UNCHANGED <<resp, pending, announced, written, tries, got,
                                   skewed, requests>>
          /\ UNCHANGED <<queryVars, replyVars>>

Send == /\ Respond
         /\ UNCHANGED <<queryVars, replyVars, answer, requests>>

\* Faulty: a buffer goes back to the pool as it is.
CompleteKeepsBody ==
  /\ stage \in {"sent", "given up"}
  /\ stage' = "idle"
  /\ resp' = Zeroed(resp)
  /\ list' = "peers" /\ count' = 0 /\ listed' = 0
  /\ printed' = 0 /\ end' = 0 /\ cut' = FALSE
  /\ short' = TRUE /\ held' = TRUE
  /\ code' = 0 /\ pending' = <<>> /\ announced' = 0
  /\ written' = 0 /\ tries' = 0 /\ got' = 0 /\ skewed' = FALSE
  /\ answer' = "none"
  /\ UNCHANGED <<queryVars, body, requests>>

\* job_complete, or the end of handle_req: both buffers are given back, and the
\* pool empties them.
Complete == /\ stage \in {"sent", "given up"}
            /\ stage' = "idle"
            /\ body' = Zeroed(body) /\ resp' = Zeroed(resp)
            /\ list' = "peers" /\ count' = 0 /\ listed' = 0
            /\ printed' = 0 /\ end' = 0 /\ cut' = FALSE
            /\ short' = TRUE /\ held' = TRUE
            /\ code' = 0 /\ pending' = <<>> /\ announced' = 0
            /\ written' = 0 /\ tries' = 0 /\ got' = 0 /\ skewed' = FALSE
            /\ answer' = "none"
            /\ UNCHANGED <<queryVars, requests>>

Handle == \/ Read
          \/ QueryError \/ FailureGeneric \/ MissingHash \/ EmptyReply
          \/ ListPeers \/ ListTorrents \/ List \/ Listed
          \/ Send \/ Complete

Next == Begin \/ Handle

Spec == Init /\ [][Next]_vars

\* The thread that has the request in its hands goes on with it, and a write
\* returns.
FairSpec == Spec /\ WF_vars(Handle)

-----------------------------------------------------------------------------
\* The variables have their types, and what belongs to one stage is put away
\* when the request leaves it.
RequestTypeOK ==
  /\ stage \in {"idle", "reading", "malformed", "refused", "checked", "crashed",
                "built", "valid", "invalid", "header", "entries", "listed",
                "overrun", "body", "headers", "write", "sent", "given up"}
  /\ pairs \in Seq(Pairs) /\ sent \in Seq(Pairs) /\ Len(pairs) = Len(sent)
  /\ request \subseteq Pairs
  /\ body \in Buffers /\ resp \in Buffers
  /\ pending \in Seq(Nat)
  /\ code \in {0, 200, 400}
  /\ written \in Nat /\ got \in Nat /\ tries \in 0..MaxFailures
  /\ stage = "idle" => body.cursor = 0 /\ resp.cursor = 0 /\ pending = <<>>

\* The content-length announced is that of the reply to this very request, on
\* each of the ways to a reply, and of nothing that a buffer was used for
\* before.
AnnouncesTheReply ==
  stage \in {"headers", "write", "sent", "given up"} =>
    announced \in (CASE answer = "query error" -> {33}
                     [] answer = "missing"     -> {51}
                     [] answer = "failure"     -> 34..46
                     [] answer = "empty"       -> {0}
                     [] answer = "list"        -> {Text})

\* A request that has been begun is answered or given up in the end, unless the
\* process dies.
EveryRequestEnds == stage = "reading" ~> stage \in {"idle", "crashed", "overrun"}
=============================================================================
