--------------------------------- MODULE Reply ---------------------------------
(***************************************************************************)
(* The bencoded lists of peers and of scraped torrents (torrent.c), printed *)
(* piece by piece into an allocation of 128 bytes an entry.  A piece is its *)
(* length.  The list of peers is printed with snprintf, which is given what *)
(* is left of the allocation, the scrape with sprintf.  Nothing bounds a    *)
(* peer_id but the pairs of the query it came in, where it is not decoded, *)
(* so the allocation may be too small.                                     *)
(***************************************************************************)
EXTENDS Stage, Integers

CONSTANTS PeerDigits,     \* bytes in the numbers and strings of a peer's dict
          HeaderDigits,   \* digits of seeders and leechers together
          ScrapeDigits,   \* digits of the three numbers of a torrent
          MaxWant         \* T_MAX_NUMWANT

\* A peer is printed with its port, ip and peer_id and the lengths of the two,
\* whatever they are.  A counter is an int of up to 11 characters.
ASSUME ReplyAssumption ==
  /\ PeerDigits \subseteq Nat
  /\ HeaderDigits \subseteq 0..22 /\ ScrapeDigits \subseteq 0..33
  /\ MaxWant \in Nat

VARIABLES list,     \* what is printed: "peers" or "torrents"
          count,    \* peer_count, or the size of the scrape
          listed,   \* the entries printed
          printed,  \* written
          end,      \* how far the allocation has been written to
          cut,      \* something was left out for want of room
          short,    \* history: the peers and counters printed are short ones
          held      \* history: the peer_ids printed fit peer_entry.peer_id

replyVars == <<list, count, listed, printed, end, cut, short, held>>

NoReply == /\ list = "peers" /\ count = 0 /\ listed = 0
           /\ printed = 0 /\ end = 0 /\ cut = FALSE
           /\ short = TRUE /\ held = TRUE

\* A port has up to 5 digits and an ip up to 15; each length has two, as the
\* peer_id has 20 characters, or fits its array with the NUL.
ShortPeer == 5 + 2 + 20 + 2 + 15
HeldPeer == 5 + 2 + 63 + 2 + 15

\* The digits of seeders and leechers together, for one peer in a swarm where no
\* more than 99999 have completed.
ShortHeader == 6

-----------------------------------------------------------------------------
PerEntry == 128

\* Faulty: it is made for the peers there were before this one.
AllocationBefore == PerEntry * (count - 1)

Allocation == PerEntry * count

\* snprintf(p+written, out_size - written, ...): the rest is a size_t, so that
\* a negative one limits nothing.  It returns the length of the whole piece.
SnPrint(len) ==
  LET rest == Allocation - printed
      fits == len < rest \/ rest < 0
  IN  /\ printed' = printed + len
      /\ end' = IF rest = 0 THEN end
                ELSE IF fits THEN printed + len + 1 ELSE Allocation
      /\ cut' = (cut \/ ~fits)

\* The list of peers is a string: cut off, it ends with the allocation.
Text == IF cut THEN Allocation - 1 ELSE printed

\* sprintf(p+written, ...).
SPrint(len) == /\ printed' = printed + len
              /\ end' = printed + len + 1
              /\ UNCHANGED cut

BeginPeers(n) == /\ list' = "peers" /\ count' = n /\ listed' = 0
                 /\ printed' = 0 /\ end' = 0 /\ cut' = FALSE
                 /\ short' = TRUE /\ held' = TRUE

BeginTorrents(n) == /\ list' = "torrents" /\ count' = n /\ listed' = 0
                    /\ printed' = 0 /\ end' = 0 /\ cut' = FALSE
                    /\ short' = TRUE /\ held' = TRUE

PrintHeader(d) == /\ SnPrint(50 + d)
                  /\ short' = (short /\ d <= ShortHeader)
                  /\ UNCHANGED held

Header == /\ stage = "header"
          /\ stage' = "entries"
          /\ IF list = "peers" THEN \E d \in HeaderDigits : PrintHeader(d)
                               ELSE SPrint(9) /\ UNCHANGED <<short, held>>
          /\ UNCHANGED <<list, count, listed>>

More == listed < count /\ (list = "peers" => listed < MaxWant)

PrintPeer(d) == /\ SnPrint(25 + d)
                /\ short' = (short /\ d <= ShortPeer)
                /\ held' = (held /\ d <= HeldPeer)

\* The 20 bytes of the hash are copied between two prints.
PrintTorrent(d) == SPrint(67 + d) /\ UNCHANGED <<short, held>>

Entry == /\ stage = "entries" /\ More
         /\ listed' = listed + 1
         /\ IF list = "peers" THEN \E d \in PeerDigits : PrintPeer(d)
                              ELSE \E d \in ScrapeDigits : PrintTorrent(d)
         /\ UNCHANGED <<stage, list, count>>

\* The last print of the peers is not added to written; the text ends there
\* all the same.
Close == /\ stage = "entries" /\ ~More
         /\ stage' = "listed"
         /\ IF list = "peers" THEN SnPrint(2) ELSE SPrint(2)
         /\ UNCHANGED <<list, count, listed, short, held>>

\* What is behind the allocation has been written over: the process may go on
\* or die of it.
Overrun == /\ stage \in {"entries", "listed"} /\ end > Allocation
           /\ stage' = "overrun"
           /\ UNCHANGED replyVars

PrintReply == Header \/ Entry \/ Close \/ Overrun

-----------------------------------------------------------------------------
\* The peers printed are short, or enough and no longer than what holds them.
Bounded == list = "peers" => short \/ (count >= 5 /\ held)

\* Nothing is written behind the allocation or cut off at its end: in a scrape
\* of any torrents, in a list of peers that are short, as few as they are, and
\* in one of five peers or more whose peer_ids fit the array they are kept in.
\* (Four of these may be too long, and so may one.)
ReplyFits == stage \in {"header", "entries", "listed"} /\ Bounded =>
               end <= Allocation /\ ~cut

\* "128 is just a big number, nothing special about that" (torrent.c:223): it
\* is big enough, whatever is in the list.
BigEnough == stage \in {"header", "entries", "listed"} =>
               end <= Allocation /\ ~cut
=============================================================================
