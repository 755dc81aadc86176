---------------------------- MODULE RequestProofs ----------------------------
(***************************************************************************)
(* Proofs about the requests: for any keys, pairs and peers, any           *)
(* BUFFER_SIZE and any way a socket takes the response.                    *)
(***************************************************************************)
EXTENDS Request, BufferProofs, FiniteSetTheorems, SequenceTheorems,
        WellFoundedInduction, TLAPS

-----------------------------------------------------------------------------
(* The list of pairs.                                                      *)

\* A set of numbers has a least one.
LEMMA LeastExists ==
  ASSUME NEW T, T \subseteq Nat, T # {}
  PROVE  \E i \in T : \A j \in T : i <= j
<1>1. PICK i \in T : \A j \in T : ~ (<<j, i>> \in OpToRel(<, Nat))
  BY NatLessThanWellFounded, WFMin
<1>2. \A j \in T : ~ (j < i)
  BY <1>1 DEF OpToRel
<1> QED
  BY <1>2

\* http_lookup_kv_key finds the first entry with the key if there is one.
LEMMA LookupIsFirst ==
  ASSUME NEW S, pairs \in Seq(S), NEW k, Has(k)
  PROVE  \E i \in DOMAIN pairs :
           /\ pairs[i] = Lookup(k) /\ pairs[i].key = k
           /\ \A j \in 1..(i - 1) : pairs[j].key # k
<1> DEFINE T == {i \in DOMAIN pairs : pairs[i].key = k}
<1>1. DOMAIN pairs = 1..Len(pairs) /\ Len(pairs) \in Nat
  BY LenProperties
<1>2. T \subseteq Nat /\ T # {}
  BY <1>1 DEF Has
<1>3. PICK i \in T : \A j \in T : i <= j
  BY <1>2, LeastExists
<1>4. \A j \in 1..(i - 1) : pairs[j].key # k
  <2> SUFFICES ASSUME NEW j \in 1..(i - 1), pairs[j].key = k PROVE FALSE
    OBVIOUS
  <2>1. j \in T
    BY <1>1, <1>3
  <2> QED
    BY <1>1, <1>3, <2>1
<1>5. \E p \in {pairs[m] : m \in DOMAIN pairs} :
        \E m \in DOMAIN pairs :
          /\ pairs[m] = p /\ p.key = k
          /\ \A j \in 1..(m - 1) : pairs[j].key # k
  BY <1>3, <1>4
<1>6. \E m \in DOMAIN pairs :
        /\ pairs[m] = Lookup(k) /\ Lookup(k).key = k
        /\ \A j \in 1..(m - 1) : pairs[j].key # k
  BY <1>5, Zenon DEF Lookup
<1> QED
  BY <1>6

-----------------------------------------------------------------------------
(* The invariant, in one part for each of the modules.                     *)

QueryInv ==
  /\ pairs \in Seq(Pairs) /\ sent \in Seq(Pairs) /\ Len(pairs) = Len(sent)
  /\ request \subseteq Pairs
  /\ stage = "checked" => pairs # <<>>

\* How much is printed after so many torrents, short peers and peers whose
\* peer_ids fit their array; with it ReplyFits is inductive.
Within(p, n) == /\ list = "torrents" => p <= 9 + 100 * n
                /\ list = "peers" /\ short => p <= 56 + 69 * n
                /\ list = "peers" /\ held => p <= 72 + 112 * n

\* A list that is not cut off has left a byte of the allocation for its NUL.
ReplyInv ==
  /\ printed \in Nat /\ count \in Nat
  /\ cut \in BOOLEAN /\ short \in BOOLEAN /\ held \in BOOLEAN
  /\ stage \in {"header", "entries", "listed"} =>
       /\ list \in {"peers", "torrents"}
       /\ count # 0 /\ listed \in 0..count
       /\ end \in Nat
       /\ ~cut => printed < 128 * count
       /\ list = "torrents" => ~cut
       /\ Bounded => ~cut /\ end <= 128 * count
  /\ stage = "header" => printed = 0 /\ end = 0 /\ listed = 0 /\ ~cut
  /\ stage = "entries" => Within(printed, listed)

ResponseInv ==
  /\ body \in Buffers /\ resp \in Buffers
  /\ pending \in Seq(Nat)
  /\ code \in {0, 200, 400}
  /\ written \in Nat /\ got \in Nat /\ tries \in 0..MaxFailures
  /\ stage = "write" => tries # 0
  /\ stage = "idle" => body.cursor = 0 /\ resp.cursor = 0 /\ pending = <<>>
  /\ stage \in {"write", "sent", "given up"} =>
       /\ skewed = FALSE /\ got = written /\ got <= resp.cursor

Stages == {"idle", "reading", "malformed", "refused", "checked", "crashed",
           "built", "valid", "invalid", "header", "entries", "listed",
           "overrun", "body", "headers", "write", "sent", "given up"}

RequestInv == stage \in Stages /\ QueryInv /\ ReplyInv /\ ResponseInv

-----------------------------------------------------------------------------
(* The query.                                                              *)

\* A step of http_parse_query, http_build_peer_req or sanitize_peer_req keeps
\* the invariant: the peer_req is built from pairs of the query.
LEMMA ReadKeeps == RequestInv /\ Read => RequestInv'
<1> SUFFICES ASSUME RequestInv, Read PROVE RequestInv'
  OBVIOUS
<1> USE DEF RequestInv
<1>1. stage \in {"reading", "checked", "built"}
  BY DEF Read, ReadQuery, ReadPair, Malformed, Check, Build, Sanitize
<1>2. stage' \in {"reading", "malformed", "refused", "checked", "built",
                  "crashed", "valid", "invalid"}
  BY <1>1 DEF Read, ReadQuery, ReadPair, Malformed, Check, Build, Sanitize
<1>3. ReplyInv'
  BY <1>1, <1>2 DEF Read, replyVars, ReplyInv
<1>4. ResponseInv'
  BY <1>1, <1>2 DEF Read, responseVars, writeVars, ResponseInv
<1>5. QueryInv'
  <2>1. ASSUME NEW p \in Pairs, ReadPair(p) PROVE QueryInv'
    <3>1. <<p>> \in Seq(Pairs) /\ Len(<<p>>) = 1
      OBVIOUS
    <3>2. /\ <<p>> \o pairs \in Seq(Pairs)
          /\ Len(<<p>> \o pairs) = 1 + Len(pairs)
      BY <3>1, ConcatProperties DEF QueryInv
    <3>3. /\ Append(sent, p) \in Seq(Pairs)
          /\ Len(Append(sent, p)) = Len(sent) + 1
      BY AppendProperties DEF QueryInv
    <3>4. Len(pairs) \in Nat
      BY LenProperties DEF QueryInv
    <3> QED
      BY <2>1, <3>2, <3>3, <3>4 DEF ReadPair, QueryInv
  <2>2. CASE Malformed
    BY <2>2 DEF Malformed, queryVars, QueryInv
  <2>3. CASE Check
    BY <2>3 DEF Check, queryVars, QueryInv
  <2>4. CASE Build
    <3>1. ASSUME NEW k, Has(k) PROVE Lookup(k) \in Pairs
      BY <3>1, LookupIsFirst, LenProperties, ElementOfSeq DEF QueryInv
    <3>2. {Lookup(k) : k \in {k \in Required \cup {"event"} : Has(k)}}
            \subseteq Pairs
      BY <3>1
    <3> QED
      BY <2>4, <3>2 DEF Build, QueryInv
  <2>5. CASE Sanitize
    BY <2>5 DEF Sanitize, QueryInv
  <2> QED
    BY <2>1, <2>2, <2>3, <2>4, <2>5 DEF Read, ReadQuery
<1> QED
  BY <1>2, <1>3, <1>4, <1>5 DEF Stages

-----------------------------------------------------------------------------
(* The answers.                                                            *)

\* The strings of an answer have lengths, and nothing else of the response has
\* begun.
LEMMA AnswerKeeps ==
  ASSUME RequestInv, stage' = "body", code' \in {200, 400},
         pending' \in Seq(Nat),
         UNCHANGED <<body, resp, announced, written, tries, got, skewed>>
  PROVE  ResponseInv'
<1>1. /\ body \in Buffers /\ resp \in Buffers /\ written \in Nat /\ got \in Nat
      /\ tries \in 0..MaxFailures
  BY DEF RequestInv, ResponseInv
<1> QED
  BY <1>1 DEF ResponseInv

\* The peer_req and the pairs are put away.
LEMMA ForgetKeeps ==
  ASSUME Forget, stage' # "checked" PROVE QueryInv'
<1>1. pairs' = <<>> /\ sent' = <<>> /\ request' = {}
  BY DEF Forget
<1>2. <<>> \in Seq(Pairs)
  OBVIOUS
<1>3. request' \subseteq Pairs
  BY <1>1
<1> QED
  BY <1>1, <1>2, <1>3 DEF QueryInv

\* Every failure the tracker answers with keeps the invariant.
LEMMA FailureKeeps ==
  RequestInv /\ (QueryError \/ FailureGeneric \/ MissingHash \/ EmptyReply)
    => RequestInv'
<1> SUFFICES ASSUME RequestInv,
                    QueryError \/ FailureGeneric \/ MissingHash \/ EmptyReply
             PROVE  RequestInv'
  OBVIOUS
<1> USE DEF RequestInv
<1>1. stage' = "body" /\ Forget /\ UNCHANGED replyVars
  BY DEF QueryError, FailureGeneric, MissingHash, EmptyReply, Answer
<1>2. QueryInv'
  BY <1>1, ForgetKeeps
<1>3. ReplyInv'
  BY <1>1 DEF replyVars, ReplyInv
<1>4. ResponseInv'
  <2>1. /\ code' \in {200, 400}
        /\ UNCHANGED <<body, resp, announced, written, tries, got, skewed>>
    BY DEF QueryError, FailureGeneric, MissingHash, EmptyReply, Answer
  <2>2. pending' \in Seq(Nat)
    <3>1. CASE QueryError
      <4>1. pending' = <<33>>
        BY <3>1 DEF QueryError, Answer
      <4>2. <<33>> \in Seq(Nat)
        OBVIOUS
      <4> QED
        BY <4>1, <4>2
    <3>2. CASE FailureGeneric
      <4>1. Message(error) \in Nat
        BY DEF Message
      <4>2. <<18, Message(error) + 3, 1>> \in Seq(Nat)
        BY <4>1
      <4>3. pending' = <<18, Message(error) + 3, 1>>
        BY <3>2 DEF FailureGeneric, Answer
      <4> QED
        BY <4>2, <4>3
    <3>3. CASE MissingHash
      BY <3>3 DEF MissingHash, Answer
    <3>4. CASE EmptyReply
      BY <3>4 DEF EmptyReply, Answer
    <3> QED
      BY <3>1, <3>2, <3>3, <3>4
  <2> QED
    BY <1>1, <2>1, <2>2, AnswerKeeps
<1> QED
  BY <1>1, <1>2, <1>3, <1>4 DEF Stages

-----------------------------------------------------------------------------
(* The lists.                                                              *)

\* The allocation is begun: one entry at least, since the swarm has a peer and
\* the query had a pair.
LEMMA BeginListKeeps == RequestInv /\ (ListPeers \/ ListTorrents) => RequestInv'
<1> SUFFICES ASSUME RequestInv, ListPeers \/ ListTorrents PROVE RequestInv'
  OBVIOUS
<1> USE DEF RequestInv
<1>1. stage' = "header" /\ Forget /\ UNCHANGED responseVars
  BY DEF ListPeers, ListTorrents
<1>2. QueryInv'
  BY <1>1, ForgetKeeps
<1>3. ResponseInv'
  BY <1>1 DEF responseVars, writeVars, ResponseInv
<1>4. ReplyInv'
  <2>1. /\ list' \in {"peers", "torrents"} /\ count' \in Nat \ {0}
        /\ listed' = 0 /\ printed' = 0 /\ end' = 0
        /\ cut' = FALSE /\ short' = TRUE /\ held' = TRUE
    <3>1. CASE ListPeers
      BY <3>1, RequestAssumption DEF ListPeers, BeginPeers
    <3>2. CASE ListTorrents
      <4>1. Len(pairs) \in Nat \ {0}
        BY <3>2, EmptySeq DEF ListTorrents, QueryInv
      <4> QED
        BY <3>2, <4>1 DEF ListTorrents, BeginTorrents
    <3> QED
      BY <3>1, <3>2
  <2>2. /\ listed' \in 0..count' /\ printed' < 128 * count' /\ printed' \in Nat
        /\ end' <= 128 * count' /\ end' \in Nat
    <3>1. \A n \in Nat \ {0} : 0 \in 0..n /\ 0 < 128 * n /\ 0 <= 128 * n
      OBVIOUS
    <3> QED
      BY <2>1, <3>1
  <2>3. stage' # "entries"
    BY <1>1
  <2> QED
    BY <1>1, <2>1, <2>2, <2>3 DEF ReplyInv
<1> QED
  BY <1>1, <1>2, <1>3, <1>4 DEF Stages

\* A piece that leaves a byte of the allocation is written with its NUL and not
\* cut off; what is not cut off has left one.
LEMMA SnPrintFits ==
  ASSUME NEW len \in Nat, printed \in Nat, count \in Nat, end \in Nat,
         cut \in BOOLEAN, ~cut => printed < 128 * count, SnPrint(len)
  PROVE  /\ printed' = printed + len /\ end' \in Nat /\ cut' \in BOOLEAN
         /\ ~cut' => printed + len < 128 * count
         /\ ~cut /\ printed + len < 128 * count
              => ~cut' /\ end' = printed + len + 1
<1> DEFINE rest == 128 * count - printed
           fits == len < rest \/ rest < 0
<1>1. Allocation = 128 * count /\ Allocation \in Nat
  BY DEF Allocation, PerEntry
<1>2. /\ printed' = printed + len
      /\ end' = IF rest = 0 THEN end
                ELSE IF fits THEN printed + len + 1 ELSE 128 * count
      /\ cut' = (cut \/ ~fits)
  BY <1>1 DEF SnPrint
<1>3. rest \in Int
  BY <1>1
<1>4. end' \in Nat /\ cut' \in BOOLEAN
  BY <1>1, <1>2, <1>3
<1>5. ~cut' => printed + len < 128 * count
  <2> SUFFICES ASSUME ~cut' PROVE printed + len < 128 * count
    OBVIOUS
  <2>1. ~cut /\ fits
    BY <1>2
  <2> QED
    BY <2>1
<1>6. ASSUME ~cut, printed + len < 128 * count
      PROVE  ~cut' /\ end' = printed + len + 1
  <2>1. len < rest /\ rest # 0
    BY <1>6
  <2> QED
    BY <1>2, <1>6, <2>1
<1> QED
  BY <1>2, <1>4, <1>5, <1>6

\* What is bounded by Within is short of the allocation, with the end of the
\* list as well.
LEMMA WithinFits ==
  ASSUME NEW p \in Nat, NEW n \in Nat, count \in Nat \ {0}, n <= count,
         list \in {"peers", "torrents"}, Within(p, n), Bounded
  PROVE  p + 2 < 128 * count
BY DEF Within, Bounded

\* A header or a peer of len bytes is printed, the entry number n.
LEMMA PieceKeeps ==
  ASSUME RequestInv, stage \in {"header", "entries"}, stage' = "entries",
         NEW len \in Nat, SnPrint(len),
         list = "peers", UNCHANGED <<list, count>>,
         NEW n \in Nat, listed' = n, n <= count,
         short' \in BOOLEAN, held' \in BOOLEAN,
         short' => short, held' => held,
         short' => printed + len <= 56 + 69 * n,
         held' => printed + len <= 72 + 112 * n
  PROVE  ReplyInv'
<1>1. /\ printed \in Nat /\ count \in Nat \ {0} /\ end \in Nat
      /\ cut \in BOOLEAN /\ (~cut => printed < 128 * count)
      /\ Bounded => ~cut
  BY DEF RequestInv, ReplyInv
<1>2. /\ printed' = printed + len /\ end' \in Nat /\ cut' \in BOOLEAN
      /\ ~cut' => printed + len < 128 * count
      /\ ~cut /\ printed + len < 128 * count => ~cut' /\ end' = printed + len + 1
  BY <1>1, SnPrintFits
<1>3. Bounded' => Bounded
  BY DEF Bounded
<1>4. Within(printed, listed)'
  BY <1>2 DEF Within
<1>5. Bounded' => printed + len < 128 * count
  BY <1>1 DEF Bounded
<1>6. Bounded' => ~cut' /\ end' <= 128 * count
  BY <1>1, <1>2, <1>3, <1>5
<1>7. printed' \in Nat
  BY <1>1, <1>2
<1> QED
  BY <1>1, <1>2, <1>4, <1>6, <1>7 DEF ReplyInv

\* Header, entries and end of a list stay in 128 bytes an entry where they are
\* bounded: of one short peer's 128, they need every one.
LEMMA PrintKeeps == RequestInv /\ List => RequestInv'
<1> SUFFICES ASSUME RequestInv, List PROVE RequestInv'
  OBVIOUS
<1> USE DEF RequestInv
<1>1. /\ stage \in {"header", "entries", "listed"}
      /\ stage' \in {"entries", "listed", "overrun"}
  BY DEF List, PrintReply, Header, Entry, Close, Overrun
<1>2. QueryInv'
  BY <1>1 DEF List, queryVars, QueryInv
<1>3. ResponseInv'
  BY <1>1 DEF List, responseVars, writeVars, ResponseInv
<1>4. ReplyInv'
  <2>1. /\ printed \in Nat /\ list \in {"peers", "torrents"}
        /\ count \in Nat \ {0} /\ listed \in 0..count
        /\ end \in Nat /\ cut \in BOOLEAN
        /\ short \in BOOLEAN /\ held \in BOOLEAN
        /\ list = "torrents" => ~cut
    BY <1>1 DEF ReplyInv
  <2>2. CASE Header /\ list = "peers"
    <3>1. PICK d \in HeaderDigits : PrintHeader(d)
      BY <2>2 DEF Header
    <3>2. d \in 0..22 /\ 50 + d \in Nat
      BY ReplyAssumption
    <3>3. /\ stage = "header" /\ stage' = "entries" /\ printed = 0
          /\ listed' = 0 /\ UNCHANGED <<list, count>>
      BY <2>2 DEF Header, ReplyInv
    <3>4. /\ SnPrint(50 + d) /\ held' = held
          /\ short' = (short /\ d <= 6)
      BY <3>1 DEF PrintHeader, ShortHeader
    <3>5. /\ short' => printed + (50 + d) <= 56 + 69 * 0
          /\ held' => printed + (50 + d) <= 72 + 112 * 0
      <4>1. short' => d <= 6
        BY <3>4
      <4>2. d <= 6 => printed + (50 + d) <= 56 + 69 * 0
        BY <3>2, <3>3
      <4>3. printed + (50 + d) <= 72 + 112 * 0
        BY <3>2, <3>3
      <4> QED
        BY <4>1, <4>2, <4>3
    <3>6. 0 \in Nat /\ 0 <= count /\ short' \in BOOLEAN /\ held' \in BOOLEAN
          /\ (short' => short) /\ (held' => held)
      BY <2>1, <3>4
    <3> QED
      BY <2>2, <3>2, <3>3, <3>4, <3>5, <3>6, PieceKeeps
  <2>3. CASE Header /\ list # "peers"
    <3>1. /\ stage' = "entries" /\ printed' = 9 /\ end' = 10 /\ listed' = 0
          /\ UNCHANGED <<list, count, cut, short, held>>
      BY <2>3 DEF Header, SPrint, ReplyInv
    <3> QED
      BY <2>1, <2>3, <3>1 DEF ReplyInv, Within, Bounded
  <2>4. CASE Entry /\ list = "peers"
    <3>1. PICK d \in PeerDigits : PrintPeer(d)
      BY <2>4 DEF Entry
    <3>2. d \in Nat /\ 25 + d \in Nat
      BY ReplyAssumption
    <3>3. /\ stage = "entries" /\ stage' = "entries" /\ listed < count
          /\ listed' = listed + 1 /\ UNCHANGED <<list, count>>
          /\ Within(printed, listed)
      BY <2>4 DEF Entry, More, ReplyInv
    <3>4. /\ SnPrint(25 + d)
          /\ short' = (short /\ d <= 44) /\ held' = (held /\ d <= 87)
      BY <3>1 DEF PrintPeer, ShortPeer, HeldPeer
    <3>5. /\ short' => printed + (25 + d) <= 56 + 69 * (listed + 1)
          /\ held' => printed + (25 + d) <= 72 + 112 * (listed + 1)
      <4>1. /\ short' => short /\ d <= 44
            /\ held' => held /\ d <= 87
        BY <3>4
      <4>2. /\ short => printed <= 56 + 69 * listed
            /\ held => printed <= 72 + 112 * listed
        BY <2>4, <3>3 DEF Within
      <4>3. d \in Nat /\ listed \in Nat /\ printed \in Nat
        BY <2>1, <3>2
      <4>4. printed <= 56 + 69 * listed /\ d <= 44
              => printed + (25 + d) <= 56 + 69 * (listed + 1)
        BY <4>3
      <4>5. printed <= 72 + 112 * listed /\ d <= 87
              => printed + (25 + d) <= 72 + 112 * (listed + 1)
        BY <4>3
      <4> QED
        BY <4>1, <4>2, <4>4, <4>5
    <3>6. /\ listed + 1 \in Nat /\ listed + 1 <= count
          /\ short' \in BOOLEAN /\ held' \in BOOLEAN
          /\ (short' => short) /\ (held' => held)
      BY <2>1, <3>3, <3>4
    <3> QED
      BY <2>4, <3>2, <3>3, <3>4, <3>5, <3>6, PieceKeeps
  <2>5. CASE Entry /\ list # "peers"
    <3>1. PICK d \in ScrapeDigits : PrintTorrent(d)
      BY <2>5 DEF Entry
    <3>2. d \in 0..33
      BY ReplyAssumption
    <3>3. printed <= 9 + 100 * listed /\ listed < count
      BY <2>1, <2>5 DEF Entry, More, ReplyInv, Within
    <3>4. /\ printed' = printed + (67 + d) /\ end' = printed + (67 + d) + 1
          /\ UNCHANGED <<cut, short, held>>
      BY <3>1 DEF PrintTorrent, SPrint
    <3>5. stage' = "entries" /\ list' = list /\ count' = count
          /\ listed' = listed + 1
      BY <2>5 DEF Entry
    <3>6. /\ printed + (67 + d) \in Nat /\ listed + 1 \in 0..count
          /\ printed + (67 + d) <= 9 + 100 * (listed + 1)
          /\ printed + (67 + d) + 1 <= 128 * count
      BY <2>1, <3>2, <3>3
    <3> QED
      BY <2>1, <2>5, <3>4, <3>5, <3>6 DEF ReplyInv, Within, Bounded
  <2>6. CASE Close /\ list = "peers"
    <3>1. /\ stage' = "listed" /\ SnPrint(2) /\ Within(printed, listed)
          /\ UNCHANGED <<list, count, listed, short, held>>
          /\ ~cut => printed < 128 * count
          /\ Bounded => ~cut
      BY <2>6 DEF Close, ReplyInv
    <3>2. /\ printed' = printed + 2 /\ end' \in Nat /\ cut' \in BOOLEAN
          /\ ~cut' => printed + 2 < 128 * count
          /\ ~cut /\ printed + 2 < 128 * count => ~cut' /\ end' = printed + 2 + 1
      BY <2>1, <3>1, SnPrintFits
    <3>3. Bounded => printed + 2 < 128 * count
      BY <2>1, <3>1, WithinFits
    <3>4. Bounded' <=> Bounded
      BY <3>1 DEF Bounded
    <3>5. Bounded' => ~cut' /\ end' <= 128 * count
      BY <2>1, <3>1, <3>2, <3>3, <3>4
    <3>6. printed' \in Nat
      BY <2>1, <3>2
    <3> QED
      BY <2>1, <2>6, <3>1, <3>2, <3>5, <3>6 DEF ReplyInv
  <2>7. CASE Close /\ list # "peers"
    <3>1. /\ stage' = "listed" /\ printed' = printed + 2 /\ end' = printed + 2 + 1
          /\ UNCHANGED <<list, count, listed, cut, short, held>>
          /\ printed <= 9 + 100 * listed
      BY <2>1, <2>7 DEF Close, SPrint, ReplyInv, Within
    <3>2. printed + 2 \in Nat /\ printed + 2 + 1 <= 128 * count
      BY <2>1, <3>1
    <3> QED
      BY <2>1, <2>7, <3>1, <3>2 DEF ReplyInv, Bounded
  <2>8. CASE Overrun
    BY <2>1, <2>8 DEF Overrun, replyVars, ReplyInv
  <2> QED
    BY <2>2, <2>3, <2>4, <2>5, <2>6, <2>7, <2>8 DEF List, PrintReply
<1> QED
  BY <1>1, <1>2, <1>3, <1>4 DEF Stages

\* The string of a list of peers, cut off or not, is shorter than its
\* allocation.
LEMMA TextFits ==
  ASSUME RequestInv, stage = "listed"
  PROVE  /\ Text \in Nat /\ Text <= 128 * count
         /\ list = "torrents" => Text = printed
<1>1. /\ printed \in Nat /\ count \in Nat \ {0} /\ cut \in BOOLEAN
      /\ ~cut => printed < 128 * count
      /\ list = "torrents" => ~cut
  BY DEF RequestInv, ReplyInv
<1>2. Text = IF cut THEN 128 * count - 1 ELSE printed
  BY DEF Text, Allocation, PerEntry
<1> QED
  BY <1>1, <1>2

-----------------------------------------------------------------------------
(* The buffers.                                                            *)

\* What a buffer grows by is a number.
LEMMA NeedType == ASSUME NEW len \in Nat PROVE Need(len) \in Nat
<1> DEFINE q == len \div BufferSize
<1>1. q \in Nat
  BY BufferAssumption
<1>2. BufferSize \in Nat /\ q + 1 \in Nat
  BY <1>1, BufferAssumption
<1>3. (q + 1) * BufferSize \in Nat
  <2> HIDE DEF q
  <2> QED
    BY <1>2
<1> QED
  BY <1>3 DEF Need

\* A buffer that is aligned has a size.
LEMMA AlignedType ==
  ASSUME NEW b \in Buffers, NEW len \in Nat PROVE Aligned(b, len) \in Nat
BY NeedType DEF Aligned, Buffers

\* The operations on buffers lead to buffers.
LEMMA BuffersClosed ==
  ASSUME NEW b \in Buffers
  PROVE  /\ \A len \in Nat : AppendString(b, len) \in Buffers
         /\ \A c \in Buffers : AppendBuffer(b, c) \in Buffers
         /\ \A len \in Nat : WriteOver(b, len) \in Buffers
         /\ Zeroed(b) \in Buffers
<1>1. ASSUME NEW len \in Nat PROVE AppendString(b, len) \in Buffers
  <2>1. len + 1 \in Nat /\ Aligned(b, len + 1) \in Nat
    BY AlignedType
  <2> QED
    BY <2>1 DEF AppendString, Buffers
<1>2. ASSUME NEW c \in Buffers PROVE AppendBuffer(b, c) \in Buffers
  <2>1. c.cursor \in Nat /\ b.cursor \in Nat
    BY DEF Buffers
  <2>2. Aligned(b, c.cursor) \in Nat
    BY <2>1, AlignedType
  <2> QED
    BY <2>1, <2>2 DEF AppendBuffer, Buffers
<1>3. ASSUME NEW len \in Nat PROVE WriteOver(b, len) \in Buffers
  BY AlignedType DEF WriteOver, Buffers
<1>4. Zeroed(b) \in Buffers
  BY DEF Zeroed, Buffers
<1> QED
  BY <1>1, <1>2, <1>3, <1>4

-----------------------------------------------------------------------------
(* The response.                                                           *)

\* %d prints a number of digits.
LEMMA DigitsType == ASSUME NEW n PROVE Digits(n) \in Nat
<1>1. IsFiniteSet(0..9)
  <2>1. 0 \in Int /\ 9 \in Int
    OBVIOUS
  <2> QED
    BY <2>1, FS_Interval
<1>2. {k \in 0..9 : k = 0 \/ n >= 10^k} \subseteq 0..9
  OBVIOUS
<1>3. IsFiniteSet({k \in 0..9 : k = 0 \/ n >= 10^k})
  BY <1>1, <1>2, FS_Subset
<1> QED
  BY <1>3, FS_CardinalityType DEF Digits

\* The list that was printed goes into the body.
LEMMA ListedKeeps == RequestInv /\ Listed => RequestInv'
<1> SUFFICES ASSUME RequestInv, Listed PROVE RequestInv'
  OBVIOUS
<1> USE DEF RequestInv
<1>1. stage' = "body" /\ UNCHANGED queryVars /\ UNCHANGED replyVars
  BY DEF Listed, Answer
<1>2. QueryInv'
  BY <1>1 DEF queryVars, QueryInv
<1>3. ReplyInv'
  BY <1>1 DEF replyVars, ReplyInv
<1>4. Text \in Nat /\ printed \in Nat
  BY TextFits DEF Listed, ReplyInv
<1>5. ResponseInv'
  <2>1. CASE list = "peers"
    <3>1. /\ code' = 200 /\ pending' = <<Text>>
          /\ UNCHANGED <<body, resp, announced, written, tries, got, skewed>>
      BY <2>1 DEF Listed, Answer
    <3>2. <<Text>> \in Seq(Nat)
      BY <1>4
    <3> QED
      BY <1>1, <3>1, <3>2, AnswerKeeps
  <2>2. CASE list # "peers"
    <3>1. /\ code' = 200 /\ body' = WriteOver(body, printed)
          /\ UNCHANGED <<resp, pending, written, tries, got>>
      BY <2>2 DEF Listed
    <3>2. body \in Buffers
      BY DEF ResponseInv
    <3>3. WriteOver(body, printed) \in Buffers
      BY <1>4, <3>2, BuffersClosed
    <3> QED
      BY <1>1, <3>1, <3>3 DEF ResponseInv
  <2> QED
    BY <2>1, <2>2
<1> QED
  BY <1>1, <1>2, <1>3, <1>5 DEF Stages

\* What is written is the next of the response, and no more than there is.
LEMMA WriteKeeps == ResponseInv /\ WriteLoop => ResponseInv'
<1> SUFFICES ASSUME ResponseInv, WriteLoop PROVE ResponseInv'
  OBVIOUS
<1>1. /\ stage = "write" /\ stage' \in {"write", "sent", "given up"}
      /\ UNCHANGED <<code, body, resp, pending>>
  BY DEF WriteLoop, WritePart, WriteRest, WriteFails
<1>2. /\ written \in Nat /\ got = written /\ resp.cursor \in Nat
      /\ got <= resp.cursor /\ skewed = FALSE
      /\ tries \in 0..MaxFailures /\ tries # 0
  BY <1>1 DEF ResponseInv, Buffers
<1>3. /\ written' \in Nat /\ got' = written' /\ got' <= resp.cursor
      /\ skewed' = FALSE
  <2>1. CASE WritePart
    <3>1. PICK n \in Pieces : n < resp.cursor - written /\ Takes(n)
      BY <2>1 DEF WritePart
    <3>2. n \in Nat
      BY ResponseAssumption
    <3>3. written + n \in Nat /\ written + n <= resp.cursor
      BY <1>2, <3>1, <3>2
    <3> QED
      BY <1>2, <3>1, <3>3 DEF Takes
  <2>2. CASE WriteRest
    <3>1. written + (resp.cursor - written) = resp.cursor
      BY <1>2
    <3>2. /\ written' = written + (resp.cursor - written)
          /\ got' = got + (resp.cursor - written)
          /\ skewed' = (skewed \/ written # got)
      BY <2>2 DEF WriteRest, Takes
    <3>3. written' = resp.cursor /\ got' = resp.cursor
      BY <1>2, <3>1, <3>2
    <3>4. skewed' = FALSE
      BY <1>2, <3>2, Zenon
    <3>5. resp.cursor \in Nat /\ resp.cursor <= resp.cursor
      BY <1>2
    <3> QED
      BY <3>3, <3>4, <3>5
  <2>3. CASE WriteFails
    BY <1>2, <2>3 DEF WriteFails
  <2> QED
    BY <2>1, <2>2, <2>3 DEF WriteLoop
<1>4. tries' \in 0..MaxFailures /\ (stage' = "write" => tries' # 0)
  <2>1. CASE WritePart \/ WriteRest
    BY <1>2, <2>1, ResponseAssumption DEF WritePart, WriteRest, Takes
  <2>2. CASE WriteFails
    <3>1. tries - 1 \in 0..MaxFailures /\ (tries # 1 => tries - 1 # 0)
      BY <1>2, ResponseAssumption
    <3> QED
      BY <2>2, <3>1 DEF WriteFails
  <2> QED
    BY <2>1, <2>2 DEF WriteLoop
<1> QED
  BY <1>1, <1>2, <1>3, <1>4 DEF ResponseInv

\* A step of http_response keeps the invariant.
LEMMA SendKeeps == RequestInv /\ Send => RequestInv'
<1> SUFFICES ASSUME RequestInv, Send PROVE RequestInv'
  OBVIOUS
<1> USE DEF RequestInv
<1>1. stage' \in {"body", "headers", "write", "sent", "given up"}
  BY DEF Send, Respond, AppendToBody, BeginResponse, AppendHeader, AppendBody,
         WriteLoop, WritePart, WriteRest, WriteFails
<1>2. QueryInv'
  BY <1>1 DEF Send, queryVars, QueryInv
<1>3. ReplyInv'
  BY <1>1 DEF Send, replyVars, ReplyInv
<1>4. ResponseInv'
  <2>1. /\ body \in Buffers /\ resp \in Buffers /\ pending \in Seq(Nat)
        /\ body.cursor \in Nat
    BY DEF ResponseInv, Buffers
  <2>2. pending # <<>> => Head(pending) \in Nat /\ Tail(pending) \in Seq(Nat)
    BY <2>1, HeadTailProperties
  <2>3. CASE AppendToBody
    <3>1. body' \in Buffers
      BY <2>1, <2>2, <2>3, BuffersClosed DEF AppendToBody
    <3> QED
      BY <2>1, <2>2, <2>3, <3>1 DEF AppendToBody, writeVars, ResponseInv
  <2>4. CASE BeginResponse
    <3>1. Status \in Nat /\ 18 + Digits(body.cursor) \in Nat
      BY DigitsType DEF Status
    <3>2. /\ <<Status>> \in Seq(Nat) /\ <<2>> \in Seq(Nat)
          /\ <<18 + Digits(body.cursor), 25, 19, 18>> \in Seq(Nat)
          /\ <<>> \in Seq(Nat)
      BY <3>1
    <3>3. Headers \in Seq(Nat)
      BY <3>2 DEF Headers
    <3>4. <<Status>> \o Headers \o <<2>> \in Seq(Nat)
      BY <3>2, <3>3, ConcatProperties
    <3>5. pending' \in Seq(Nat)
      BY <2>4, <3>4 DEF BeginResponse
    <3> QED
      BY <2>1, <2>4, <3>5 DEF BeginResponse, writeVars, ResponseInv
  <2>5. CASE AppendHeader
    <3>1. resp' \in Buffers
      BY <2>1, <2>2, <2>5, BuffersClosed DEF AppendHeader
    <3> QED
      BY <2>1, <2>2, <2>5, <3>1 DEF AppendHeader, writeVars, ResponseInv
  <2>6. CASE AppendBody
    <3>1. resp' \in Buffers
      BY <2>1, <2>6, BuffersClosed DEF AppendBody
    <3>2. 0 <= resp'.cursor
      BY <3>1 DEF Buffers
    <3>3. MaxFailures \in 0..MaxFailures /\ MaxFailures # 0
      BY ResponseAssumption
    <3> QED
      BY <2>1, <2>6, <3>1, <3>2, <3>3 DEF AppendBody, ResponseInv
  <2>7. CASE WriteLoop
    BY <2>7, WriteKeeps
  <2> QED
    BY <2>3, <2>4, <2>5, <2>6, <2>7 DEF Send, Respond
<1> QED
  BY <1>1, <1>2, <1>3, <1>4 DEF Stages

-----------------------------------------------------------------------------
(* The request as a whole.                                                 *)

\* Both buffers go back to the pool, emptied.
LEMMA CompleteKeeps == RequestInv /\ Complete => RequestInv'
<1> SUFFICES ASSUME RequestInv, Complete PROVE RequestInv'
  OBVIOUS
<1> USE DEF RequestInv
<1>1. stage' = "idle" /\ UNCHANGED queryVars
  BY DEF Complete
<1>2. QueryInv'
  BY <1>1 DEF queryVars, QueryInv
<1>3. ReplyInv'
  BY <1>1 DEF Complete, ReplyInv
<1>4. ResponseInv'
  <2>1. Zeroed(body) \in Buffers /\ Zeroed(resp) \in Buffers
    BY BuffersClosed DEF ResponseInv
  <2>2. Zeroed(body).cursor = 0 /\ Zeroed(resp).cursor = 0
    BY DEF Zeroed, ResponseInv, Buffers
  <2>3. /\ body' = Zeroed(body) /\ resp' = Zeroed(resp)
        /\ code' = 0 /\ pending' = <<>> /\ written' = 0 /\ tries' = 0
        /\ got' = 0 /\ skewed' = FALSE
    BY DEF Complete
  <2>4. <<>> \in Seq(Nat) /\ 0 \in 0..MaxFailures
    BY ResponseAssumption
  <2> QED
    BY <1>1, <2>1, <2>2, <2>3, <2>4 DEF ResponseInv
<1> QED
  BY <1>1, <1>2, <1>3, <1>4 DEF Stages

\* A request begins with two buffers that are empty.
LEMMA BeginKeeps == RequestInv /\ Begin => RequestInv'
<1> SUFFICES ASSUME RequestInv, Begin PROVE RequestInv'
  OBVIOUS
<1> USE DEF RequestInv
<1>1. /\ stage = "idle" /\ stage' = "reading"
      /\ UNCHANGED <<pairs, sent, request, replyVars, responseVars>>
  BY DEF Begin, Start
<1>2. QueryInv'
  BY <1>1 DEF QueryInv
<1>3. ReplyInv'
  BY <1>1 DEF replyVars, ReplyInv
<1>4. ResponseInv'
  BY <1>1 DEF responseVars, writeVars, ResponseInv
<1> QED
  BY <1>1, <1>2, <1>3, <1>4 DEF Stages

\* Before the first request.
LEMMA InitHolds == Init => RequestInv
<1> SUFFICES ASSUME Init PROVE RequestInv
  OBVIOUS
<1>1. QueryInv
  <2>1. pairs = <<>> /\ sent = <<>> /\ request = {} /\ stage = "idle"
    BY DEF Init, NoQuery
  <2>2. <<>> \in Seq(Pairs)
    OBVIOUS
  <2>3. request \subseteq Pairs
    BY <2>1
  <2> QED
    BY <2>1, <2>2, <2>3 DEF QueryInv
<1>2. ReplyInv
  BY DEF Init, NoReply, ReplyInv
<1>3. ResponseInv
  <2>1. Made \in Buffers /\ Made.cursor = 0
    BY DEF Made, Buffers
  <2>2. <<>> \in Seq(Nat) /\ 0 \in 0..MaxFailures
    BY ResponseAssumption
  <2> QED
    BY <2>1, <2>2 DEF Init, NoResponse, ResponseInv
<1> QED
  BY <1>1, <1>2, <1>3 DEF Init, RequestInv, Stages

\* The invariant is inductive.
LEMMA NextKeeps == RequestInv /\ [Next]_vars => RequestInv'
<1> SUFFICES ASSUME RequestInv, [Next]_vars PROVE RequestInv'
  OBVIOUS
<1>1. CASE Begin
  BY <1>1, BeginKeeps
<1>2. CASE Read
  BY <1>2, ReadKeeps
<1>3. CASE QueryError \/ FailureGeneric \/ MissingHash \/ EmptyReply
  BY <1>3, FailureKeeps
<1>4. CASE ListPeers \/ ListTorrents
  BY <1>4, BeginListKeeps
<1>5. CASE List
  BY <1>5, PrintKeeps
<1>6. CASE Listed
  BY <1>6, ListedKeeps
<1>7. CASE Send
  BY <1>7, SendKeeps
<1>8. CASE Complete
  BY <1>8, CompleteKeeps
<1>9. CASE UNCHANGED vars
  <2>1. QueryInv'
    BY <1>9 DEF vars, queryVars, RequestInv, QueryInv
  <2>2. ReplyInv'
    BY <1>9 DEF vars, replyVars, RequestInv, ReplyInv, Within, Bounded
  <2>3. ResponseInv'
    BY <1>9 DEF vars, responseVars, writeVars, RequestInv, ResponseInv
  <2> QED
    BY <1>9, <2>1, <2>2, <2>3 DEF vars, RequestInv
<1> QED
  BY <1>1, <1>2, <1>3, <1>4, <1>5, <1>6, <1>7, <1>8, <1>9 DEF Next, Handle

\* RequestInv holds throughout.
THEOREM RequestInvariant == Spec => []RequestInv
<1> QED
  BY InitHolds, NextKeeps, PTL DEF Spec

\* The variables of a request have their types, and what belongs to one stage
\* is put away when the request leaves it.
THEOREM RequestTypes == Spec => []RequestTypeOK
<1>1. RequestInv => RequestTypeOK
  BY DEF RequestInv, Stages, QueryInv, ResponseInv, RequestTypeOK
<1> QED
  BY <1>1, RequestInvariant, PTL

\* The lists of torrent.c stay in 128 bytes an entry and are not cut off: a
\* scrape whatever the number of torrents and their counters, and a list of peers
\* if they are short ones, whatever their number, or if there are five or more
\* whose peer_ids fit the array they are kept in.
THEOREM RepliesFit == Spec => []ReplyFits
<1>1. RequestInv => ReplyFits
  BY DEF RequestInv, ReplyInv, ReplyFits, Allocation, PerEntry
<1> QED
  BY <1>1, RequestInvariant, PTL

\* The write loop of http_response sends the response in order, whatever it is
\* and however the socket splits it.
THEOREM ResponsesInOrder == Spec => []SentInOrder
<1>1. \A n \in Nat : 0 <= n
  OBVIOUS
<1>2. RequestInv => SentInOrder
  <2> SUFFICES ASSUME RequestInv, stage \in {"write", "sent", "given up"}
               PROVE  ~skewed /\ got = written /\ 0 <= got /\ got <= resp.cursor
    BY DEF SentInOrder
  <2>1. skewed = FALSE /\ got = written /\ got <= resp.cursor
    BY DEF RequestInv, ResponseInv
  <2>2. 0 <= got
    <3>1. got \in Nat
      BY DEF RequestInv, ResponseInv
    <3> QED
      BY <1>1, <3>1
  <2> QED
    BY <2>1, <2>2, Zenon
<1> QED
  BY <1>2, RequestInvariant, PTL

-----------------------------------------------------------------------------
(* The query and its history.                                              *)

\* The list has the pairs of the query, the last one first.
Mirrored ==
  /\ Len(pairs) = Len(sent)
  /\ \A i \in DOMAIN pairs : pairs[i] = sent[Len(sent) + 1 - i]

\* What each stage has found out about the list.
StageSays ==
  /\ stage = "refused" /\ type = "announce" => Found < Cardinality(Required)
  /\ stage = "checked" /\ type = "announce" => Found >= Cardinality(Required)
  /\ stage = "crashed" => /\ Found >= Cardinality(Required)
                          /\ \E k \in Required : ~Has(k)
  /\ stage \in {"built", "valid"} =>
       /\ \A k \in Required : Has(k)
       /\ \A k \in Required \cup {"event"} : Has(k) => Lookup(k) \in request
  /\ stage = "valid" => request \cap Wrong = {}

PairsInv == Mirrored /\ StageSays

\* A key that the query has said something of is in the list.
LEMMA SaidIsListed ==
  ASSUME QueryInv, Mirrored, NEW k PROVE Said(k) <=> Has(k)
<1>1. /\ DOMAIN pairs = 1..Len(pairs) /\ DOMAIN sent = 1..Len(sent)
      /\ Len(pairs) = Len(sent) /\ Len(sent) \in Nat
  BY LenProperties DEF QueryInv
<1>2. ASSUME NEW i \in DOMAIN pairs
      PROVE  Len(sent) + 1 - i \in DOMAIN sent /\ pairs[i] = sent[Len(sent) + 1 - i]
  BY <1>1 DEF Mirrored
<1>3. ASSUME NEW j \in DOMAIN sent
      PROVE  Len(sent) + 1 - j \in DOMAIN pairs /\ sent[j] = pairs[Len(sent) + 1 - j]
  <2>1. Len(sent) + 1 - j \in DOMAIN pairs
        /\ Len(sent) + 1 - (Len(sent) + 1 - j) = j
    BY <1>1
  <2> QED
    BY <1>2, <2>1
<1> QED
  BY <1>2, <1>3 DEF Said, Has

\* What a query says last of a key is what is found.
LEMMA LastIsFound ==
  ASSUME QueryInv, Mirrored, NEW p, LastSaid(p)
  PROVE  Has(p.key) /\ Lookup(p.key) = p
<1>1. /\ DOMAIN pairs = 1..Len(pairs) /\ DOMAIN sent = 1..Len(sent)
      /\ Len(pairs) = Len(sent) /\ Len(sent) \in Nat
  BY LenProperties DEF QueryInv
<1>2. PICK j \in DOMAIN sent :
        /\ sent[j] = p
        /\ \A m \in (j + 1)..Len(sent) : sent[m].key # p.key
  BY DEF LastSaid
<1>3. Said(p.key)
  BY <1>2 DEF Said
<1>4. Has(p.key)
  BY <1>3, SaidIsListed
<1>5. pairs \in Seq(Pairs)
  BY DEF QueryInv
<1>6. PICK i \in DOMAIN pairs :
        /\ pairs[i] = Lookup(p.key) /\ pairs[i].key = p.key
        /\ \A m \in 1..(i - 1) : pairs[m].key # p.key
  BY <1>4, <1>5, LookupIsFirst
<1> DEFINE back(m) == Len(sent) + 1 - m
<1>7. /\ back(i) \in DOMAIN sent /\ back(j) \in DOMAIN pairs
      /\ back(back(j)) = j
  BY <1>1
<1>8. pairs[i] = sent[back(i)] /\ pairs[back(j)] = sent[j]
  BY <1>7 DEF Mirrored
<1>9. ~ (back(i) > j)
  BY <1>1, <1>2, <1>6, <1>7, <1>8
<1>10. ~ (back(j) < i)
  <2> SUFFICES ASSUME back(j) < i PROVE FALSE
    OBVIOUS
  <2>1. back(j) \in 1..(i - 1)
    BY <1>1, <1>7
  <2>2. pairs[back(j)].key = p.key
    BY <1>2, <1>8
  <2> QED
    BY <1>6, <2>1, <2>2
<1>11. back(i) = j
  BY <1>1, <1>9, <1>10
<1> QED
  BY <1>2, <1>4, <1>6, <1>8, <1>11

\* The entries with a required key are counted by a number.
LEMMA FoundType ==
  ASSUME QueryInv
  PROVE  /\ IsFiniteSet({i \in DOMAIN pairs : pairs[i].key \in Required})
         /\ Found \in Nat /\ Cardinality(Required) \in Nat
<1>1. DOMAIN pairs = 1..Len(pairs) /\ Len(pairs) \in Nat
  BY LenProperties DEF QueryInv
<1>2. IsFiniteSet(DOMAIN pairs)
  BY <1>1, FS_Interval
<1>3. IsFiniteSet({i \in DOMAIN pairs : pairs[i].key \in Required})
  BY <1>2, FS_Subset
<1> QED
  BY <1>3, QueryAssumption, FS_CardinalityType DEF Found

\* A step that leaves the query alone, or puts it away, and goes to a stage
\* that says nothing of it.
LEMMA PairsFrame ==
  ASSUME PairsInv, Forget \/ UNCHANGED <<pairs, sent>>,
         stage' \notin {"refused", "checked", "crashed", "built", "valid"}
  PROVE  PairsInv'
<1>1. StageSays'
  BY DEF StageSays
<1>2. Mirrored'
  <2>1. CASE Forget
    <3>1. pairs' = <<>> /\ sent' = <<>>
      BY <2>1 DEF Forget
    <3> QED
      BY <3>1 DEF Mirrored
  <2>2. CASE UNCHANGED <<pairs, sent>>
    BY <2>2 DEF Mirrored, PairsInv
  <2> QED
    BY <2>1, <2>2
<1> QED
  BY <1>1, <1>2 DEF PairsInv

\* The query is read, checked, built and validated.
LEMMA ReadKeepsPairs == QueryInv /\ PairsInv /\ Read => PairsInv'
<1> SUFFICES ASSUME QueryInv, PairsInv, Read PROVE PairsInv'
  OBVIOUS
<1>1. Found \in Nat /\ Cardinality(Required) \in Nat
  BY FoundType
<1>2. ASSUME NEW p \in Pairs, ReadPair(p) PROVE PairsInv'
  <2>1. /\ DOMAIN pairs = 1..Len(pairs) /\ Len(pairs) = Len(sent)
        /\ Len(pairs) \in Nat /\ DOMAIN sent = 1..Len(sent)
    BY LenProperties DEF QueryInv
  <2>2. pairs' = <<p>> \o pairs /\ sent' = Append(sent, p) /\ stage' = "reading"
    BY <1>2 DEF ReadPair
  <2>3. <<p>> \in Seq(Pairs) /\ Len(<<p>>) = 1 /\ <<p>>[1] = p
    OBVIOUS
  <2>4. /\ Len(pairs') = Len(pairs) + 1
        /\ \A i \in 1..(Len(pairs) + 1) :
             pairs'[i] = IF i = 1 THEN p ELSE pairs[i - 1]
        /\ DOMAIN pairs' = 1..(Len(pairs) + 1)
    <3>1. /\ Len(pairs') = 1 + Len(pairs) /\ pairs' \in Seq(Pairs)
          /\ \A i \in 1..(1 + Len(pairs)) :
               pairs'[i] = IF i <= 1 THEN <<p>>[i] ELSE pairs[i - 1]
      BY <2>2, <2>3, ConcatProperties DEF QueryInv
    <3>2. DOMAIN pairs' = 1..Len(pairs')
      BY <3>1, LenProperties
    <3> QED
      BY <2>1, <2>3, <3>1, <3>2
  <2>5. /\ Len(sent') = Len(sent) + 1
        /\ \A i \in 1..Len(sent) : sent'[i] = sent[i]
        /\ sent'[Len(sent) + 1] = p
    BY <2>2, AppendProperties DEF QueryInv
  <2>6. ASSUME NEW i \in DOMAIN pairs' PROVE pairs'[i] = sent'[Len(sent') + 1 - i]
    <3>1. CASE i = 1
      BY <2>1, <2>4, <2>5, <3>1
    <3>2. CASE i # 1
      <4>1. i - 1 \in DOMAIN pairs /\ Len(sent) + 1 - (i - 1) \in 1..Len(sent)
            /\ Len(sent') + 1 - i = Len(sent) + 1 - (i - 1)
        BY <2>1, <2>4, <2>5, <3>2
      <4>2. pairs[i - 1] = sent[Len(sent) + 1 - (i - 1)]
        BY <4>1 DEF PairsInv, Mirrored
      <4> QED
        BY <2>4, <2>5, <3>2, <4>1, <4>2
    <3> QED
      BY <3>1, <3>2
  <2>7. Mirrored'
    BY <2>1, <2>4, <2>5, <2>6 DEF Mirrored
  <2>8. StageSays'
    BY <2>2 DEF StageSays
  <2> QED
    BY <2>7, <2>8 DEF PairsInv
<1>3. CASE Malformed
  BY <1>3, PairsFrame DEF Malformed, queryVars
<1>4. ASSUME UNCHANGED <<pairs, sent>>
      PROVE  /\ Mirrored' /\ Found' = Found
             /\ \A k : Has(k)' = Has(k) /\ Lookup(k)' = Lookup(k)
  <2>1. Mirrored'
    BY <1>4 DEF PairsInv, Mirrored
  <2> QED
    BY <1>4, <2>1 DEF Found, Has, Lookup
<1>5. CASE Check
  <2>1. UNCHANGED <<pairs, sent, type>> /\ stage' \in {"checked", "refused"}
        /\ (stage' = "checked" <=> KeysPass)
    BY <1>5 DEF Check, queryVars
  <2>2. StageSays'
    BY <1>1, <1>4, <2>1 DEF StageSays, KeysPass
  <2> QED
    BY <1>4, <2>1, <2>2 DEF PairsInv
<1>6. CASE Build
  <2>1. UNCHANGED <<pairs, sent, type>> /\ stage = "checked" /\ type = "announce"
    BY <1>6 DEF Build
  <2>2. Found >= Cardinality(Required)
    BY <2>1 DEF PairsInv, StageSays
  <2>3. CASE \A k \in Required : Has(k)
    <3>1. stage' = "built" /\ request' = {Lookup(k) : k \in
                                  {k \in Required \cup {"event"} : Has(k)}}
      BY <1>6, <2>3 DEF Build
    <3>2. \A k \in Required \cup {"event"} : Has(k) => Lookup(k) \in request'
      BY <3>1
    <3>3. \A k \in Required \cup {"event"} : Has(k)' => Lookup(k)' \in request'
      BY <1>4, <2>1, <3>2
    <3>4. \A k \in Required : Has(k)'
      BY <1>4, <2>1, <2>3
    <3>5. StageSays'
      BY <3>1, <3>3, <3>4 DEF StageSays
    <3> QED
      BY <1>4, <2>1, <3>5 DEF PairsInv
  <2>4. CASE ~ \A k \in Required : Has(k)
    <3>1. stage' = "crashed"
      BY <1>6, <2>4 DEF Build
    <3>2. \E k \in Required : ~Has(k)'
      BY <1>4, <2>1, <2>4
    <3>3. StageSays'
      BY <1>4, <2>1, <2>2, <3>1, <3>2 DEF StageSays
    <3> QED
      BY <1>4, <2>1, <3>3 DEF PairsInv
  <2> QED
    BY <2>3, <2>4
<1>7. CASE Sanitize
  <2>1. /\ UNCHANGED <<pairs, sent, type, request>> /\ stage = "built"
        /\ stage' \in {"valid", "invalid"}
        /\ (stage' = "valid" => RefusedKeys = {})
    BY <1>7 DEF Sanitize
  <2>2. /\ \A k \in Required : Has(k)
        /\ \A k \in Required \cup {"event"} : Has(k) => Lookup(k) \in request
    BY <2>1 DEF PairsInv, StageSays
  <2>3. /\ \A k \in Required : Has(k)'
        /\ \A k \in Required \cup {"event"} : Has(k)' => Lookup(k)' \in request'
    BY <1>4, <2>1, <2>2
  <2>4. RefusedKeys = {} => request \cap Wrong = {}
    BY DEF RefusedKeys
  <2>5. StageSays'
    BY <2>1, <2>3, <2>4 DEF StageSays
  <2> QED
    BY <1>4, <2>1, <2>5 DEF PairsInv
<1> QED
  BY <1>2, <1>3, <1>5, <1>6, <1>7 DEF Read, ReadQuery

\* PairsInv is inductive together with RequestInv.
LEMMA PairsKept == QueryInv /\ PairsInv /\ [Next]_vars => PairsInv'
<1> SUFFICES ASSUME QueryInv, PairsInv, [Next]_vars PROVE PairsInv'
  OBVIOUS
<1>1. CASE Begin
  BY <1>1, PairsFrame DEF Begin, Start
<1>2. CASE Read
  BY <1>2, ReadKeepsPairs
<1>3. CASE QueryError \/ FailureGeneric \/ MissingHash \/ EmptyReply
  BY <1>3, PairsFrame DEF QueryError, FailureGeneric, MissingHash, EmptyReply, Answer
<1>4. CASE ListPeers \/ ListTorrents
  BY <1>4, PairsFrame DEF ListPeers, ListTorrents
<1>5. CASE List
  BY <1>5, PairsFrame DEF List, PrintReply, Header, Entry, Close, Overrun, queryVars
<1>6. CASE Listed
  BY <1>6, PairsFrame DEF Listed, Answer, queryVars
<1>7. CASE Send
  <2>1. stage' \in {"body", "headers", "write", "sent", "given up"}
    BY <1>7 DEF Send, Respond, AppendToBody, BeginResponse, AppendHeader,
               AppendBody, WriteLoop, WritePart, WriteRest, WriteFails
  <2> QED
    BY <1>7, <2>1, PairsFrame DEF Send, queryVars
<1>8. CASE Complete
  BY <1>8, PairsFrame DEF Complete, queryVars
<1>9. CASE UNCHANGED vars
  <2>1. UNCHANGED <<stage, type, pairs, sent, request>>
    BY <1>9 DEF vars, queryVars
  <2>2. Mirrored'
    BY <2>1 DEF PairsInv, Mirrored
  <2>3. Found' = Found /\ \A k : Has(k)' = Has(k) /\ Lookup(k)' = Lookup(k)
    BY <2>1 DEF Found, Has, Lookup
  <2>4. StageSays'
    BY <2>1, <2>3 DEF PairsInv, StageSays
  <2> QED
    BY <2>2, <2>4 DEF PairsInv
<1> QED
  BY <1>1, <1>2, <1>3, <1>4, <1>5, <1>6, <1>7, <1>8, <1>9 DEF Next, Handle

\* The list is the query reversed, throughout, and each stage says of it what
\* the code has found out.
LEMMA PairsInvariant == Spec => [](RequestInv /\ PairsInv)
<1>1. Init => PairsInv
  BY DEF Init, NoQuery, PairsInv, Mirrored, StageSays
<1>2. RequestInv /\ PairsInv /\ [Next]_vars => PairsInv'
  BY PairsKept DEF RequestInv
<1> QED
  BY <1>1, <1>2, RequestInvariant, PTL DEF Spec

\* The check of http.c:405 refuses no announce that has all the keys, and the
\* worker follows a NULL only for one that repeats a key it counts: the others
\* would be too few.
THEOREM ChecksAreRight == Spec => []CheckIsRight
<1>1. RequestInv /\ PairsInv => CheckIsRight
  <2> SUFFICES ASSUME RequestInv, PairsInv PROVE CheckIsRight
    OBVIOUS
  <2> DEFINE S == {i \in DOMAIN pairs : pairs[i].key \in Required}
  <2>1. /\ QueryInv /\ Mirrored /\ IsFiniteSet(S)
        /\ Found = Cardinality(S) /\ Found \in Nat /\ Cardinality(Required) \in Nat
    BY FoundType DEF RequestInv, PairsInv, Found
  <2>2. ASSUME stage = "refused", type = "announce"
        PROVE  \E k \in Required : ~Said(k)
    <3> SUFFICES ASSUME \A k \in Required : Has(k) PROVE FALSE
      BY <2>1, SaidIsListed
    <3> DEFINE f == [i \in S |-> pairs[i].key]
    <3>1. f \in [S -> Required]
      OBVIOUS
    <3>2. \A k \in Required : \E i \in S : f[i] = k
      BY DEF Has
    <3>3. f \in Surjection(S, Required)
      BY <3>1, <3>2 DEF Surjection
    <3>4. Cardinality(Required) <= Cardinality(S)
      BY <2>1, <3>3, FS_Surjection
    <3>5. Found < Cardinality(Required)
      BY <2>2 DEF PairsInv, StageSays
    <3> QED
      BY <2>1, <3>4, <3>5
  <2>3. ASSUME stage = "crashed"
        PROVE  /\ \E k \in Required : ~Said(k)
               /\ \E i, j \in DOMAIN sent :
                    /\ i # j /\ sent[i].key = sent[j].key
                    /\ sent[i].key \in Required
    <3>1. Found >= Cardinality(Required)
      BY <2>3 DEF PairsInv, StageSays
    <3>2. PICK k \in Required : ~Has(k)
      BY <2>3 DEF PairsInv, StageSays
    <3>3. ~Said(k)
      BY <2>1, <3>2, SaidIsListed
    <3> DEFINE R == Required \ {k}
               f == [i \in S |-> pairs[i].key]
    <3>4. IsFiniteSet(R) /\ Cardinality(R) = Cardinality(Required) - 1
      BY QueryAssumption, FS_RemoveElement
    <3>5. f \in [S -> R]
      BY <3>2 DEF Has
    <3>6. Cardinality(R) < Cardinality(S)
      BY <2>1, <3>1, <3>4
    <3>7. \E i, j \in S : i # j /\ f[i] = f[j]
      <4> HIDE DEF S, R, f
      <4> QED
        BY <2>1, <3>4, <3>5, <3>6, FS_PigeonHole
    <3>8. PICK i, j \in S : i # j /\ pairs[i].key = pairs[j].key
      BY <3>7
    <3> DEFINE a == Len(sent) + 1 - i
               b == Len(sent) + 1 - j
    <3>9. /\ a \in DOMAIN sent /\ b \in DOMAIN sent /\ a # b
          /\ pairs[i] = sent[a] /\ pairs[j] = sent[b]
      <4>1. /\ DOMAIN pairs = 1..Len(pairs) /\ DOMAIN sent = 1..Len(sent)
            /\ Len(pairs) = Len(sent) /\ Len(sent) \in Nat
        BY <2>1, LenProperties DEF QueryInv
      <4> QED
        BY <2>1, <3>8, <4>1 DEF Mirrored
    <3>10. pairs[i].key \in Required
      OBVIOUS
    <3>11. sent[a].key = sent[b].key /\ sent[a].key \in Required
      BY <3>8, <3>9, <3>10
    <3> QED
      BY <3>3, <3>9, <3>11
  <2> QED
    BY <2>2, <2>3 DEF CheckIsRight
<1> QED
  BY <1>1, PairsInvariant, PTL

\* What http_lookup_kv_key finds is what the query has said last, and that is
\* what sanitize_peer_req has looked at.
THEOREM ValidsAreRight == Spec => []ValidIsRight
<1>1. RequestInv /\ PairsInv => ValidIsRight
  <2> SUFFICES ASSUME RequestInv, PairsInv, stage = "valid"
               PROVE  /\ \A k \in Required : Said(k)
                      /\ \A p \in Pairs :
                           p.key \in Required \cup {"event"} /\ LastSaid(p)
                             => p \notin Wrong
    BY DEF ValidIsRight
  <2>1. QueryInv /\ Mirrored
    BY DEF RequestInv, PairsInv
  <2>2. /\ \A k \in Required : Has(k)
        /\ \A k \in Required \cup {"event"} : Has(k) => Lookup(k) \in request
        /\ request \cap Wrong = {}
    BY DEF PairsInv, StageSays
  <2>3. \A k \in Required : Said(k)
    BY <2>1, <2>2, SaidIsListed
  <2>4. ASSUME NEW p \in Pairs, p.key \in Required \cup {"event"}, LastSaid(p)
        PROVE  p \notin Wrong
    <3>1. Has(p.key) /\ Lookup(p.key) = p
      BY <2>1, <2>4, LastIsFound
    <3> QED
      BY <2>2, <2>4, <3>1
  <2> QED
    BY <2>3, <2>4
<1> QED
  BY <1>1, PairsInvariant, PTL

-----------------------------------------------------------------------------
(* The length of the response.                                             *)

\* The strings still to be appended are six at most, which makes their sum one
\* that needs no induction.
At(s, i) == IF i \in DOMAIN s THEN s[i] ELSE 0

Total(s) == At(s, 1) + At(s, 2) + At(s, 3) + At(s, 4) + At(s, 5) + At(s, 6)

\* How long a reply of each kind is.
Lengths == CASE answer = "query error" -> {33}
             [] answer = "missing"     -> {51}
             [] answer = "failure"     -> 34..46
             [] answer = "empty"       -> {0}
             [] answer = "list"        -> {Text}

\* The status line, the headers and the empty line.
HeadLength == Status + 2 + (IF body.cursor = 0 THEN 0
                            ELSE 80 + Digits(body.cursor))

Answering == {"body", "headers", "write", "sent", "given up"}

\* What is in the buffers and what is still to be appended make the response.
LengthInv ==
  /\ Len(pending) <= 6
  /\ stage \notin {"body", "headers"} => pending = <<>>
  /\ stage \notin Answering => body.cursor = 0
  /\ stage \notin Answering \ {"body"} => resp.cursor = 0
  /\ stage = "body" => body.cursor + Total(pending) \in Lengths
  /\ stage \in Answering \ {"body"} => announced = body.cursor
                                       /\ body.cursor \in Lengths
  /\ stage = "headers" => resp.cursor + Total(pending) = HeadLength
  /\ stage \in {"write", "sent", "given up"} =>
       resp.cursor = HeadLength + body.cursor
  /\ stage = "write" => got < resp.cursor
  /\ stage = "sent" => got = resp.cursor /\ tries > 0
  /\ stage = "given up" => tries = 0 /\ got < resp.cursor

\* The sum may be taken from its second term on.
LEMMA TotalSplits ==
  ASSUME NEW s,
         At(s, 1) \in Nat, At(s, 2) \in Nat, At(s, 3) \in Nat,
         At(s, 4) \in Nat, At(s, 5) \in Nat, At(s, 6) \in Nat
  PROVE  LET rest == At(s, 2) + At(s, 3) + At(s, 4) + At(s, 5) + At(s, 6)
         IN  /\ Total(s) = At(s, 1) + rest
             /\ rest \in Nat /\ At(s, 1) + rest \in Nat
BY DEF Total

\* A string less is a sum less by its length.
LEMMA TotalTail ==
  ASSUME NEW s \in Seq(Nat), s # <<>>, Len(s) <= 6
  PROVE  /\ Head(s) \in Nat /\ Tail(s) \in Seq(Nat) /\ Len(Tail(s)) <= 6
         /\ Total(s) \in Nat /\ Total(Tail(s)) \in Nat
         /\ Total(s) = Head(s) + Total(Tail(s))
<1>1. /\ Len(s) \in 1..6 /\ DOMAIN s = 1..Len(s)
      /\ \A i \in DOMAIN s : s[i] \in Nat
  <2>1. Len(s) \in Nat /\ DOMAIN s = 1..Len(s)
    BY LenProperties
  <2>2. Len(s) # 0
    BY EmptySeq
  <2>3. \A i \in DOMAIN s : s[i] \in Nat
    BY <2>1, ElementOfSeq
  <2>4. \A n \in Nat : n # 0 /\ n <= 6 => n \in 1..6
    OBVIOUS
  <2>5. Len(s) \in 1..6
    BY <2>1, <2>2, <2>4, Zenon
  <2> QED
    BY <2>1, <2>3, <2>5
<1>2. /\ Head(s) = s[1] /\ Tail(s) \in Seq(Nat) /\ Len(Tail(s)) = Len(s) - 1
      /\ \A i \in 1..Len(Tail(s)) : Tail(s)[i] = s[i + 1]
  BY HeadTailProperties
<1>3. DOMAIN Tail(s) = 1..Len(Tail(s))
  BY <1>2, LenProperties
<1>4. /\ At(s, 1) \in Nat /\ At(s, 2) \in Nat /\ At(s, 3) \in Nat
      /\ At(s, 4) \in Nat /\ At(s, 5) \in Nat /\ At(s, 6) \in Nat
  BY <1>1 DEF At
<1>5. /\ At(s, 1) = Head(s)
      /\ \A i \in 1..5 : At(Tail(s), i) = At(s, i + 1)
      /\ At(Tail(s), 6) = 0
  BY <1>1, <1>2, <1>3 DEF At
<1>6. /\ At(Tail(s), 1) = At(s, 2) /\ At(Tail(s), 2) = At(s, 3)
      /\ At(Tail(s), 3) = At(s, 4) /\ At(Tail(s), 4) = At(s, 5)
      /\ At(Tail(s), 5) = At(s, 6)
  BY <1>5
<1>7. Head(s) \in Nat
  BY <1>1, <1>2
<1> QED
  <2>1. Total(Tail(s)) = At(s, 2) + At(s, 3) + At(s, 4) + At(s, 5) + At(s, 6)
    BY <1>4, <1>5, <1>6 DEF Total
  <2>2. LET rest == At(s, 2) + At(s, 3) + At(s, 4) + At(s, 5) + At(s, 6)
        IN  /\ Total(s) = At(s, 1) + rest
            /\ rest \in Nat /\ At(s, 1) + rest \in Nat
    BY <1>4, TotalSplits, Zenon
  <2>3. Total(Tail(s)) \in Nat
    BY <2>1, <2>2, Zenon
  <2>4. Total(s) = Head(s) + Total(Tail(s))
    BY <1>5, <2>1, <2>2, Zenon
  <2>5. Total(s) \in Nat
    BY <1>5, <2>1, <2>2, <2>4, Zenon
  <2>6. Len(Tail(s)) <= 6
    BY <1>1, <1>2
  <2> QED
    BY <1>2, <1>7, <2>3, <2>4, <2>5, <2>6

\* The sums of the strings that an answer consists of.
LEMMA Totals ==
  /\ Total(<<>>) = 0
  /\ \A a \in Nat : Total(<<a>>) = a
  /\ \A a, b, c \in Nat : Total(<<a, b, c>>) = a + b + c
BY DEF Total, At

\* A number has one digit at least, and an int ten at most.
LEMMA DigitsBound == ASSUME NEW n PROVE Digits(n) \in 0..10
<1>1. IsFiniteSet(0..9) /\ Cardinality(0..9) = 10
  <2>1. 0 \in Int /\ 9 \in Int /\ 9 - 0 + 1 = 10 /\ ~ (0 > 9)
    OBVIOUS
  <2> QED
    BY <2>1, FS_Interval
<1>2. {k \in 0..9 : k = 0 \/ n >= 10^k} \subseteq 0..9
  OBVIOUS
<1>3. Cardinality({k \in 0..9 : k = 0 \/ n >= 10^k}) <= Cardinality(0..9)
  BY <1>1, <1>2, FS_Subset
<1> QED
  BY <1>1, <1>3, DigitsType DEF Digits

\* The head has a status line, at most.
LEMMA HeadBound == HeadLength \in 17..116
BY DigitsBound DEF HeadLength, Status

\* A sequence between two single elements.
LEMMA Framed ==
  ASSUME NEW a \in Seq(Nat), NEW h \in Seq(Nat), NEW c \in Seq(Nat)
  PROVE  Len(a) = 1 /\ Len(c) = 1 =>
         /\ Len(a \o h \o c) = Len(h) + 2
         /\ DOMAIN (a \o h \o c) = 1..(Len(h) + 2)
         /\ (a \o h \o c)[1] = a[1] /\ (a \o h \o c)[Len(h) + 2] = c[1]
         /\ \A i \in 1..Len(h) : (a \o h \o c)[i + 1] = h[i]
<1> DEFINE s == a \o h
           t == s \o c
<1>1. /\ s \in Seq(Nat) /\ Len(s) = Len(a) + Len(h)
      /\ \A i \in 1..(Len(a) + Len(h)) :
           s[i] = IF i <= Len(a) THEN a[i] ELSE h[i - Len(a)]
  BY ConcatProperties, Zenon
<1>2. /\ t \in Seq(Nat) /\ Len(t) = Len(s) + Len(c)
      /\ \A i \in 1..(Len(s) + Len(c)) :
           t[i] = IF i <= Len(s) THEN s[i] ELSE c[i - Len(s)]
  <2>1. s \in Seq(Nat)
    BY <1>1
  <2> HIDE DEF s
  <2> QED
    BY <2>1, ConcatProperties, Zenon
<1>3. DOMAIN t = 1..Len(t)
  BY <1>2, LenProperties, Zenon
<1>4. Len(h) \in Nat
  BY LenProperties, Zenon
<1> DEFINE n == Len(h)
<1>5. ASSUME Len(a) = 1, Len(c) = 1
      PROVE  /\ Len(t) = n + 2 /\ DOMAIN t = 1..(n + 2)
             /\ t[1] = a[1] /\ t[n + 2] = c[1]
             /\ \A i \in 1..n : t[i + 1] = h[i]
  <2>1. /\ Len(t) = (1 + n) + 1 /\ DOMAIN t = 1..Len(t)
        /\ \A i \in 1..((1 + n) + 1) :
             t[i] = IF i <= 1 + n THEN s[i] ELSE c[i - (1 + n)]
        /\ \A i \in 1..(1 + n) : s[i] = IF i <= 1 THEN a[i] ELSE h[i - 1]
    <3> HIDE DEF s, t
    <3> QED
      BY <1>1, <1>2, <1>3, <1>5, Zenon
  <2>2. n \in Nat
    BY <1>4
  <2>3. \A i \in 1..n : t[i + 1] = h[i]
    <3> HIDE DEF s, t, n
    <3> SUFFICES ASSUME NEW i \in 1..n PROVE t[i + 1] = h[i]
      OBVIOUS
    <3>1. t[i + 1] = s[i + 1]
      BY <2>1, <2>2
    <3>2. s[i + 1] = h[i + 1 - 1]
      BY <2>1, <2>2
    <3>3. i + 1 - 1 = i
      BY <2>2
    <3> QED
      BY <3>1, <3>2, <3>3
  <2>4. /\ Len(t) = n + 2 /\ DOMAIN t = 1..(n + 2)
        /\ t[1] = a[1] /\ t[n + 2] = c[1]
    <3> HIDE DEF s, t, n
    <3> QED
      BY <2>1, <2>2
  <2> QED
    BY <2>3, <2>4
<1> QED
  BY <1>5

\* The headers are as long as they should be.
LEMMA HeadersTotal ==
  ASSUME body \in Buffers
  PROVE  /\ Len(<<Status>> \o Headers \o <<2>>) <= 6
         /\ Total(<<Status>> \o Headers \o <<2>>) = HeadLength
<1> DEFINE D == 18 + Digits(body.cursor)
           a == <<Status>>
           c == <<2>>
           t == a \o Headers \o c
<1>1. /\ Status \in Nat /\ D \in Nat /\ Digits(body.cursor) \in Nat
      /\ body.cursor \in Nat
  BY DigitsType DEF Status, Buffers
<1>2. /\ a \in Seq(Nat) /\ Len(a) = 1 /\ a[1] = Status
      /\ c \in Seq(Nat) /\ Len(c) = 1 /\ c[1] = 2
  BY <1>1
<1>3. CASE body.cursor > 0
  <2>1. Headers = <<D, 25, 19, 18>>
    BY <1>3 DEF Headers
  <2>2. /\ Headers \in Seq(Nat) /\ Len(Headers) = 4
        /\ Headers[1] = D /\ Headers[2] = 25 /\ Headers[3] = 19 /\ Headers[4] = 18
    <3> HIDE DEF D
    <3> QED
      BY <1>1, <2>1
  <2>3. /\ Len(t) = 4 + 2 /\ DOMAIN t = 1..(4 + 2)
        /\ t[1] = a[1] /\ t[4 + 2] = c[1]
        /\ \A i \in 1..4 : t[i + 1] = Headers[i]
    <3>1. /\ Len(t) = Len(Headers) + 2 /\ DOMAIN t = 1..(Len(Headers) + 2)
          /\ t[1] = a[1] /\ t[Len(Headers) + 2] = c[1]
          /\ \A i \in 1..Len(Headers) : t[i + 1] = Headers[i]
      <4> HIDE DEF a, c
      <4>1. Headers \in Seq(Nat)
        BY <2>2
      <4> QED
        BY <1>2, <4>1, Framed
    <3> HIDE DEF a, c, t
    <3> QED
      BY <2>2, <3>1, Zenon
  <2>4. /\ t[1] = Status /\ t[2] = D /\ t[3] = 25 /\ t[4] = 19 /\ t[5] = 18
        /\ t[6] = 2 /\ DOMAIN t = 1..6 /\ Len(t) = 6
    <3> HIDE DEF D, a, c, t
    <3>1. /\ t[1 + 1] = Headers[1] /\ t[2 + 1] = Headers[2]
          /\ t[3 + 1] = Headers[3] /\ t[4 + 1] = Headers[4]
      BY <2>3
    <3> QED
      BY <1>2, <2>2, <2>3, <3>1
  <2>5. Total(t) = Status + D + 25 + 19 + 18 + 2
    <3> HIDE DEF D, a, c, t
    <3> QED
      BY <2>4 DEF Total, At
  <2>6. HeadLength = Status + 2 + (80 + Digits(body.cursor))
    BY <1>1, <1>3 DEF HeadLength
  <2>7. Total(t) = HeadLength
    <3> HIDE DEF a, c, t
    <3> QED
      BY <1>1, <2>5, <2>6
  <2> QED
    BY <2>4, <2>7
<1>4. CASE ~ (body.cursor > 0)
  <2>1. Headers = <<>> /\ Headers \in Seq(Nat) /\ Len(Headers) = 0
    BY <1>4 DEF Headers
  <2>2. /\ Len(t) = 0 + 2 /\ DOMAIN t = 1..(0 + 2)
        /\ t[1] = a[1] /\ t[0 + 2] = c[1]
    <3>1. /\ Len(t) = Len(Headers) + 2 /\ DOMAIN t = 1..(Len(Headers) + 2)
          /\ t[1] = a[1] /\ t[Len(Headers) + 2] = c[1]
      <4> HIDE DEF a, c
      <4> QED
        BY <1>2, <2>1, Framed
    <3> HIDE DEF a, c, t
    <3> QED
      BY <2>1, <3>1, Zenon
  <2>3. t[1] = Status /\ t[2] = 2 /\ DOMAIN t = 1..2 /\ Len(t) = 2
    <3> HIDE DEF a, c, t
    <3> QED
      BY <1>2, <2>2
  <2>4. Total(t) = Status + 2
    <3> HIDE DEF a, c, t
    <3> QED
      BY <1>1, <2>3 DEF Total, At
  <2>5. HeadLength = Status + 2
    BY <1>1, <1>4 DEF HeadLength
  <2> QED
    BY <2>3, <2>4, <2>5
<1> QED
  BY <1>3, <1>4

\* Outside of the response its variables are as they should be between two.
LEMMA LengthFrame ==
  ASSUME LengthInv, stage \notin Answering, stage' \notin Answering,
         UNCHANGED responseVars
  PROVE  LengthInv'
BY DEF LengthInv, Answering, responseVars, writeVars

\* Every failure is as long as its kind says, 51 bytes at most.
LEMMA FailureTotal ==
  ASSUME QueryError \/ FailureGeneric \/ MissingHash \/ EmptyReply
  PROVE  /\ Len(pending') <= 6 /\ Total(pending') \in 0..51
         /\ Total(pending') \in Lengths'
<1>1. CASE QueryError
  <2>1. answer' = "query error" /\ pending' = <<33>>
    BY <1>1 DEF QueryError, Answer
  <2>2. Total(<<33>>) = 33 /\ Len(<<33>>) = 1
    BY Totals
  <2>3. Lengths' = {33}
    BY <2>1, Zenon DEF Lengths
  <2>4. Len(pending') = 1 /\ Total(pending') = 33
    BY <2>1, <2>2, Zenon
  <2>5. 1 <= 6 /\ 33 \in 0..51
    OBVIOUS
  <2> QED
    BY <2>3, <2>4, <2>5, Zenon
<1>2. CASE MissingHash
  <2>1. answer' = "missing" /\ pending' = <<51>>
    BY <1>2 DEF MissingHash, Answer
  <2>2. Total(<<51>>) = 51 /\ Len(<<51>>) = 1
    BY Totals
  <2>3. Lengths' = {51}
    BY <2>1, Zenon DEF Lengths
  <2>4. Len(pending') = 1 /\ Total(pending') = 51
    BY <2>1, <2>2, Zenon
  <2>5. 1 <= 6 /\ 51 \in 0..51
    OBVIOUS
  <2> QED
    BY <2>3, <2>4, <2>5, Zenon
<1>3. CASE EmptyReply
  <2>1. answer' = "empty" /\ pending' = <<>>
    BY <1>3 DEF EmptyReply, Answer
  <2>2. Total(<<>>) = 0 /\ Len(<<>>) = 0
    BY Totals
  <2> QED
    BY <2>1, <2>2 DEF Lengths
<1>4. CASE FailureGeneric
  <2>1. PICK m : m = Message(error)
    OBVIOUS
  <2>2. m \in 12..24
    BY <2>1 DEF Message
  <2>3. answer' = "failure" /\ pending' = <<18, m + 3, 1>>
    BY <1>4, <2>1 DEF FailureGeneric, Answer
  <2>4. m + 3 \in Nat /\ 18 + (m + 3) + 1 \in 34..46
    BY <2>2
  <2>5. Total(<<18, m + 3, 1>>) = 18 + (m + 3) + 1 /\ Len(<<18, m + 3, 1>>) = 3
    BY <2>4, Totals
  <2> QED
    BY <2>3, <2>4, <2>5 DEF Lengths
<1> QED
  BY <1>1, <1>2, <1>3, <1>4

\* An answer is what its kind says, in a body that was empty.
LEMMA AnswersKeepLength ==
  RequestInv /\ LengthInv
    /\ (QueryError \/ FailureGeneric \/ MissingHash \/ EmptyReply \/ Listed)
    => LengthInv'
<1> SUFFICES ASSUME RequestInv, LengthInv,
                    QueryError \/ FailureGeneric \/ MissingHash \/ EmptyReply \/ Listed
             PROVE  LengthInv'
  OBVIOUS
<1>1. /\ stage \in {"malformed", "refused", "invalid", "valid", "checked", "listed"}
      /\ stage' = "body" /\ UNCHANGED resp
  BY DEF QueryError, FailureGeneric, MissingHash, EmptyReply, Listed, Wanted, Answer
<1>2. /\ body.cursor = 0 /\ resp.cursor = 0 /\ pending = <<>>
      /\ printed \in Nat
  BY <1>1 DEF LengthInv, Answering, RequestInv, ReplyInv
<1>9. ASSUME Listed
      PROVE  /\ Text \in Nat /\ Text' = Text
             /\ list # "peers" => Text = printed
  <2>1. stage = "listed" /\ UNCHANGED <<printed, count, cut>>
    BY <1>9 DEF Listed, replyVars
  <2>2. list \in {"peers", "torrents"}
    BY <2>1 DEF RequestInv, ReplyInv
  <2> QED
    BY <2>1, <2>2, TextFits DEF Text, Allocation
<1>3. Len(pending') <= 6 /\ body'.cursor + Total(pending') \in Lengths'
  <2>1. CASE QueryError \/ FailureGeneric \/ MissingHash \/ EmptyReply
    <3>1. UNCHANGED body
      BY <2>1 DEF QueryError, FailureGeneric, MissingHash, EmptyReply, Answer
    <3>2. /\ Len(pending') <= 6 /\ Total(pending') \in 0..51
          /\ Total(pending') \in Lengths'
      BY <2>1, FailureTotal
    <3>3. body'.cursor = 0
      BY <1>2, <3>1
    <3>4. body'.cursor + Total(pending') = Total(pending')
      <4>1. \A x \in 0..51 : 0 + x = x
        OBVIOUS
      <4> QED
        BY <3>2, <3>3, <4>1, Zenon
    <3> QED
      BY <3>2, <3>4
  <2>2. CASE Listed /\ list = "peers"
    <3>1. UNCHANGED body /\ pending' = <<Text>> /\ answer' = "list"
      BY <2>2 DEF Listed, Answer
    <3>2. Total(<<Text>>) = Text /\ Len(<<Text>>) = 1
      BY <1>9, <2>2, Totals
    <3>3. body'.cursor + Total(pending') = Text'
      BY <1>2, <1>9, <2>2, <3>1, <3>2
    <3> QED
      BY <3>1, <3>2, <3>3 DEF Lengths
  <2>3. CASE Listed /\ list # "peers"
    <3>1. /\ UNCHANGED pending /\ answer' = "list"
          /\ body' = WriteOver(body, printed)
      BY <2>3 DEF Listed
    <3>2. WriteOver(body, printed).cursor = printed
      BY <1>2 DEF WriteOver
    <3>3. Total(pending') = 0 /\ Len(pending') = 0
      BY <1>2, <3>1, Totals
    <3>4. body'.cursor + Total(pending') = Text'
      BY <1>2, <1>9, <2>3, <3>1, <3>2, <3>3
    <3> QED
      BY <3>1, <3>3, <3>4 DEF Lengths
  <2> QED
    BY <2>1, <2>2, <2>3
<1> QED
  BY <1>1, <1>2, <1>3 DEF LengthInv, Answering

\* A string moves from what is to be appended to what has been; the write loop
\* ends with everything, or with no try left.
LEMMA SendKeepsLength == RequestInv /\ LengthInv /\ Send => LengthInv'
<1> SUFFICES ASSUME RequestInv, LengthInv, Send PROVE LengthInv'
  OBVIOUS
<1>1. /\ body \in Buffers /\ resp \in Buffers /\ pending \in Seq(Nat)
      /\ body.cursor \in Nat /\ resp.cursor \in Nat /\ Len(pending) <= 6
  BY DEF RequestInv, ResponseInv, LengthInv, Buffers
<1>2. UNCHANGED <<answer, printed, count, cut>> /\ Lengths' = Lengths
  BY DEF Send, replyVars, Lengths, Text, Allocation
<1>3. CASE AppendToBody
  <2>1. /\ stage = "body" /\ stage' = "body" /\ pending # <<>>
        /\ body' = AppendString(body, Head(pending)) /\ pending' = Tail(pending)
        /\ UNCHANGED resp
    BY <1>3 DEF AppendToBody
  <2>2. /\ Head(pending) \in Nat /\ Len(pending') <= 6
        /\ Total(pending') \in Nat
        /\ Total(pending) = Head(pending) + Total(pending')
    BY <1>1, <2>1, TotalTail
  <2>3. body'.cursor = body.cursor + Head(pending)
    BY <2>1 DEF AppendString
  <2>4. body'.cursor + Total(pending') = body.cursor + Total(pending)
    BY <1>1, <2>2, <2>3
  <2>5. body.cursor + Total(pending) \in Lengths /\ resp.cursor = 0
    BY <2>1 DEF LengthInv, Answering
  <2> QED
    BY <1>2, <2>1, <2>2, <2>4, <2>5 DEF LengthInv, Answering
<1>4. CASE BeginResponse
  <2>1. /\ stage = "body" /\ stage' = "headers" /\ pending = <<>>
        /\ pending' = <<Status>> \o Headers \o <<2>>
        /\ announced' = body.cursor /\ UNCHANGED <<code, body, resp>>
    BY <1>4 DEF BeginResponse
  <2>2. Len(pending') <= 6 /\ Total(pending') = HeadLength
    BY <1>1, <2>1, HeadersTotal
  <2>3. HeadLength' = HeadLength
    BY <2>1 DEF HeadLength, Status, Digits
  <2>4. body.cursor \in Lengths /\ resp.cursor = 0
    <3>1. body.cursor + Total(<<>>) = body.cursor
      BY <1>1, Totals
    <3> QED
      BY <2>1, <3>1 DEF LengthInv, Answering
  <2>5. resp'.cursor + Total(pending') = HeadLength'
    BY <2>1, <2>2, <2>3, <2>4, HeadBound
  <2> QED
    BY <1>2, <2>1, <2>2, <2>4, <2>5 DEF LengthInv, Answering
<1>5. CASE AppendHeader
  <2>1. /\ stage = "headers" /\ stage' = "headers" /\ pending # <<>>
        /\ resp' = AppendString(resp, Head(pending)) /\ pending' = Tail(pending)
        /\ UNCHANGED <<code, body, announced>>
    BY <1>5 DEF AppendHeader
  <2>2. /\ Head(pending) \in Nat /\ Len(pending') <= 6
        /\ Total(pending') \in Nat
        /\ Total(pending) = Head(pending) + Total(pending')
    BY <1>1, <2>1, TotalTail
  <2>3. resp'.cursor = resp.cursor + Head(pending)
    BY <2>1 DEF AppendString
  <2>4. HeadLength' = HeadLength
    BY <2>1 DEF HeadLength, Status, Digits
  <2>5. /\ resp.cursor + Total(pending) = HeadLength
        /\ announced = body.cursor /\ body.cursor \in Lengths
    BY <2>1 DEF LengthInv, Answering
  <2>6. resp'.cursor + Total(pending') = resp.cursor + Total(pending)
    BY <1>1, <2>2, <2>3
  <2>7. resp'.cursor + Total(pending') = HeadLength'
    BY <2>4, <2>5, <2>6
  <2> QED
    BY <1>2, <2>1, <2>2, <2>5, <2>7 DEF LengthInv, Answering
<1>6. CASE AppendBody
  <2>1. /\ stage = "headers" /\ stage' = "write" /\ pending = <<>>
        /\ resp' = AppendBuffer(resp, body) /\ got' = 0
        /\ UNCHANGED <<code, body, announced, pending>>
    BY <1>6 DEF AppendBody
  <2>2. HeadLength' = HeadLength
    BY <2>1 DEF HeadLength, Status, Digits
  <2>3. /\ resp.cursor + Total(<<>>) = HeadLength
        /\ announced = body.cursor /\ body.cursor \in Lengths
    BY <2>1 DEF LengthInv, Answering
  <2>4. resp'.cursor = resp.cursor + body.cursor
    BY <2>1 DEF AppendBuffer
  <2>5. resp'.cursor = HeadLength' + body'.cursor /\ 0 < resp'.cursor
    BY <1>1, <2>1, <2>2, <2>3, <2>4, Totals, HeadBound
  <2> QED
    BY <1>1, <1>2, <2>1, <2>3, <2>5 DEF LengthInv, Answering
<1>7. CASE WriteLoop
  <2>1. /\ stage = "write" /\ stage' \in {"write", "sent", "given up"}
        /\ UNCHANGED <<code, body, resp, pending, announced>>
    BY <1>7 DEF WriteLoop, WritePart, WriteRest, WriteFails
  <2>2. HeadLength' = HeadLength
    BY <2>1 DEF HeadLength, Status, Digits
  <2>3. /\ resp.cursor = HeadLength + body.cursor /\ pending = <<>>
        /\ announced = body.cursor /\ body.cursor \in Lengths
        /\ got < resp.cursor
    BY <2>1 DEF LengthInv, Answering
  <2>4. /\ got = written /\ got \in Nat /\ tries \in 0..MaxFailures /\ tries # 0
    BY <2>1 DEF RequestInv, ResponseInv
  <2>5. /\ stage' = "write" => got' < resp.cursor
        /\ stage' = "sent" => got' = resp.cursor /\ tries' > 0
        /\ stage' = "given up" => tries' = 0 /\ got' < resp.cursor
    <3>1. CASE WritePart
      <4>1. PICK n \in Pieces : n < resp.cursor - written /\ Takes(n)
        BY <3>1 DEF WritePart
      <4>2. n \in Nat
        BY ResponseAssumption
      <4>3. got' = got + n /\ stage' = "write"
        BY <2>1, <3>1, <4>1 DEF WritePart, Takes
      <4> QED
        BY <1>1, <2>4, <4>1, <4>2, <4>3
    <3>2. CASE WriteRest
      <4>1. got' = got + (resp.cursor - written) /\ tries' = tries /\ stage' = "sent"
        BY <3>2 DEF WriteRest, Takes
      <4> QED
        BY <1>1, <2>4, <4>1, ResponseAssumption
    <3>3. CASE WriteFails
      <4>1. /\ tries' = tries - 1 /\ got' = got
            /\ stage' = IF tries = 1 THEN "given up" ELSE "write"
        BY <3>3 DEF WriteFails
      <4>2. 1 - 1 = 0
        OBVIOUS
      <4>3. tries = 1 => tries' = 0
        BY <4>1, <4>2, Zenon
      <4> QED
        BY <2>3, <4>1, <4>3
    <3> QED
      BY <1>7, <3>1, <3>2, <3>3 DEF WriteLoop
  <2>6. resp'.cursor = HeadLength' + body'.cursor /\ Len(pending') <= 6
    BY <1>1, <2>1, <2>2, <2>3
  <2> QED
    BY <1>2, <2>1, <2>3, <2>5, <2>6 DEF LengthInv, Answering
<1> QED
  BY <1>3, <1>4, <1>5, <1>6, <1>7 DEF Send, Respond

\* LengthInv is inductive together with RequestInv.
LEMMA LengthKept == RequestInv /\ LengthInv /\ [Next]_vars => LengthInv'
<1> SUFFICES ASSUME RequestInv, LengthInv, [Next]_vars PROVE LengthInv'
  OBVIOUS
<1>1. CASE Begin
  BY <1>1, LengthFrame DEF Begin, Start, Answering
<1>2. CASE Read
  BY <1>2, LengthFrame DEF Read, ReadQuery, ReadPair, Malformed, Check, Build,
                           Sanitize, Answering
<1>3. CASE QueryError \/ FailureGeneric \/ MissingHash \/ EmptyReply \/ Listed
  BY <1>3, AnswersKeepLength
<1>4. CASE ListPeers \/ ListTorrents
  BY <1>4, LengthFrame DEF ListPeers, ListTorrents, Answering
<1>5. CASE List
  BY <1>5, LengthFrame DEF List, PrintReply, Header, Entry, Close, Overrun,
                           Answering
<1>6. CASE Send
  BY <1>6, SendKeepsLength
<1>7. CASE Complete
  <2>1. /\ stage' = "idle" /\ pending' = <<>>
        /\ body'.cursor = 0 /\ resp'.cursor = 0
    BY <1>7 DEF Complete, Zeroed, RequestInv, ResponseInv, Buffers
  <2>2. Len(<<>>) <= 6
    OBVIOUS
  <2> QED
    BY <2>1, <2>2 DEF LengthInv, Answering
<1>8. CASE UNCHANGED vars
  <2>1. /\ UNCHANGED <<stage, printed, code, body, resp, pending, announced,
                        tries, got, answer>>
    BY <1>8 DEF vars, replyVars, responseVars, writeVars
  <2>2. HeadLength' = HeadLength /\ Lengths' = Lengths
    BY <2>1 DEF HeadLength, Status, Digits, Lengths
  <2> QED
    BY <2>1, <2>2 DEF LengthInv
<1> QED
  BY <1>1, <1>2, <1>3, <1>4, <1>5, <1>6, <1>7, <1>8 DEF Next, Handle

\* At every step the buffers and the strings still to come make the response.
LEMMA LengthInvariant == Spec => [](RequestInv /\ LengthInv)
<1>1. Init => LengthInv
  <2>1. Len(<<>>) <= 6 /\ Made.cursor = 0
    BY DEF Made
  <2> QED
    BY <2>1 DEF Init, NoResponse, LengthInv, Answering
<1> QED
  BY <1>1, LengthKept, RequestInvariant, PTL DEF Spec

\* The loop of http_response ends with the whole of the response, which is the
\* status line, the headers and the body announced, or after as many failures
\* as it allows, with something unsent.
THEOREM ResponsesEnd == Spec => []SentOrGivenUp
<1>1. RequestInv /\ LengthInv => SentOrGivenUp
  <2> SUFFICES ASSUME RequestInv, LengthInv PROVE SentOrGivenUp
    OBVIOUS
  <2>1. ASSUME stage = "sent"
        PROVE  /\ got = resp.cursor /\ tries > 0
               /\ got = announced + Status + 2 +
                    (IF announced = 0 THEN 0 ELSE 80 + Digits(announced))
    <3>1. /\ got = resp.cursor /\ tries > 0 /\ announced = body.cursor
          /\ resp.cursor = HeadLength + body.cursor
      BY <2>1 DEF LengthInv, Answering
    <3>2. body.cursor \in Nat /\ Status \in Nat /\ Digits(announced) \in Nat
      BY DigitsType DEF RequestInv, ResponseInv, Buffers, Status
    <3> QED
      BY <3>1, <3>2 DEF HeadLength
  <2>2. ASSUME stage = "given up" PROVE tries = 0 /\ got < resp.cursor
    BY <2>2 DEF LengthInv
  <2> QED
    BY <2>1, <2>2 DEF SentOrGivenUp
<1> QED
  BY <1>1, LengthInvariant, PTL

\* The content-length of http_response is the length of the reply that this
\* request has led to.
THEOREM RepliesAnnounced == Spec => []AnnouncesTheReply
<1>1. LengthInv => AnnouncesTheReply
  BY DEF LengthInv, Answering, Lengths, AnnouncesTheReply
<1> QED
  BY <1>1, LengthInvariant, PTL

-----------------------------------------------------------------------------
(* The size of the buffers.                                                *)

\* The longest body and the longest response, and how far a buffer may grow
\* for them.
MaxCount == IF MaxPeers > MaxPairs THEN MaxPeers ELSE MaxPairs
MaxBody == 128 * MaxCount + 51
MaxResp == MaxBody + 116
MaxSize == 2 * MaxResp + 2 * BufferSize + 2

\* An int holds the largest size and one more step of growth.
IntsAreWide == MaxSize + MaxResp + BufferSize + 1 <= HalfRange

\* The contents of the buffers are bounded, and with them their sizes.
SizeInv ==
  /\ Fits(body) /\ Fits(resp)
  /\ body.size <= MaxSize /\ resp.size <= MaxSize
  /\ Len(pairs) <= MaxPairs
  /\ stage \in {"header", "entries", "listed"} => count <= MaxCount
  /\ stage = "body" => body.cursor + Total(pending) <= MaxBody
  /\ stage \in Answering \ {"body"} => body.cursor <= MaxBody

\* The bounds are numbers, and how they relate.
LEMMA Bounds ==
  /\ MaxCount \in Nat /\ MaxPeers <= MaxCount /\ MaxPairs <= MaxCount
  /\ MaxBody \in Nat /\ 128 * MaxCount <= MaxBody /\ 51 <= MaxBody
  /\ MaxResp \in Nat /\ MaxResp = MaxBody + 116
  /\ MaxSize \in Nat /\ MaxSize = 2 * MaxResp + 2 * BufferSize + 2
  /\ BufferSize \in Nat /\ HalfRange \in Nat
<1>1. /\ MaxCount \in Nat /\ MaxPeers <= MaxCount /\ MaxPairs <= MaxCount
      /\ BufferSize \in Nat /\ HalfRange \in Nat
  BY RequestAssumption, QueryAssumption, BufferAssumption DEF MaxCount
<1> QED
  BY <1>1 DEF MaxBody, MaxResp, MaxSize

\* While the contents stay in their bounds, every operation stays in the
\* allocation and leaves it in its bound.
LEMMA OperationsFit ==
  ASSUME IntsAreWide, NEW b \in Buffers, Fits(b), b.size <= MaxSize,
         NEW len \in Nat, b.cursor + len <= MaxResp
  PROVE  /\ Fits(AppendString(b, len)) /\ AppendString(b, len).size <= MaxSize
         /\ Fits(WriteOver(b, len)) /\ WriteOver(b, len).size <= MaxSize
         /\ \A c \in Buffers : c.cursor = len =>
              Fits(AppendBuffer(b, c)) /\ AppendBuffer(b, c).size <= MaxSize
<1>1. b.size \in Nat /\ b.cursor \in Nat /\ len + 1 \in Nat
  BY DEF Buffers
<1>2. /\ Need(len) \in Nat /\ Need(len) <= len + BufferSize
      /\ Need(len + 1) \in Nat /\ Need(len + 1) <= (len + 1) + BufferSize
  BY <1>1, NeedExceeds, NeedIsClose
<1>3. /\ b.size + Need(len) <= HalfRange
      /\ b.size + Need(len + 1) <= HalfRange
  BY <1>1, <1>2, Bounds DEF IntsAreWide
<1>4. /\ b.cursor + 2 * len + 2 * BufferSize <= MaxSize
      /\ b.cursor + 2 * (len + 1) + 2 * BufferSize <= MaxSize
  BY <1>1, Bounds
<1>5. Aligned(b, len) <= MaxSize /\ Aligned(b, len + 1) <= MaxSize
  BY <1>1, <1>3, <1>4, Bounds, GrowsWithContents
<1>6. Fits(AppendString(b, len)) /\ AppendString(b, len).size <= MaxSize
  BY <1>3, <1>5, AppendStringFits DEF AppendString
<1>7. Fits(WriteOver(b, len)) /\ WriteOver(b, len).size <= MaxSize
  BY <1>3, <1>5, WriteOverFits DEF WriteOver
<1>8. ASSUME NEW c \in Buffers, c.cursor = len
      PROVE  Fits(AppendBuffer(b, c)) /\ AppendBuffer(b, c).size <= MaxSize
  BY <1>3, <1>5, <1>8, AppendBufferFits DEF AppendBuffer
<1> QED
  BY <1>6, <1>7, <1>8

\* A reply begins in a body that is empty.
LEMMA AnswersKeepSize ==
  IntsAreWide /\ RequestInv /\ LengthInv /\ SizeInv
    /\ (QueryError \/ FailureGeneric \/ MissingHash \/ EmptyReply \/ Listed)
    => SizeInv'
<1> SUFFICES ASSUME IntsAreWide, RequestInv, LengthInv, SizeInv,
                    QueryError \/ FailureGeneric \/ MissingHash \/ EmptyReply \/ Listed
             PROVE  SizeInv'
  OBVIOUS
<1>1. /\ stage \in {"malformed", "refused", "invalid", "valid", "checked", "listed"}
      /\ stage' = "body" /\ UNCHANGED resp
  BY DEF QueryError, FailureGeneric, MissingHash, EmptyReply, Listed, Wanted, Answer
<1>2. /\ body.cursor = 0 /\ pending = <<>> /\ printed \in Nat /\ body \in Buffers
      /\ Fits(body) /\ body.size <= MaxSize /\ Fits(resp) /\ resp.size <= MaxSize
  BY <1>1 DEF LengthInv, Answering, RequestInv, ReplyInv, ResponseInv, SizeInv
<1>3. Len(pairs') <= MaxPairs
  <2>1. CASE Forget
    <3>1. pairs' = <<>> /\ Len(<<>>) = 0
      BY <2>1 DEF Forget
    <3> QED
      BY <3>1, QueryAssumption
  <2>2. CASE Listed
    BY <2>2 DEF Listed, queryVars, SizeInv
  <2> QED
    BY <2>1, <2>2 DEF QueryError, FailureGeneric, MissingHash, EmptyReply
<1>4. ASSUME UNCHANGED body, Total(pending') \in Nat, Total(pending') <= MaxBody
      PROVE  SizeInv'
  <2>1. Fits(body') /\ Fits(resp') /\ body'.size <= MaxSize /\ resp'.size <= MaxSize
    BY <1>1, <1>2, <1>4
  <2>2. body'.cursor + Total(pending') <= MaxBody
    <3>1. body'.cursor = 0
      BY <1>2, <1>4
    <3> QED
      BY <1>4, <3>1
  <2> QED
    BY <1>1, <1>3, <2>1, <2>2 DEF SizeInv, Answering
<1>5. CASE QueryError \/ FailureGeneric \/ MissingHash \/ EmptyReply
  <2>1. UNCHANGED body
    BY <1>5 DEF QueryError, FailureGeneric, MissingHash, EmptyReply, Answer
  <2>2. Total(pending') \in 0..51
    BY <1>5, FailureTotal
  <2>3. \A n \in 0..51 : n \in Nat /\ n <= MaxBody
    BY Bounds
  <2> QED
    BY <1>4, <2>1, <2>2, <2>3
<1>6. CASE Listed
  <2>1. /\ Text \in Nat /\ Text <= MaxBody /\ 0 + Text <= MaxResp
        /\ list # "peers" => Text = printed
    <3>1. /\ stage = "listed" /\ count \in Nat /\ list \in {"peers", "torrents"}
      BY <1>6 DEF Listed, RequestInv, ReplyInv
    <3>2. count <= MaxCount
      BY <3>1 DEF SizeInv
    <3>3. /\ Text \in Nat /\ Text <= 128 * count
          /\ list # "peers" => Text = printed
      BY <3>1, TextFits
    <3>4. Text <= MaxBody
      BY <3>1, <3>2, <3>3, Bounds DEF MaxBody
    <3> QED
      BY <3>3, <3>4, Bounds
  <2>2. CASE list = "peers"
    <3>1. UNCHANGED body /\ pending' = <<Text>>
      BY <1>6, <2>2 DEF Listed, Answer
    <3>2. Total(pending') = Text
      BY <2>1, <3>1, Totals
    <3> QED
      BY <1>2, <1>4, <2>1, <3>1, <3>2
  <2>3. CASE list # "peers"
    <3>1. body' = WriteOver(body, printed) /\ UNCHANGED pending
      BY <1>6, <2>3 DEF Listed
    <3>2. /\ Fits(WriteOver(body, printed)) /\ WriteOver(body, printed).size <= MaxSize
          /\ WriteOver(body, printed).cursor = printed
      <4>1. body.cursor + printed <= MaxResp
        BY <1>2, <2>1, <2>3
      <4>2. WriteOver(body, printed).cursor = printed
        BY <1>2 DEF WriteOver
      <4> QED
        BY <1>2, <4>1, <4>2, OperationsFit
    <3>3. Total(pending') = 0
      BY <1>2, <3>1, Totals
    <3>4. body'.cursor + Total(pending') <= MaxBody
      <4>1. body'.cursor = printed
        BY <3>1, <3>2
      <4> QED
        BY <1>2, <2>1, <2>3, <3>3, <4>1
    <3>5. Fits(body') /\ Fits(resp') /\ body'.size <= MaxSize /\ resp'.size <= MaxSize
      BY <1>1, <1>2, <3>1, <3>2
    <3> QED
      BY <1>1, <1>3, <3>4, <3>5 DEF SizeInv, Answering
  <2> QED
    BY <2>2, <2>3
<1> QED
  BY <1>5, <1>6

\* The strings are appended in the bounds of what they sum up to.
LEMMA SendKeepsSize ==
  IntsAreWide /\ RequestInv /\ LengthInv /\ SizeInv /\ Send => SizeInv'
<1> SUFFICES ASSUME IntsAreWide, RequestInv, LengthInv, SizeInv, Send
             PROVE  SizeInv'
  OBVIOUS
<1>1. /\ body \in Buffers /\ resp \in Buffers /\ pending \in Seq(Nat)
      /\ body.cursor \in Nat /\ resp.cursor \in Nat /\ Len(pending) <= 6
      /\ Fits(body) /\ body.size <= MaxSize /\ Fits(resp) /\ resp.size <= MaxSize
  BY DEF RequestInv, ResponseInv, LengthInv, SizeInv, Buffers
<1>2. Len(pairs') <= MaxPairs
  BY DEF Send, queryVars, SizeInv
<1>3. CASE AppendToBody
  <2>1. /\ stage = "body" /\ stage' = "body" /\ pending # <<>>
        /\ body' = AppendString(body, Head(pending)) /\ pending' = Tail(pending)
        /\ UNCHANGED resp
    BY <1>3 DEF AppendToBody
  <2>2. /\ Head(pending) \in Nat /\ Total(pending') \in Nat
        /\ Total(pending) = Head(pending) + Total(pending')
    BY <1>1, <2>1, TotalTail
  <2>3. body.cursor + Total(pending) <= MaxBody
    BY <2>1 DEF SizeInv
  <2>4. body.cursor + Head(pending) <= MaxResp
    BY <1>1, <2>2, <2>3, Bounds
  <2>5. Fits(body') /\ body'.size <= MaxSize
    BY <1>1, <2>1, <2>2, <2>4, OperationsFit
  <2>6. body'.cursor + Total(pending') <= MaxBody
    <3>1. body'.cursor = body.cursor + Head(pending)
      BY <2>1 DEF AppendString
    <3> QED
      BY <1>1, <2>2, <2>3, <3>1
  <2>7. Fits(resp') /\ resp'.size <= MaxSize
    BY <1>1, <2>1
  <2> QED
    BY <1>2, <2>1, <2>5, <2>6, <2>7 DEF SizeInv, Answering
<1>4. CASE BeginResponse
  <2>1. /\ stage = "body" /\ stage' = "headers" /\ pending = <<>>
        /\ UNCHANGED <<body, resp>>
    BY <1>4 DEF BeginResponse
  <2>2. body.cursor <= MaxBody
    <3>1. body.cursor + Total(<<>>) <= MaxBody
      BY <2>1 DEF SizeInv
    <3> QED
      BY <1>1, <3>1, Totals
  <2> QED
    BY <1>1, <1>2, <2>1, <2>2 DEF SizeInv, Answering
<1>5. CASE AppendHeader
  <2>1. /\ stage = "headers" /\ stage' = "headers" /\ pending # <<>>
        /\ resp' = AppendString(resp, Head(pending)) /\ UNCHANGED body
    BY <1>5 DEF AppendHeader
  <2>2. /\ Head(pending) \in Nat /\ Total(Tail(pending)) \in Nat
        /\ Total(pending) = Head(pending) + Total(Tail(pending))
    BY <1>1, <2>1, TotalTail
  <2>3. resp.cursor + Total(pending) = HeadLength /\ body.cursor <= MaxBody
    BY <2>1 DEF LengthInv, SizeInv, Answering
  <2>4. resp.cursor + Head(pending) <= MaxResp
    <3>1. resp.cursor + Head(pending) <= HeadLength
      BY <1>1, <2>2, <2>3
    <3>2. HeadLength \in Nat /\ HeadLength <= MaxResp
      BY HeadBound, Bounds
    <3> QED
      BY <1>1, <2>2, <3>1, <3>2, Bounds
  <2>5. Fits(resp') /\ resp'.size <= MaxSize
    BY <1>1, <2>1, <2>2, <2>4, OperationsFit
  <2> QED
    BY <1>1, <1>2, <2>1, <2>3, <2>5 DEF SizeInv, Answering
<1>6. CASE AppendBody
  <2>1. /\ stage = "headers" /\ stage' = "write" /\ pending = <<>>
        /\ resp' = AppendBuffer(resp, body) /\ UNCHANGED body
    BY <1>6 DEF AppendBody
  <2>2. resp.cursor + Total(<<>>) = HeadLength /\ body.cursor <= MaxBody
    BY <2>1 DEF LengthInv, SizeInv, Answering
  <2>3. resp.cursor + body.cursor <= MaxResp
    <3>1. resp.cursor = HeadLength
      BY <1>1, <2>2, Totals
    <3>2. HeadLength \in Nat /\ HeadLength <= 116
      BY HeadBound
    <3> QED
      BY <1>1, <2>2, <3>1, <3>2, Bounds
  <2>4. Fits(resp') /\ resp'.size <= MaxSize
    BY <1>1, <2>1, <2>3, OperationsFit
  <2> QED
    BY <1>1, <1>2, <2>1, <2>2, <2>4 DEF SizeInv, Answering
<1>7. CASE WriteLoop
  <2>1. /\ stage = "write" /\ stage' \in {"write", "sent", "given up"}
        /\ UNCHANGED <<body, resp>>
    BY <1>7 DEF WriteLoop, WritePart, WriteRest, WriteFails
  <2>2. body.cursor <= MaxBody
    BY <2>1 DEF SizeInv, Answering
  <2> QED
    BY <1>1, <1>2, <2>1, <2>2 DEF SizeInv, Answering
<1> QED
  BY <1>3, <1>4, <1>5, <1>6, <1>7 DEF Send, Respond

\* Before there is a reply, the pairs and the entries of a list are counted.
LEMMA CountsKeepSize ==
  RequestInv /\ SizeInv /\ (Begin \/ Read \/ ListPeers \/ ListTorrents \/ List)
    => SizeInv'
<1> SUFFICES ASSUME RequestInv, SizeInv,
                    Begin \/ Read \/ ListPeers \/ ListTorrents \/ List
             PROVE  SizeInv'
  OBVIOUS
<1>1. /\ UNCHANGED <<body, resp>> /\ stage' \notin Answering
      /\ Fits(body) /\ body.size <= MaxSize /\ Fits(resp) /\ resp.size <= MaxSize
  BY DEF Begin, Start, Read, ReadQuery, ReadPair, Malformed, Check, Build, Sanitize,
         ListPeers, ListTorrents, List, PrintReply, Header, Entry, Close, Overrun,
         responseVars, Answering, SizeInv
<1>2. /\ pairs \in Seq(Pairs) /\ Len(pairs) \in Nat /\ Len(pairs) <= MaxPairs
  BY LenProperties DEF RequestInv, QueryInv, SizeInv
<1>3. Len(pairs') <= MaxPairs
  <2>1. ASSUME NEW p \in Pairs, ReadPair(p) PROVE Len(pairs') <= MaxPairs
    <3>1. pairs' = <<p>> \o pairs /\ Len(pairs) < MaxPairs
      BY <2>1 DEF ReadPair
    <3>2. <<p>> \in Seq(Pairs) /\ Len(<<p>>) = 1
      OBVIOUS
    <3>3. Len(pairs') = 1 + Len(pairs)
      BY <1>2, <3>1, <3>2, ConcatProperties
    <3> QED
      BY <1>2, <3>1, <3>3, QueryAssumption
  <2>2. CASE Forget
    <3>1. pairs' = <<>> /\ Len(<<>>) = 0
      BY <2>2 DEF Forget
    <3> QED
      BY <3>1, QueryAssumption
  <2>3. CASE UNCHANGED pairs
    BY <1>2, <2>3
  <2> QED
    BY <2>1, <2>2, <2>3 DEF Begin, Start, Read, ReadQuery, Malformed, Check, Build,
         Sanitize, ListPeers, ListTorrents, List, queryVars
<1>4. stage' \in {"header", "entries", "listed"} => count' <= MaxCount
  <2>1. CASE Begin \/ Read
    BY <2>1 DEF Begin, Start, Read, ReadQuery, ReadPair, Malformed, Check, Build,
                Sanitize
  <2>2. CASE ListPeers
    <3>1. count' \in 1..MaxPeers
      BY <2>2 DEF ListPeers, BeginPeers
    <3> QED
      BY <3>1, Bounds, RequestAssumption
  <2>3. CASE ListTorrents
    <3>1. count' = Len(pairs)
      BY <2>3 DEF ListTorrents, BeginTorrents
    <3> QED
      BY <1>2, <3>1, Bounds, QueryAssumption
  <2>4. CASE List
    BY <2>4 DEF List, PrintReply, Header, Entry, Close, Overrun, SizeInv
  <2> QED
    BY <2>1, <2>2, <2>3, <2>4
<1> QED
  BY <1>1, <1>3, <1>4 DEF SizeInv, Answering

\* SizeInv is inductive together with the two others.
LEMMA SizeKept ==
  IntsAreWide /\ RequestInv /\ LengthInv /\ SizeInv /\ [Next]_vars => SizeInv'
<1> SUFFICES ASSUME IntsAreWide, RequestInv, LengthInv, SizeInv, [Next]_vars
             PROVE  SizeInv'
  OBVIOUS
<1>1. CASE Begin \/ Read \/ ListPeers \/ ListTorrents \/ List
  BY <1>1, CountsKeepSize
<1>2. CASE QueryError \/ FailureGeneric \/ MissingHash \/ EmptyReply \/ Listed
  BY <1>2, AnswersKeepSize
<1>3. CASE Send
  BY <1>3, SendKeepsSize
<1>4. CASE Complete
  <2>1. /\ stage' = "idle" /\ UNCHANGED pairs
        /\ body' = Zeroed(body) /\ resp' = Zeroed(resp)
    BY <1>4 DEF Complete, queryVars
  <2>2. /\ Fits(Zeroed(body)) /\ Zeroed(body).size = body.size
        /\ Fits(Zeroed(resp)) /\ Zeroed(resp).size = resp.size
    <3>1. ASSUME NEW b \in Buffers
          PROVE  Fits(Zeroed(b)) /\ Zeroed(b).size = b.size
      BY DEF Buffers, Zeroed, Fits
    <3> QED
      BY <3>1 DEF RequestInv, ResponseInv
  <2>3. Fits(body') /\ Fits(resp') /\ body'.size <= MaxSize /\ resp'.size <= MaxSize
    BY <2>1, <2>2 DEF SizeInv
  <2> QED
    BY <2>1, <2>3 DEF SizeInv, Answering
<1>5. CASE UNCHANGED vars
  BY <1>5 DEF vars, queryVars, replyVars, responseVars, SizeInv
<1> QED
  BY <1>1, <1>2, <1>3, <1>4, <1>5 DEF Next, Handle

\* If an int holds the size that a buffer may need for the longest reply, no
\* operation writes behind an allocation, in any sequence of requests that use
\* the two buffers one after another.
THEOREM BuffersAlwaysFit ==
  ASSUME IntsAreWide PROVE Spec => []BuffersFit
<1>1. Init => SizeInv
  <2>1. Fits(Made) /\ Made.size = 0 /\ Len(<<>>) = 0
    BY DEF Fits, Made
  <2>2. Len(<<>>) <= MaxPairs /\ Made.size <= MaxSize
    BY <2>1, Bounds, QueryAssumption
  <2> QED
    BY <2>1, <2>2 DEF Init, NoQuery, SizeInv, Answering
<1>2. RequestInv /\ LengthInv /\ SizeInv /\ [Next]_vars => SizeInv'
  BY SizeKept
<1>3. SizeInv => BuffersFit
  BY DEF SizeInv, BuffersFit
<1> QED
  BY <1>1, <1>2, <1>3, LengthInvariant, PTL DEF Spec
=============================================================================
