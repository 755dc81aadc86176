----------------------------- MODULE BufferProofs -----------------------------
(***************************************************************************)
(* Proofs about the growing buffers: for any BUFFER_SIZE and any width of  *)
(* an int, no operation writes behind the allocation as long as the sizes  *)
(* are those of an int.                                                    *)
(***************************************************************************)
EXTENDS Buffer, TLAPS

\* What a buffer grows by is more than what is to be put into it.
LEMMA NeedExceeds ==
  ASSUME NEW len \in Nat PROVE Need(len) \in Nat /\ len < Need(len)
<1> DEFINE q == len \div BufferSize
<1>1. q \in Nat /\ BufferSize \in Nat
  BY BufferAssumption
<1>2. len < (q + 1) * BufferSize
  BY BufferAssumption, Z3
<1>3. (q + 1) * BufferSize \in Nat
  <2> HIDE DEF q
  <2> QED
    BY <1>1
<1> QED
  BY <1>2, <1>3 DEF Need

\* The conversion to int keeps what an int can hold.
LEMMA IntKept ==
  ASSUME NEW x \in Int, 0 - HalfRange <= x, x < HalfRange PROVE AsInt(x) = x
<1> DEFINE y == x + HalfRange
           m == 2 * HalfRange
<1>1. y \in 0..(m - 1) /\ m \in Nat \ {0}
  BY BufferAssumption
<1>2. y % m = y
  <2> HIDE DEF y, m
  <2> QED
    BY <1>1
<1>3. y - HalfRange = x
  BY BufferAssumption
<1> QED
  BY <1>2, <1>3 DEF AsInt

\* After buffer_align_buffer there are more than len bytes behind the cursor,
\* if the size that it may grow to is an int's.
LEMMA AlignedHasRoom ==
  ASSUME NEW b \in Buffers, Fits(b), NEW len \in Nat,
         b.size + Need(len) <= HalfRange
  PROVE  Aligned(b, len) \in Nat /\ b.cursor + len < Aligned(b, len)
<1>1. /\ b.size \in Nat /\ b.cursor \in Nat /\ b.cursor <= b.size
      /\ Need(len) \in Nat /\ len < Need(len) /\ HalfRange \in Nat
  BY NeedExceeds, BufferAssumption DEF Fits, Buffers
<1> DEFINE r == b.size - b.cursor - Need(len)
<1>2. r \in Int /\ 0 - HalfRange <= r /\ r < HalfRange
  BY <1>1
<1>3. Room(b, len) = r
  BY <1>2, IntKept DEF Room
<1>4. CASE r <= 0
  <2>1. Aligned(b, len) = b.size + Need(len)
    BY <1>3, <1>4 DEF Aligned
  <2> QED
    BY <1>1, <2>1
<1>5. CASE ~(r <= 0)
  <2>1. Aligned(b, len) = b.size
    BY <1>3, <1>5 DEF Aligned
  <2> QED
    BY <1>1, <1>5, <2>1
<1> QED
  BY <1>4, <1>5

\* buffer_append_string_to_buffer writes its string and the NUL inside the
\* allocation.
THEOREM AppendStringFits ==
  ASSUME NEW b \in Buffers, Fits(b), NEW len \in Nat,
         b.size + Need(len + 1) <= HalfRange
  PROVE  AppendString(b, len) \in Buffers /\ Fits(AppendString(b, len))
<1>1. len + 1 \in Nat /\ b.cursor \in Nat
  BY DEF Buffers
<1>2. /\ Aligned(b, len + 1) \in Nat
      /\ b.cursor + (len + 1) < Aligned(b, len + 1)
  BY <1>1, AlignedHasRoom
<1> QED
  BY <1>1, <1>2 DEF AppendString, Buffers, Fits

\* buffer_append_to_buffer copies the other buffer inside the allocation.
THEOREM AppendBufferFits ==
  ASSUME NEW b \in Buffers, Fits(b), NEW c \in Buffers,
         b.size + Need(c.cursor) <= HalfRange
  PROVE  AppendBuffer(b, c) \in Buffers /\ Fits(AppendBuffer(b, c))
<1>1. c.cursor \in Nat /\ b.cursor \in Nat
  BY DEF Buffers
<1>2. /\ Aligned(b, c.cursor) \in Nat
      /\ b.cursor + c.cursor < Aligned(b, c.cursor)
  BY <1>1, AlignedHasRoom
<1> QED
  BY <1>1, <1>2 DEF AppendBuffer, Buffers, Fits

\* buffer_write_to_buffer writes from the beginning, inside the allocation.
THEOREM WriteOverFits ==
  ASSUME NEW b \in Buffers, Fits(b), NEW len \in Nat,
         b.size + Need(len) <= HalfRange
  PROVE  WriteOver(b, len) \in Buffers /\ Fits(WriteOver(b, len))
<1>1. CASE len = 0
  BY <1>1 DEF WriteOver
<1>2. CASE len # 0
  <2>1. b.cursor \in Nat
    BY DEF Buffers
  <2>2. Aligned(b, len) \in Nat /\ b.cursor + len < Aligned(b, len)
    BY AlignedHasRoom
  <2> QED
    BY <1>2, <2>1, <2>2 DEF WriteOver, Buffers, Fits
<1> QED
  BY <1>1, <1>2

\* A buffer grows by no more than what is put into it and a block.
LEMMA NeedIsClose == ASSUME NEW len \in Nat PROVE Need(len) <= len + BufferSize
<1> DEFINE q == len \div BufferSize
<1>1. q \in Nat /\ BufferSize \in Nat
  BY BufferAssumption
<1>2. q * BufferSize <= len
  BY BufferAssumption, Z3
<1>3. (q + 1) * BufferSize = q * BufferSize + BufferSize
  <2> HIDE DEF q
  <2> QED
    BY <1>1
<1>4. q * BufferSize \in Nat
  <2> HIDE DEF q
  <2> QED
    BY <1>1
<1> QED
  <2> HIDE DEF q
  <2>1. Need(len) = (q + 1) * BufferSize
    BY DEF Need, q
  <2> QED
    BY <1>1, <1>2, <1>3, <1>4, <2>1

\* A buffer is grown only when its contents come near its size: one that is not
\* larger than twice the contents and two blocks does not become so.
THEOREM GrowsWithContents ==
  ASSUME NEW b \in Buffers, Fits(b), NEW len \in Nat, NEW max \in Nat,
         b.size <= max, b.size + Need(len) <= HalfRange,
         b.cursor + 2 * len + 2 * BufferSize <= max
  PROVE  Aligned(b, len) <= max
<1>1. /\ b.size \in Nat /\ b.cursor \in Nat /\ b.cursor <= b.size
      /\ Need(len) \in Nat /\ HalfRange \in Nat /\ BufferSize \in Nat
      /\ len < Need(len) /\ Need(len) <= len + BufferSize
  BY NeedExceeds, NeedIsClose, BufferAssumption DEF Fits, Buffers
<1> DEFINE r == b.size - b.cursor - Need(len)
<1>2. r \in Int /\ 0 - HalfRange <= r /\ r < HalfRange
  BY <1>1
<1>3. Room(b, len) = r
  BY <1>2, IntKept DEF Room
<1>4. CASE r <= 0
  <2>1. Aligned(b, len) = b.size + Need(len)
    BY <1>3, <1>4 DEF Aligned
  <2> QED
    BY <1>1, <1>4, <2>1
<1>5. CASE ~(r <= 0)
  BY <1>3, <1>5 DEF Aligned
<1> QED
  BY <1>4, <1>5
=============================================================================
