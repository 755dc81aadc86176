-------------------------------- MODULE Buffer ---------------------------------
(***************************************************************************)
(* The growing buffers (buffer.c) as functions: a buffer is its allocated  *)
(* size, its cursor, and how far the last operation wrote into the         *)
(* allocation.  size is a size_t, cursor and room are ints.                *)
(***************************************************************************)
EXTENDS Integers

CONSTANTS BufferSize,  \* BUFFER_SIZE
          HalfRange    \* an int is at least -HalfRange and less than HalfRange

ASSUME BufferAssumption == /\ BufferSize \in Nat \ {0}
                           /\ HalfRange \in Nat \ {0}

Buffers == [size : Nat, cursor : Nat, top : Nat]

\* mk_buffer: the allocation comes with the first use.
Made == [size |-> 0, cursor |-> 0, top |-> 0]

\* buffer_zero_buffer.
Zeroed(b) == [b EXCEPT !.cursor = 0, !.top = 0]

\* The conversion to int.
AsInt(x) == ((x + HalfRange) % (2 * HalfRange)) - HalfRange

\* Faulty: the division rounds down.
NeedRoundedDown(len) == (len \div BufferSize) * BufferSize

Need(len) == (len \div BufferSize + 1) * BufferSize

Room(b, len) == AsInt(b.size - b.cursor - Need(len))

\* buffer_align_buffer: the size after it.
Aligned(b, len) == IF Room(b, len) <= 0 THEN b.size + Need(len) ELSE b.size

\* buffer_append_string_to_buffer, with the NUL behind the cursor.
AppendString(b, len) == [size   |-> Aligned(b, len + 1),
                         cursor |-> b.cursor + len,
                         top    |-> b.cursor + len + 1]

\* buffer_append_to_buffer.
AppendBuffer(b, c) == [size   |-> Aligned(b, c.cursor),
                       cursor |-> b.cursor + c.cursor,
                       top    |-> b.cursor + c.cursor]

\* buffer_write_to_buffer: from the beginning; nothing happens for no bytes.
WriteOver(b, len) == IF len = 0 THEN b
                     ELSE [size |-> Aligned(b, len), cursor |-> len, top |-> len]

\* Nothing is written behind the allocation, and the cursor is in it.
Fits(b) == b.top <= b.size /\ b.cursor <= b.size
=============================================================================
