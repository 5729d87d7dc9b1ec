---------------------------- MODULE BlockBuffer -----------------------------
(***************************************************************************)
(* core/base/BlockBuffer.h: the growable buffer below every connection and *)
(* every message.  A buffer is a record of its contents and the number of  *)
(* blocks it owns; freespace, capacity and maxsize follow from these.  An  *)
(* operation that can fail returns [ok, buf], and takes whether malloc     *)
(* succeeds.                                                               *)
(***************************************************************************)
EXTENDS Integers, Sequences

CONSTANTS
  BlockSize,     \* allocator::requested_size
  MaxBlocks      \* max_blocks

ASSUME BlockBufferAssumption == BlockSize \in Nat \ {0} /\ MaxBlocks \in Nat \ {0}

EmptyBuffer == [data |-> <<>>, block |-> 0]

capacity(b) == b.block * BlockSize
maxsize == MaxBlocks * BlockSize
freespace(b) == capacity(b) - Len(b.data)

Returns(ok, b) == [ok |-> ok, buf |-> b]

\* Mutant: the rest that does not fill a block is forgotten.
IncreaseCapacityRoundsDown(b, size, mem) ==
  LET missing == size - freespace(b)
      newblock == b.block + missing \div BlockSize
  IN IF size = 0 \/ freespace(b) >= size THEN Returns(TRUE, b)
     ELSE IF newblock > MaxBlocks \/ ~mem THEN Returns(FALSE, b)
     ELSE Returns(TRUE, [b EXCEPT !.block = newblock])

\* increase_capacity: as many blocks more as the missing space needs, rounded up.
IncreaseCapacity(b, size, mem) ==
  LET missing == size - freespace(b)
      newblock == b.block + missing \div BlockSize + (IF missing % BlockSize > 0 THEN 1 ELSE 0)
  IN IF size = 0 \/ freespace(b) >= size THEN Returns(TRUE, b)
     ELSE IF newblock > MaxBlocks \/ ~mem THEN Returns(FALSE, b)
     ELSE Returns(TRUE, [b EXCEPT !.block = newblock])

BufferAppend(b, s, mem) ==
  LET grown == IncreaseCapacity(b, Len(s), mem)
  IN IF s = <<>> THEN Returns(TRUE, b)
     ELSE IF grown.ok THEN Returns(TRUE, [grown.buf EXCEPT !.data = @ \o s])
     ELSE Returns(FALSE, b)

\* resize: truncates, or fills up with c.
BufferResize(b, n, c, mem) ==
  IF n <= Len(b.data) THEN Returns(TRUE, [b EXCEPT !.data = SubSeq(@, 1, n)])
  ELSE BufferAppend(b, [i \in 1..(n - Len(b.data)) |-> c], mem)

\* replace at a position from 0: at the end and across it, the contents are cut off
\* before s is appended, and stay cut off where that fails.
BufferReplace(b, pos, s, mem) ==
  LET cut == [b EXCEPT !.data = SubSeq(@, 1, pos)]
      after == SubSeq(b.data, pos + Len(s) + 1, Len(b.data))
  IN IF pos >= Len(b.data) THEN BufferAppend(b, s, mem)
     ELSE IF pos + Len(s) >= Len(b.data) THEN BufferAppend(cut, s, mem)
     ELSE Returns(TRUE, [b EXCEPT !.data = SubSeq(@, 1, pos) \o s \o after])

\* erase(0, n): the blocks of a buffer that becomes empty are freed.
BufferErase(b, n) ==
  IF n >= Len(b.data) THEN EmptyBuffer
  ELSE [b EXCEPT !.data = SubSeq(@, n + 1, Len(@))]

\* Contents fit into the blocks and the blocks into the limit.
BufferOK(b) == b.block \in 0..MaxBlocks /\ Len(b.data) <= capacity(b)
=============================================================================
