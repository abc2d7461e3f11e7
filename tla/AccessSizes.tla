---------------------------- MODULE AccessSizes ----------------------------
(***************************************************************************)
(* How soes/hal/linux-lan9252-spidev/esc_hw.c cuts an access into what the *)
(* LAN9252 takes at a time.                                                *)
(***************************************************************************)
EXTENDS Integers

CONSTANT FifoWords    \* words waited for at most (16)

ASSUME FifoWordsAssumption == FifoWords \in Nat \ {0}

\* One byte at an odd address, one or two at an address that is not a multiple
\* of four, never three.
csr_chunk_size(address, len) ==
  LET size == IF len > 4 THEN 4 ELSE len
  IN IF address % 2 = 1 THEN 1
     ELSE IF address % 4 # 0 THEN IF size % 2 = 1 THEN 1 ELSE 2
     ELSE IF size = 3 THEN 1 ELSE size

\* Words for len bytes, the first of them at first in its word if none has been moved.
pram_fifo_range(len, byte_offset, first) ==
  LET bytes == IF byte_offset > 0 THEN len ELSE len + first
      words == bytes \div 4 + (IF bytes % 4 # 0 THEN 1 ELSE 0)
  IN IF words < FifoWords THEN words ELSE FifoWords
=============================================================================
