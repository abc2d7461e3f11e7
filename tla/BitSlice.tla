------------------------------ MODULE BitSlice ------------------------------
(***************************************************************************)
(* Slices of a bitmap made of words, soes/esc_coe.c: COE_bitsliceGet and   *)
(* COE_bitsliceSet.  A word, a mask and a value are the sets of the bits   *)
(* that are 1, so | is \cup, & is \cap and ~ is the complement.            *)
(***************************************************************************)
EXTENDS Integers

CONSTANT WordBits     \* 64

ASSUME WordBitsAssumption == WordBits \in Nat \ {0}

Bits == 0 .. WordBits - 1
Shl(word, n) == {b + n : b \in word} \cap Bits
Shr(word, n) == {b - n : b \in word} \cap Bits
Mask(length) == 0 .. length - 1

\* The slice lies in the word it begins in and, if it is longer than what is
\* left of that, in the next.
BitsliceGet(bitmap, word, bit, length) ==
  LET w0 == Shr(bitmap[word], bit)
      w1 == IF length + bit > WordBits THEN Shl(bitmap[word + 1], WordBits - bit) ELSE {}
  IN (w1 \cup w0) \cap Mask(length)

Merge(word, mask, value) == (word \ mask) \cup (value \cap mask)

\* Mutant: the upper word left out.
LowWordOnly(bitmap, word, bit, length, value) ==
  [bitmap EXCEPT ![word] = Merge(@, Shl(Mask(length), bit), Shl(value, bit))]

BitsliceSet(bitmap, word, bit, length, value) ==
  LET low == [bitmap EXCEPT ![word] = Merge(@, Shl(Mask(length), bit), Shl(value, bit))]
  IN IF length + bit > WordBits
     THEN [low EXCEPT ![word + 1] = Merge(@, Shr(Mask(length), WordBits - bit),
                                             Shr(value, WordBits - bit))]
     ELSE low
=============================================================================
