------------------------------ MODULE BitWords ------------------------------
(***************************************************************************)
(* The 32-bit words of the bit reader, with symbolic contents.             *)
(*                                                                         *)
(* A bit of the buffer is named by its index: bit i is bit i % 8 of byte   *)
(* i \div 8.  Bits of memory behind the buffer have the numbers that       *)
(* follow.  A word maps each of its 32 bit numbers to the bit of the       *)
(* buffer it is a copy of, or to O for a zero, or to Mixed for the OR of   *)
(* two different bits.  A word made of the wrong bits, of bits in the      *)
(* wrong order or of bits on top of each other so differs from the right   *)
(* one whatever the buffer holds.                                          *)
(***************************************************************************)
EXTENDS Integers

WordBits == 32

BitNrs == 0 .. WordBits - 1

O == -1

Mixed == -2

Words == [BitNrs -> Nat \cup {O, Mixed}]

Zero == [j \in BitNrs |-> O]

\* The n bits of the buffer from p on, zero extended.
Bits(p, n) == [j \in BitNrs |-> IF j < n THEN p + j ELSE O]

\* The dword in memory at byte a.
DWordAt(a) == Bits(8 * a, WordBits)

\* The first k < 4 bytes of the buffer, zero extended.
HeadBytes(k) == Bits(0, 8 * k)

\* w & s_nMaskTable[n]
Masked(w, n) == [j \in BitNrs |-> IF j < n THEN w[j] ELSE O]

\* w >> k and w << k for an unsigned w and 0 <= k < 32
ShiftRight(w, k) ==
    [j \in BitNrs |-> IF j + k < WordBits THEN w[j + k] ELSE O]

ShiftLeft(w, k) == [j \in BitNrs |-> IF j >= k THEN w[j - k] ELSE O]

\* v | w
Or(v, w) ==
    [j \in BitNrs |-> IF v[j] = O THEN w[j]
                      ELSE IF w[j] \in {O, v[j]} THEN v[j] ELSE Mixed]

\* (w << (32 - n)) >> (32 - n) for a signed w: the right shift repeats the
\* top bit
SignExtended(w, n) ==
    [j \in BitNrs |-> IF j < n THEN w[j] ELSE w[n - 1]]

\* An operation of the reader, its argument and the value it returned (zero
\* when it returns none).
Ops == {"StartReading", "Seek", "SeekRelative",
        "ReadUBitLong", "ReadSBitLong", "ReadOneBit", "ReadBit"}

Calls == [op : Ops, arg : Int, ret : Words]

Call(op, arg, ret) == [op |-> op, arg |-> arg, ret |-> ret]
=============================================================================
