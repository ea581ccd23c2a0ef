----------------------------- MODULE MCBitRead -----------------------------
(***************************************************************************)
(* Instances of BitRead for TLC.                                           *)
(***************************************************************************)
EXTENDS BitRead

\* Buffers below a dword, of whole dwords, and with one to three bytes at
\* their head.
MCSizes == {1, 3, 4, 6, 8}

\* Widths that leave a remainder in the word, that fit it exactly and that
\* straddle two words.
MCWidths == {1, 7, 17, 32}

\* Both ends of the buffers, inside the head and inside the last dword, and
\* positions outside.
MCPositions == {-1, 0, 5, 16, 31, 45, 64, 65}

MCOffsets == {-33, -8, 8, 24}

\* For the runs about the end of the buffer.
MCDWord == {4}
=============================================================================
