----------------------------- MODULE BitStream -----------------------------
(***************************************************************************)
(* What a reader of a received buffer promises: a string of len bits, a    *)
(* position in it, and reads that return the next bits.                    *)
(*                                                                         *)
(* As long as overflow is FALSE a read returns exactly the bits at pos and *)
(* moves pos behind them.  A read that does not fit returns zero, moves    *)
(* pos to the end and sets overflow, which stays set.  Once overflow is    *)
(* set the promise weakens: a read may lose its place (synced = FALSE),    *)
(* and then returns anything until the next seek.                          *)
(***************************************************************************)
EXTENDS BitWords

VARIABLES
    len,        \* bits in the buffer
    pos,        \* the next bit to read, 0 .. len
    overflow,   \* a read or a seek has left the buffer since it was opened
    synced,     \* reads return the bits at pos
    call        \* the last operation, its argument and what it returned

streamVars == <<len, pos, overflow, synced, call>>

\* A buffer is opened, or opened again, and read from its first bit.
Open ==
    /\ len' = 8 * call'.arg
    /\ pos' = 0
    /\ overflow' = FALSE
    /\ synced' = TRUE

StreamInit ==
    /\ call.op = "StartReading"
    /\ call.ret = Zero
    /\ len = 8 * call.arg
    /\ pos = 0
    /\ overflow = FALSE
    /\ synced = TRUE

SeekTo(p) ==
    /\ IF p \in 0 .. len
         THEN pos' = p /\ overflow' = overflow
         ELSE pos' = len /\ overflow' = TRUE
    /\ synced' = TRUE
    /\ len' = len

\* The n bits at pos, as the value w.
ReadNext(n, w) ==
    /\ synced
    /\ pos + n <= len
    /\ call'.ret = w
    /\ pos' = pos + n
    /\ UNCHANGED <<len, overflow, synced>>

\* Fewer than n bits are left.
ReadPastEnd(n) ==
    /\ synced
    /\ pos + n > len
    /\ call'.ret = Zero
    /\ pos' = len
    /\ overflow' = TRUE
    /\ UNCHANGED <<len, synced>>

\* A single-bit read at the end of a buffer shorter than a word goes
\* unnoticed.
ReadUnnoticed ==
    /\ synced
    /\ pos = len
    /\ len < WordBits
    /\ call'.ret = Zero
    /\ UNCHANGED <<len, pos, overflow, synced>>

\* With overflow set a read that fits may fail all the same, and then loses
\* its place.
ReadLosesPlace ==
    /\ synced
    /\ overflow
    /\ call'.ret = Zero
    /\ pos' \in pos .. len
    /\ synced' = FALSE
    /\ UNCHANGED <<len, overflow>>

\* Out of place, nothing is promised but that the flag stays set.
ReadOutOfPlace ==
    /\ ~synced
    /\ overflow
    /\ overflow' = TRUE
    /\ pos' \in 0 .. len
    /\ synced' \in BOOLEAN
    /\ len' = len

Read(n, w) ==
    ReadNext(n, w) \/ ReadPastEnd(n) \/ ReadLosesPlace \/ ReadOutOfPlace

\* The read that runs ahead: it reports the end of the buffer, and may lose
\* its place, together with the last bit instead of after it.
ReadEagerly ==
    \/ pos + 1 < len /\ ReadNext(1, Bits(pos, 1))
    \/ ReadUnnoticed
    \/ ReadOutOfPlace
    \/ /\ synced
       /\ pos + 1 >= len
       /\ call'.ret = IF pos < len THEN Bits(pos, 1) ELSE Zero
       /\ pos' = len
       /\ overflow' = TRUE
       /\ synced' \in BOOLEAN
       /\ len' = len

StreamNext ==
    /\ call' \in Calls
    /\ \/ call'.op = "StartReading" /\ Open
       \/ call'.op = "Seek" /\ SeekTo(call'.arg)
       \/ call'.op = "SeekRelative" /\ SeekTo(pos + call'.arg)
       \/ call'.op = "ReadUBitLong"
          /\ Read(call'.arg, Bits(pos, call'.arg))
       \/ call'.op = "ReadSBitLong"
          /\ Read(call'.arg, SignExtended(Bits(pos, call'.arg), call'.arg))
       \/ call'.op = "ReadOneBit" /\ (Read(1, Bits(pos, 1)) \/ ReadUnnoticed)
       \/ call'.op = "ReadBit" /\ ReadEagerly

StreamSpec == StreamInit /\ [][StreamNext]_streamVars
============================================================================
