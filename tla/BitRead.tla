------------------------------ MODULE BitRead ------------------------------
(***************************************************************************)
(* CBitRead (packetbitbuf.h, packetbitbuf.cpp): the bit reader that keeps  *)
(* a pointer into the buffer and the not yet consumed bits of the last     *)
(* dword it loaded.                                                        *)
(*                                                                         *)
(* Pointers are byte offsets from m_pData, and the words have symbolic     *)
(* contents (module BitWords).                                             *)
(*                                                                         *)
(* The members of the object are one record, so that the code's nested     *)
(* calls (ReadOneBit, FetchNext, GrabNextDWord) are operators from a       *)
(* reader to the reader they leave behind.                                 *)
(***************************************************************************)
EXTENDS BitWords

CONSTANTS
    Sizes,      \* the nBytes the buffer is opened with
    Widths,     \* the numbits of ReadUBitLong and ReadSBitLong
    Positions,  \* the bit positions passed to Seek
    Offsets,    \* the bit offsets passed to SeekRelative
    MaxRun      \* bound on how far single-bit reads run past the end

ASSUME BitReadAssumption ==
    /\ Sizes \subseteq Nat \ {0}
    /\ Widths \subseteq 1 .. 32
    /\ Positions \subseteq Int
    /\ Offsets \subseteq Int
    /\ MaxRun \in Nat

VARIABLES
    rd,         \* the reader: the members of CBitRead
    call        \* the last operation, its argument and what it returned

vars == <<rd, call>>

----------------------------------------------------------------------------
(* The members and the queries *)

\* m_nDataBytes, m_pDataIn, m_nBitsAvail, m_nInBufWord and m_bOverflow.
\* inBounds is history: whether GrabNextDWord loaded every dword inside the
\* buffer.
Readers ==
    [dataBytes : Nat \ {0}, dataIn : Nat, bitsAvail : Int,
     inBufWord : Words, overflow : BOOLEAN, inBounds : BOOLEAN]

\* m_pBufferEnd - m_pData, and m_nDataBits (nBits is never passed)
BufferEnd(r) == r.dataBytes

DataBits(r) == 8 * r.dataBytes

\* m_nDataBytes & 3: the bytes before the first whole dword
nHead(r) == r.dataBytes % 4

MIN(a, b) == IF a < b THEN a ELSE b

GetNumBitsRead(r) ==
    MIN(32 * (r.dataIn \div 4 - 1) + (32 - r.bitsAvail) + 8 * nHead(r),
        DataBits(r))

----------------------------------------------------------------------------
(* Loading *)

\* Fault: the pointer moves the wrong way.
LoadBackwards(r) ==
    [r EXCEPT !.inBufWord = DWordAt(r.dataIn), !.dataIn = @ - 4]

\* The assertion that the source keeps, disabled, before each of its two
\* loads.
InBuffer(r, a) == a + 3 < BufferEnd(r)

\* m_nInBufWord = *(m_pDataIn++) in GrabNextDWord.
LoadDWord(r) ==
    [r EXCEPT !.inBufWord = DWordAt(r.dataIn),
              !.dataIn = @ + 4,
              !.inBounds = @ /\ InBuffer(r, r.dataIn)]

\* Fault: the end of the buffer is not tested for.
GrabPastEnd(r, overflowImmediately) == LoadDWord(r)

GrabNextDWord(r, overflowImmediately) ==
    IF r.dataIn = BufferEnd(r)
      THEN [r EXCEPT !.bitsAvail = 1, !.inBufWord = Zero, !.dataIn = @ + 4,
                     !.overflow = @ \/ overflowImmediately]
      ELSE IF r.dataIn > BufferEnd(r)
             THEN [r EXCEPT !.overflow = TRUE, !.inBufWord = Zero]
             ELSE LoadDWord(r)

FetchNext(r) == GrabNextDWord([r EXCEPT !.bitsAvail = 32], FALSE)

----------------------------------------------------------------------------
(* The operations: the reader they leave behind and what they return *)

\* Fault: the next dword is not fetched when the word is used up.
ConsumeLate(r, n) ==
    [r EXCEPT !.bitsAvail = @ - n, !.inBufWord = ShiftRight(@, n)]

Consume(r, n) ==
    IF r.bitsAvail = n
      THEN FetchNext(r)
      ELSE [r EXCEPT !.bitsAvail = @ - n, !.inBufWord = ShiftRight(@, n)]

AfterReadOneBit(r) == Consume(r, 1)

AfterReadUBitLong(r, n) ==
    IF r.bitsAvail >= n
      THEN Consume(r, n)
      ELSE LET need == n - r.bitsAvail
               g    == GrabNextDWord(r, TRUE)
           IN  IF g.overflow
                 THEN g
                 ELSE [g EXCEPT !.bitsAvail = 32 - need,
                                !.inBufWord = ShiftRight(@, need)]

\* Fault: the second word is merged without the mask.
UBitLongUnmasked(r, n) ==
    IF r.bitsAvail >= n
      THEN Masked(r.inBufWord, n)
      ELSE LET g == GrabNextDWord(r, TRUE)
           IN  IF g.overflow
                 THEN Zero
                 ELSE Or(r.inBufWord, ShiftLeft(g.inBufWord, g.bitsAvail))

UBitLong(r, n) ==
    IF r.bitsAvail >= n
      THEN Masked(r.inBufWord, n)
      ELSE LET need == n - r.bitsAvail
               g    == GrabNextDWord(r, TRUE)
           IN  IF g.overflow
                 THEN Zero
                 ELSE Or(r.inBufWord,
                         ShiftLeft(Masked(g.inBufWord, need), g.bitsAvail))

\* The load of ReadBit.
LoadEagerly(r) ==
    [r EXCEPT !.inBufWord = DWordAt(r.dataIn), !.dataIn = @ + 4]

\* Fault: the overflow flag is not set.
AfterReadBitSilent(r) ==
    IF r.bitsAvail = 1
      THEN LoadEagerly([r EXCEPT !.bitsAvail = 32])
      ELSE [r EXCEPT !.bitsAvail = @ - 1, !.inBufWord = ShiftRight(@, 1)]

\* ReadBit fetches by hand: nothing stops the load at the end of the buffer.
AfterReadBit(r) ==
    IF r.bitsAvail = 1
      THEN LET atEnd == r.dataIn = BufferEnd(r)
               s == [r EXCEPT !.bitsAvail = IF atEnd THEN 1 ELSE 32,
                              !.dataIn = IF atEnd THEN @ + 4 ELSE @]
           IN  LoadEagerly([s EXCEPT !.overflow = @ \/ s.dataIn > BufferEnd(r)])
      ELSE [r EXCEPT !.bitsAvail = @ - 1, !.inBufWord = ShiftRight(@, 1)]

\* Seek to a position of the buffer.
SeekInside(r, p) ==
    LET head == nHead(r)
        adj  == p - 8 * head
    IN  IF r.dataBytes < 4 \/ p \div 8 < head
          THEN [r EXCEPT !.dataIn = head,
                         !.inBufWord = ShiftRight(HeadBytes(head), p % 32),
                         !.bitsAvail = 8 * head - (p % 32)]
          ELSE LET g == GrabNextDWord(
                          [r EXCEPT !.dataIn = 4 * (adj \div 32) + head,
                                    !.bitsAvail = 32], FALSE)
               IN  [g EXCEPT !.inBufWord = ShiftRight(@, adj % 32),
                             !.bitsAvail = MIN(@, 32 - (adj % 32))]

AfterSeek(r, p) ==
    IF p \in 0 .. DataBits(r)
      THEN SeekInside(r, p)
      ELSE SeekInside([r EXCEPT !.overflow = TRUE], DataBits(r))

\* The constructor, or StartReading of an object used before.
Opened(n) ==
    AfterSeek([dataBytes |-> n, dataIn |-> 0, bitsAvail |-> 0,
               inBufWord |-> Zero, overflow |-> FALSE, inBounds |-> TRUE], 0)

----------------------------------------------------------------------------
(* The client *)

Init ==
    \E n \in Sizes :
        /\ rd = Opened(n)
        /\ call = Call("StartReading", n, Zero)

StartReading(n) ==
    rd' = Opened(n) /\ call' = Call("StartReading", n, Zero)

Seek(p) ==
    rd' = AfterSeek(rd, p) /\ call' = Call("Seek", p, Zero)

SeekRelative(d) ==
    /\ rd' = AfterSeek(rd, GetNumBitsRead(rd) + d)
    /\ call' = Call("SeekRelative", d, Zero)

ReadUBitLong(n) ==
    /\ rd' = AfterReadUBitLong(rd, n)
    /\ call' = Call("ReadUBitLong", n, UBitLong(rd, n))

ReadSBitLong(n) ==
    /\ rd' = AfterReadUBitLong(rd, n)
    /\ call' = Call("ReadSBitLong", n, SignExtended(UBitLong(rd, n), n))

ReadOneBit ==
    /\ rd.bitsAvail > -MaxRun
    /\ rd' = AfterReadOneBit(rd)
    /\ call' = Call("ReadOneBit", 1, Masked(rd.inBufWord, 1))

ReadBit ==
    /\ rd.bitsAvail > -MaxRun
    /\ rd.dataIn <= BufferEnd(rd) + MaxRun
    /\ rd' = AfterReadBit(rd)
    /\ call' = Call("ReadBit", 1, Masked(rd.inBufWord, 1))

Next ==
    \/ \E n \in Sizes : StartReading(n)
    \/ \E p \in Positions : Seek(p)
    \/ \E d \in Offsets : SeekRelative(d)
    \/ \E n \in Widths : ReadUBitLong(n)
    \/ \E n \in Widths : ReadSBitLong(n)
    \/ ReadOneBit
    \/ ReadBit

Spec == Init /\ [][Next]_vars

----------------------------------------------------------------------------
(* Properties *)

\* The members keep their types: a word has 32 bits, whatever is shifted into
\* it and loaded.
TypeOK ==
    /\ rd \in Readers
    /\ call \in Calls

\* The unconsumed bits in m_nInBufWord are the bits of the buffer before
\* m_pDataIn, in order and zero extended; behind the buffer they are zeros.
Synced(r) ==
    IF r.dataIn > BufferEnd(r)
      THEN r.inBufWord = Zero
      ELSE r.inBufWord = Bits(8 * r.dataIn - r.bitsAvail, r.bitsAvail)

\* Until the overflow flag is set the reader's two copies of its position,
\* the pointer with the bit count and the contents of the word, agree,
\* whatever mix of reads and seeks came before.
InStep == ~rd.overflow => Synced(rd)

\* m_pDataIn moves in dwords from the odd bytes at the head, so that it meets
\* m_pBufferEnd exactly and the end test (an equality) cannot be stepped over.
\* Behind the end one zero bit is left, so that the next read runs out of
\* words and sets the flag.  A count of no bits occurs at the end of a buffer
\* below four bytes only.
AlignedReader(r) ==
    /\ r.dataIn % 4 = nHead(r)
    /\ r.bitsAvail <= 32
    /\ r.bitsAvail <= 8 * r.dataIn
    /\ r.dataIn > BufferEnd(r) => r.bitsAvail = 1 \/ r.overflow
    /\ r.bitsAvail <= 0 =>
          r.dataBytes < 4 /\ r.dataIn = BufferEnd(r) /\ r.inBufWord = Zero

Aligned == AlignedReader(rd)

\* Every dword that the reads and Seek load lies inside the buffer, as the
\* disabled assertion before the load demands: also after ReadBit has moved
\* the pointer behind the end.
LoadsInBounds == rd.inBounds

\* The same assertion stands before the load of ReadBit, which reads the dword
\* before the place it leaves the pointer at.
EagerLoadsInBounds ==
    [][call'.op = "ReadBit" /\ rd'.dataIn # rd.dataIn
         => InBuffer(rd, rd'.dataIn - 4)]_vars

Stream == INSTANCE BitStream
          WITH len <- DataBits(rd), pos <- GetNumBitsRead(rd),
               overflow <- rd.overflow, synced <- Synced(rd), call <- call

\* The reader implements the bit stream: each read returns the next bits of
\* the buffer and advances over them, or returns zero and sets the flag.
ImplementsStream == Stream!StreamSpec
============================================================================
