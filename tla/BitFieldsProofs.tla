-------------------------- MODULE BitFieldsProofs --------------------------
(***************************************************************************)
(* Proofs about BitFields.                                                 *)
(***************************************************************************)
EXTENDS BitFields, FieldLayouts, BitReadProofs, SequenceTheorems,
        WellFoundedInduction

----------------------------------------------------------------------------
(* Integers *)

\* ZigZagDecode32 and ZigZagDecode64 undo ZigZagEncode32 and ZigZagEncode64
\* on every number, the least one included, for every number of bits.
THEOREM ZigZagInverse ==
    ASSUME NEW w \in Nat \ {0}, NEW v \in SUBSET (0 .. w - 1)
    PROVE  ZigZagDecode(ZigZagEncode(v, w), w) = v
<1> DEFINE e == ZigZagEncode(v, w)
<1>1. CASE w - 1 \in v
  <2>1. e = (0 .. w - 1) \ Shl(v, 1, w)
    BY <1>1 DEF ZigZagEncode
  <2>2. 0 \in e
    BY <2>1 DEF Shl
  <2>3. ZigZagDecode(e, w) = (0 .. w - 1) \ Shl(e, -1, w)
    BY <2>2 DEF ZigZagDecode
  <2>4. \A j \in 0 .. w - 1 : j \in Shl(e, -1, w) <=> j \notin v
    BY <1>1, <2>1 DEF Shl
  <2>. QED  BY <2>3, <2>4
<1>2. CASE w - 1 \notin v
  <2>1. e = Shl(v, 1, w)
    BY <1>2 DEF ZigZagEncode
  <2>2. 0 \notin e
    BY <2>1 DEF Shl
  <2>3. ZigZagDecode(e, w) = Shl(e, -1, w)
    BY <2>2 DEF ZigZagDecode
  <2>4. \A j \in 0 .. w - 1 : j \in Shl(e, -1, w) <=> j \in v
    BY <1>2, <2>1 DEF Shl
  <2>. QED  BY <2>3, <2>4 DEF Shl
<1>. QED  BY <1>1, <1>2

----------------------------------------------------------------------------
(* The reads of a decoder *)

ReadOps == [op : {"ReadUBitLong", "ReadSBitLong"}, bits : 1 .. 32] \cup {B}

\* The ways to put reads together make sequences of reads.
LEMMA ReadSeqs ==
    /\ \A n \in 1 .. 32 : U(n) \in ReadOps /\ S(n) \in ReadOps
    /\ B \in ReadOps
    /\ \A r \in ReadOps : <<r>> \in Seq(ReadOps)
    /\ \A s, t \in Seq(ReadOps) : s \o t \in Seq(ReadOps)
    /\ \A n \in Nat, r \in ReadOps : Times(n, r) \in Seq(ReadOps)
    /\ \A c, s : (c => s \in Seq(ReadOps)) => When(c, s) \in Seq(ReadOps)
<1>1. \A n \in 1 .. 32 : U(n) \in ReadOps /\ S(n) \in ReadOps
  BY DEF ReadOps, U, S
<1>2. B \in ReadOps
  BY DEF ReadOps
<1>3. \A r \in ReadOps : <<r>> \in Seq(ReadOps)
  OBVIOUS
<1>4. \A s, t \in Seq(ReadOps) : s \o t \in Seq(ReadOps)
  OBVIOUS
<1>5. \A n \in Nat, r \in ReadOps : Times(n, r) \in Seq(ReadOps)
  BY IsASeq DEF Times
<1>6. \A c, s : (c => s \in Seq(ReadOps)) => When(c, s) \in Seq(ReadOps)
  BY DEF When
<1>. QED  BY <1>1, <1>2, <1>3, <1>4, <1>5, <1>6

\* A read of n bits, alone and on a condition.
LEMMA OneRead ==
    /\ \A n \in 1 .. 32 : <<U(n)>> \in Seq(ReadOps)
    /\ \A n \in 0 .. 32 : When(n > 0, <<U(n)>>) \in Seq(ReadOps)
<1>1. \A n \in 1 .. 32 : <<U(n)>> \in Seq(ReadOps)
  BY ReadSeqs
<1>2. \A n \in 0 .. 32 : When(n > 0, <<U(n)>>) \in Seq(ReadOps)
  <2> TAKE n \in 0 .. 32
  <2>1. CASE n > 0
    BY <1>1, <2>1 DEF When
  <2>2. CASE n = 0
    BY <2>2 DEF When
  <2>. QED  BY <2>1, <2>2
<1>. QED  BY <1>1, <1>2

Gots == Seq(SUBSET BitNrs)

\* Variable size integers and strings.
LEMMA VarReads ==
    ASSUME NEW g \in Gots
    PROVE  /\ VarUBitReads(g) \in Seq(ReadOps)
           /\ UBitVarReads(g) \in Seq(ReadOps)
           /\ \A n \in Nat : VarIntReads(n, g) \in Seq(ReadOps)
           /\ \A b : StringReads(b, g) \in Seq(ReadOps)
<1>1. VarUBitReads(g) \in Seq(ReadOps)
  <2> DEFINE n == IF g = << >> THEN 0 ELSE VarUBitMore(g[1] \cap {5, 6})
  <2>1. n \in 0 .. 32
    BY DEF VarUBitMore
  <2> HIDE DEF n
  <2>2. When(n > 0, <<U(n)>>) \in Seq(ReadOps)
    BY <2>1, OneRead
  <2>3. 7 \in 1 .. 32
    OBVIOUS
  <2>4. <<U(7)>> \in Seq(ReadOps)
    BY <2>3, OneRead
  <2>5. VarUBitReads(g) = <<U(7)>> \o When(n > 0, <<U(n)>>)
    BY DEF VarUBitReads, n
  <2>. QED  BY <2>2, <2>4, <2>5, ReadSeqs
<1>2. UBitVarReads(g) \in Seq(ReadOps)
  <2> DEFINE n == IF g = << >> THEN 0 ELSE UBitVarMore(g[1] \cap {4, 5})
  <2>1. n \in 0 .. 32
    BY DEF UBitVarMore
  <2> HIDE DEF n
  <2>2. When(n > 0, <<U(n)>>) \in Seq(ReadOps)
    BY <2>1, OneRead
  <2>3. 6 \in 1 .. 32
    OBVIOUS
  <2>4. <<U(6)>> \in Seq(ReadOps)
    BY <2>3, OneRead
  <2>5. UBitVarReads(g) = <<U(6)>> \o When(n > 0, <<U(n)>>)
    BY DEF UBitVarReads, n
  <2>. QED  BY <2>2, <2>4, <2>5, ReadSeqs
<1>3. Len(g) \in Nat /\ Len(g) + 1 \in Nat
  BY DEF Gots
<1>4. ASSUME NEW n \in Nat
      PROVE  VarIntReads(n, g) \in Seq(ReadOps)
  <2>1. U(8) \in ReadOps
    BY ReadSeqs
  <2>2. Times(Len(g), U(8)) \in Seq(ReadOps)
        /\ Times(Len(g) + 1, U(8)) \in Seq(ReadOps)
    BY <1>3, <2>1, ReadSeqs
  <2>3. VarIntReads(n, g) \in {Times(Len(g), U(8)), Times(Len(g) + 1, U(8))}
    BY DEF VarIntReads, Until
  <2>. QED  BY <2>2, <2>3
<1>5. ASSUME NEW b
      PROVE  StringReads(b, g) \in Seq(ReadOps)
  <2>1. S(8) \in ReadOps
    BY ReadSeqs
  <2>2. Times(Len(g), S(8)) \in Seq(ReadOps)
        /\ Times(Len(g) + 1, S(8)) \in Seq(ReadOps)
    BY <1>3, <2>1, ReadSeqs
  <2>3. StringReads(b, g) \in {Times(Len(g), S(8)), Times(Len(g) + 1, S(8))}
    BY DEF StringReads, Until
  <2>. QED  BY <2>2, <2>3
<1>. QED  BY <1>1, <1>2, <1>4, <1>5

\* ReadBits.
LEMMA RawReads ==
    ASSUME NEW nBits \in Nat, NEW align \in 0 .. 3
    PROVE  BitsReads(nBits, align) \in Seq(ReadOps)
<1> DEFINE head == MIN((4 - align) % 4, nBits \div 8)
           left == nBits - 8 * head
<1>1. head \in Nat /\ left \in Nat
  BY DEF MIN
<1>2. /\ left \div 32 \in Nat /\ (left % 32) \div 8 \in Nat
      /\ left % 8 \in 0 .. 7
  BY <1>1
<1>3. BitsReads(nBits, align) =
        Times(head, U(8)) \o Times(left \div 32, U(32))
          \o Times((left % 32) \div 8, U(8))
          \o When(left % 8 > 0, <<U(left % 8)>>)
  BY DEF BitsReads
<1> HIDE DEF head, left
<1>4. When(left % 8 > 0, <<U(left % 8)>>) \in Seq(ReadOps)
  <2> DEFINE n == left % 8
  <2>1. n \in 0 .. 32
    BY <1>2
  <2> HIDE DEF n
  <2>2. When(n > 0, <<U(n)>>) \in Seq(ReadOps)
    BY <2>1, OneRead
  <2>. QED  BY <2>2 DEF n
<1>5. U(8) \in ReadOps /\ U(32) \in ReadOps
  BY ReadSeqs
<1>6. /\ Times(head, U(8)) \in Seq(ReadOps)
      /\ Times(left \div 32, U(32)) \in Seq(ReadOps)
      /\ Times((left % 32) \div 8, U(8)) \in Seq(ReadOps)
      /\ When(left % 8 > 0, <<U(left % 8)>>) \in Seq(ReadOps)
  BY <1>1, <1>2, <1>4, <1>5, ReadSeqs
<1>. QED  BY <1>3, <1>6, ReadSeqs

\* Coordinates and normals.
LEMMA CoordSeqs ==
    /\ \A g : CoordReads(g) \in Seq(ReadOps)
    /\ \A t, g : CoordMPReads(t, g) \in Seq(ReadOps)
    /\ \A n \in 1 .. 32 : \A t : CellCoordReads(n, t) \in Seq(ReadOps)
    /\ \A g : Vec3CoordReads(g) \in Seq(ReadOps)
    /\ NormalReads \in Seq(ReadOps)
    /\ \A g : Vec3NormalReads(g) \in Seq(ReadOps)
<1>1. /\ <<B>> \in Seq(ReadOps) /\ <<B, B>> \in Seq(ReadOps)
      /\ <<B, B, B>> \in Seq(ReadOps)
  BY ReadSeqs
<1>2. /\ <<U(COORD_INTEGER_BITS)>> \in Seq(ReadOps)
      /\ <<U(COORD_INTEGER_BITS_MP)>> \in Seq(ReadOps)
      /\ <<U(COORD_FRACTIONAL_BITS)>> \in Seq(ReadOps)
      /\ \A t : <<U(FractBits(t))>> \in Seq(ReadOps)
  <2>1. \A n \in 1 .. 32 : <<U(n)>> \in Seq(ReadOps)
    BY ReadSeqs
  <2>2. \A t : FractBits(t) \in 1 .. 32
    BY DEF FractBits, COORD_FRACTIONAL_BITS,
           COORD_FRACTIONAL_BITS_MP_LOWPRECISION
  <2>. QED  BY <2>1, <2>2 DEF COORD_INTEGER_BITS, COORD_INTEGER_BITS_MP,
                              COORD_FRACTIONAL_BITS
<1>3. \A g : CoordReads(g) \in Seq(ReadOps)
  <2> TAKE g
  <2> DEFINE i == When(Flag(g, 1), <<U(COORD_INTEGER_BITS)>>)
             f == When(Flag(g, 2), <<U(COORD_FRACTIONAL_BITS)>>)
  <2>1. i \in Seq(ReadOps) /\ f \in Seq(ReadOps)
    BY <1>2, ReadSeqs
  <2>2. <<B>> \o i \o f \in Seq(ReadOps)
    BY <1>1, <2>1, ReadSeqs
  <2>3. When(Flag(g, 1) \/ Flag(g, 2), <<B>> \o i \o f) \in Seq(ReadOps)
    BY <2>2, ReadSeqs
  <2>4. CoordReads(g) =
          <<B, B>> \o When(Flag(g, 1) \/ Flag(g, 2), <<B>> \o i \o f)
    BY DEF CoordReads
  <2>. QED  BY <1>1, <2>3, <2>4, ReadSeqs
<1>4. \A t, g : CoordMPReads(t, g) \in Seq(ReadOps)
  <2> TAKE t, g
  <2> DEFINE i == When(Flag(g, 2),
                    <<U(IF Flag(g, 1) THEN COORD_INTEGER_BITS_MP
                                      ELSE COORD_INTEGER_BITS)>>)
             si == When(Flag(g, 2), <<B>> \o i)
  <2>1. i \in Seq(ReadOps)
    BY <1>2, ReadSeqs
  <2>2. si \in Seq(ReadOps)
    BY <1>1, <2>1, ReadSeqs
  <2>3. CoordMPReads(t, g) \in {<<B, B>> \o si,
                                <<B, B, B>> \o i \o <<U(FractBits(t))>>}
    BY DEF CoordMPReads
  <2> HIDE DEF i, si
  <2>4. <<B, B>> \o si \in Seq(ReadOps)
    BY <1>1, <2>2, ReadSeqs
  <2>5. <<B, B, B>> \o i \o <<U(FractBits(t))>> \in Seq(ReadOps)
    BY <1>1, <1>2, <2>1, ReadSeqs
  <2>. QED  BY <2>3, <2>4, <2>5
<1>5. \A n \in 1 .. 32 : \A t : CellCoordReads(n, t) \in Seq(ReadOps)
  <2> TAKE n \in 1 .. 32
  <2> TAKE t
  <2>1. <<U(n)>> \in Seq(ReadOps)
    BY ReadSeqs
  <2>2. When(t # "kCW_Integral", <<U(FractBits(t))>>) \in Seq(ReadOps)
    BY <1>2, ReadSeqs
  <2>. QED  BY <2>1, <2>2, ReadSeqs DEF CellCoordReads
<1>6. \A g : Vec3CoordReads(g) \in Seq(ReadOps)
  <2> TAKE g
  <2> DEFINE c(k) == When(Flag(g, k), CoordReads(Vec3Parts(g)[k]))
  <2>1. c(1) \in Seq(ReadOps) /\ c(2) \in Seq(ReadOps) /\ c(3) \in Seq(ReadOps)
    BY <1>3, ReadSeqs
  <2>2. Vec3CoordReads(g) = <<B, B, B>> \o c(1) \o c(2) \o c(3)
    BY DEF Vec3CoordReads
  <2> HIDE DEF c
  <2>. QED  BY <1>1, <2>1, <2>2, ReadSeqs
<1>7. NormalReads \in Seq(ReadOps)
  BY ReadSeqs DEF NormalReads, NORMAL_FRACTIONAL_BITS
<1>8. \A g : Vec3NormalReads(g) \in Seq(ReadOps)
  <2> TAKE g
  <2>1. /\ When(Flag(g, 1), NormalReads) \in Seq(ReadOps)
        /\ When(Flag(g, 2), NormalReads) \in Seq(ReadOps)
    BY <1>7, ReadSeqs
  <2>. QED  BY <1>1, <2>1, ReadSeqs DEF Vec3NormalReads
<1>. QED  BY <1>3, <1>4, <1>5, <1>6, <1>7, <1>8

\* Whatever a decoder has read, it goes on with reads of one to thirty-two
\* bits.
LEMMA PlanType ==
    ASSUME NEW c, CallOK(c), NEW g \in Gots
    PROVE  ReadsOf(c, g) \in Seq(ReadOps)
<1>1. /\ kMaxVarint32Bytes \in Nat /\ kMaxVarintBytes \in Nat
      /\ <<U(8)>> \in Seq(ReadOps) /\ <<U(16)>> \in Seq(ReadOps)
      /\ <<U(32)>> \in Seq(ReadOps)
      /\ <<S(8)>> \in Seq(ReadOps) /\ <<S(16)>> \in Seq(ReadOps)
  BY ReadSeqs DEF kMaxVarint32Bytes, kMaxVarintBytes
<1>2. CASE c.op \in Plain
  BY <1>1, <1>2, VarReads, CoordSeqs DEF Plain, ReadsOf
<1>3. CASE c.op = "ReadString"
  BY <1>3, VarReads DEF ReadsOf
<1>4. CASE c.op = "ReadBits"
  <2>1. c.arg.nBits \in Nat /\ c.arg.align \in 0 .. 3
    BY <1>4 DEF CallOK, Plain
  <2>. QED  BY <1>4, <2>1, RawReads DEF ReadsOf
<1>5. CASE c.op = "ReadBytes"
  <2>1. 8 * c.arg.nBytes \in Nat /\ c.arg.align \in 0 .. 3
    BY <1>5 DEF CallOK, Plain
  <2>. QED  BY <1>5, <2>1, RawReads DEF ReadsOf
<1>6. CASE c.op = "ReadBitAngle"
  <2>1. c.arg.numbits \in 1 .. 32
    BY <1>6 DEF CallOK, Plain
  <2>. QED  BY <1>6, <2>1, OneRead DEF ReadsOf
<1>7. CASE c.op = "ReadBitCoordMP"
  BY <1>7, CoordSeqs DEF ReadsOf
<1>8. CASE c.op = "ReadBitCellCoord"
  <2>1. c.arg.bits \in 1 .. 32
    BY <1>8 DEF CallOK, Plain
  <2>. QED  BY <1>8, <2>1, CoordSeqs DEF ReadsOf
<1>. QED  BY <1>2, <1>3, <1>4, <1>5, <1>6, <1>7, <1>8 DEF CallOK

----------------------------------------------------------------------------
(* Where the reads leave the reader *)

\* A reader that started at bit a and was asked for u bits since: it has them
\* all, or stands behind the end, or stood at the end of a buffer below a
\* dword, where nothing moves it.
Tracks(r, a, u) ==
    /\ r.overflow => r.dataIn > BufferEnd(r)
    /\ r.dataIn > BufferEnd(r) =>
          /\ a + u >= DataBits(r)
          /\ r.overflow <=> a + u > DataBits(r)
    /\ r.dataIn <= BufferEnd(r) =>
          IF r.bitsAvail > 0
            THEN a + u = 8 * r.dataIn - r.bitsAvail
            ELSE a = DataBits(r) /\ r.dataBytes < 4

\* The bits asked for when n more are asked for.
Asked(r, u, n) == MIN(u + n, DataBits(r) + 1)

\* A call starts where the reader is.
LEMMA TracksAtStart ==
    ASSUME NEW r, Good(r), ~r.overflow
    PROVE  /\ Tracks(r, GetNumBitsRead(r), 0)
           /\ GetNumBitsRead(r) \in 0 .. DataBits(r)
<1>1. r \in Readers /\ AlignedReader(r)
  BY DEF Good
<1>2. /\ GetNumBitsRead(r) \in 0 .. DataBits(r)
      /\ r.dataIn <= BufferEnd(r) /\ r.bitsAvail >= 0 =>
           GetNumBitsRead(r) = 8 * r.dataIn - r.bitsAvail
      /\ r.dataIn > BufferEnd(r) \/ r.bitsAvail <= 0 =>
           GetNumBitsRead(r) = DataBits(r)
  BY <1>1, Position
<1>3. /\ r.bitsAvail \in Int /\ r.dataIn \in Nat /\ r.dataBytes \in Nat
      /\ BufferEnd(r) = r.dataBytes /\ DataBits(r) = 8 * r.dataBytes
      /\ r.bitsAvail <= 0 => r.dataBytes < 4
  BY <1>1 DEF Readers, BufferEnd, DataBits, AlignedReader
<1>. QED  BY <1>2, <1>3 DEF Tracks

\* A read of n bits.
LEMMA TracksRead ==
    ASSUME NEW r, Good(r), NEW a \in Nat, NEW u \in Nat, Tracks(r, a, u),
           NEW n \in 1 .. 32
    PROVE  Tracks(AfterReadUBitLong(r, n), a, Asked(r, u, n))
<1> DEFINE s == AfterReadUBitLong(r, n)
           v == Asked(r, u, n)
           g == GrabNextDWord(r, TRUE)
           need == n - r.bitsAvail
<1> SUFFICES Tracks(s, a, v)
  OBVIOUS
<1>1. r \in Readers /\ AlignedReader(r)
  BY DEF Good
<1>2. /\ r.bitsAvail \in Int /\ r.dataIn \in Nat /\ r.dataBytes \in Nat
      /\ r.overflow \in BOOLEAN /\ r.inBufWord \in Words
      /\ BufferEnd(r) = r.dataBytes /\ DataBits(r) = 8 * r.dataBytes
      /\ r.dataIn % 4 = nHead(r)
      /\ r.dataIn > BufferEnd(r) => r.bitsAvail = 1 \/ r.overflow
      /\ r.bitsAvail <= 0 => r.dataIn = BufferEnd(r)
  BY <1>1 DEF Readers, BufferEnd, DataBits, AlignedReader
<1>3. /\ r.dataIn > BufferEnd(r) => a + v > DataBits(r)
      /\ a + u + n <= DataBits(r) => v = u + n
      /\ a + u + n > DataBits(r) => a + v > DataBits(r)
      /\ v \in Nat
  BY <1>2 DEF Asked, MIN, Tracks
<1> HIDE DEF v
<1>4. CASE r.bitsAvail > n
  <2>1. s = [r EXCEPT !.bitsAvail = r.bitsAvail - n,
                      !.inBufWord = ShiftRight(r.inBufWord, n)]
    <3>1. r.bitsAvail >= n
      BY <1>2, <1>4
    <3>2. s = Consume(r, n)
      BY <3>1, Zenon DEF AfterReadUBitLong
    <3>. QED  BY <1>2, <1>4, <3>2 DEF Consume
  <2> HIDE DEF s
  <2>2. Has(s, r.dataBytes, r.dataIn, r.bitsAvail - n,
            ShiftRight(r.inBufWord, n), r.overflow, r.inBounds)
    <3>1. n \in Nat /\ r.bitsAvail - n \in Int
      BY <1>2
    <3>2. ShiftRight(r.inBufWord, n) \in Words
      BY <1>2, <3>1, WordsType
    <3>. QED  BY <1>1, <2>1, <3>1, <3>2, SetWord
  <2>3. CASE r.dataIn > BufferEnd(r)
    BY <1>2, <1>3, <1>4, <2>2, <2>3
    DEF Has, Tracks, BufferEnd, DataBits
  <2>4. CASE r.dataIn <= BufferEnd(r)
    <3>1. a + u + n = 8 * r.dataIn - (r.bitsAvail - n)
      BY <1>2, <1>4, <2>4 DEF Tracks
    <3>2. a + v = 8 * r.dataIn - (r.bitsAvail - n)
      BY <1>2, <1>3, <1>4, <2>4, <3>1
    <3>. QED  BY <1>2, <1>4, <2>2, <2>4, <3>2
              DEF Has, Tracks, BufferEnd, DataBits
  <2>. QED  BY <1>2, <2>3, <2>4
<1>5. CASE r.bitsAvail = n
  <2>1. s = FetchNext(r)
    <3>1. r.bitsAvail >= n
      BY <1>2, <1>5
    <3>2. s = Consume(r, n)
      BY <3>1, Zenon DEF AfterReadUBitLong
    <3>. QED  BY <1>5, <3>2 DEF Consume
  <2> HIDE DEF s
  <2>2. /\ r.dataIn < BufferEnd(r) =>
             /\ Has(s, r.dataBytes, r.dataIn + 4, 32,
                    Bits(8 * r.dataIn, 32), r.overflow, r.inBounds)
             /\ r.dataIn + 4 <= BufferEnd(r)
        /\ r.dataIn = BufferEnd(r) =>
             Has(s, r.dataBytes, r.dataIn + 4, 1, Zero, r.overflow, r.inBounds)
        /\ r.dataIn > BufferEnd(r) =>
             Has(s, r.dataBytes, r.dataIn, 32, Zero, TRUE, r.inBounds)
    BY <1>1, <1>2, <2>1, FetchReader
  <2>3. CASE r.dataIn > BufferEnd(r)
    BY <1>2, <1>3, <2>2, <2>3 DEF Has, Tracks, BufferEnd, DataBits
  <2>4. CASE r.dataIn <= BufferEnd(r)
    <3>1. a + u + n = 8 * r.dataIn
      BY <1>2, <1>5, <2>4 DEF Tracks
    <3>2. a + v = 8 * r.dataIn /\ ~r.overflow
      BY <1>2, <1>3, <2>4, <3>1 DEF Tracks
    <3>3. CASE r.dataIn < BufferEnd(r)
      BY <1>2, <2>2, <3>2, <3>3 DEF Has, Tracks, BufferEnd, DataBits
    <3>4. CASE r.dataIn = BufferEnd(r)
      BY <1>2, <2>2, <3>2, <3>4 DEF Has, Tracks, BufferEnd, DataBits
    <3>. QED  BY <1>2, <2>4, <3>3, <3>4
  <2>. QED  BY <1>2, <2>3, <2>4
<1>6. CASE r.bitsAvail < n
  <2>1. s = IF g.overflow
              THEN g
              ELSE [g EXCEPT !.bitsAvail = 32 - need,
                             !.inBufWord = ShiftRight(g.inBufWord, need)]
    <3>1. ~(r.bitsAvail >= n)
      BY <1>2, <1>6
    <3>. QED  BY <3>1 DEF AfterReadUBitLong
  <2> HIDE DEF s, g
  <2>2. CASE r.dataIn > BufferEnd(r)
    <3>1. Has(g, r.dataBytes, r.dataIn, r.bitsAvail, Zero, TRUE, r.inBounds)
      BY <1>1, <2>2, GrabBehindEnd DEF g
    <3>2. s = g
      BY <2>1, <3>1 DEF Has
    <3>. QED  BY <1>2, <1>3, <2>2, <3>1, <3>2
              DEF Has, Tracks, BufferEnd, DataBits
  <2>3. CASE r.dataIn = BufferEnd(r)
    <3>1. Has(g, r.dataBytes, r.dataIn + 4, 1, Zero, TRUE, r.inBounds)
      BY <1>1, <1>2, <2>3, GrabAtEnd DEF g, Has
    <3>2. s = g
      BY <2>1, <3>1 DEF Has
    <3>3. a + u + n > DataBits(r)
      BY <1>2, <1>6, <2>3 DEF Tracks
    <3>. QED  BY <1>2, <1>3, <2>3, <3>1, <3>2, <3>3
              DEF Has, Tracks, BufferEnd, DataBits
  <2>4. CASE r.dataIn < BufferEnd(r)
    <3>1. /\ Has(g, r.dataBytes, r.dataIn + 4, r.bitsAvail,
                 Bits(8 * r.dataIn, 32), r.overflow, r.inBounds)
          /\ r.dataIn + 4 <= BufferEnd(r)
      BY <1>1, <1>2, <2>4, GrabBeforeEnd DEF g
    <3>2. ~r.overflow /\ r.bitsAvail > 0
      BY <1>2, <2>4 DEF Tracks
    <3>3. need \in 1 .. 31
      BY <1>2, <1>6, <3>2
    <3> HIDE DEF need
    <3>4. s = [g EXCEPT !.bitsAvail = 32 - need,
                        !.inBufWord = ShiftRight(g.inBufWord, need)]
      BY <2>1, <3>1, <3>2 DEF Has
    <3>5. ShiftRight(g.inBufWord, need) \in Words /\ 32 - need \in Int
          /\ g \in Readers
      <4>1. need \in Nat /\ g \in Readers /\ g.inBufWord \in Words
        BY <3>1, <3>3 DEF Has, Readers
      <4>. QED  BY <3>3, <4>1, WordsType, SMTT(60)
    <3>6. Has(s, r.dataBytes, r.dataIn + 4, 32 - need,
              ShiftRight(g.inBufWord, need), r.overflow, r.inBounds)
      <4>1. Has(s, g.dataBytes, g.dataIn, 32 - need,
                ShiftRight(g.inBufWord, need), g.overflow, g.inBounds)
        BY <3>4, <3>5, SetWord
      <4>. QED  BY <3>1, <4>1 DEF Has
    <3>7. a + u + n = 8 * (r.dataIn + 4) - (32 - need)
      BY <1>2, <2>4, <3>2 DEF Tracks, need
    <3>8. a + v = 8 * (r.dataIn + 4) - (32 - need)
      BY <1>2, <1>3, <3>1, <3>3, <3>7
    <3>. QED  BY <1>2, <3>1, <3>2, <3>3, <3>6, <3>8
              DEF Has, Tracks, BufferEnd, DataBits
  <2>. QED  BY <1>2, <2>2, <2>3, <2>4
<1>. QED  BY <1>2, <1>4, <1>5, <1>6

\* A read of one bit: the same, but unnoticed with no bit left.
LEMMA TracksOneBit ==
    ASSUME NEW r, Good(r), NEW a \in Nat, NEW u \in Nat, Tracks(r, a, u)
    PROVE  Tracks(AfterReadOneBit(r), a, Asked(r, u, 1))
<1>1. r \in Readers /\ AlignedReader(r)
  BY DEF Good
<1>2. /\ r.bitsAvail \in Int /\ r.dataIn \in Nat /\ r.dataBytes \in Nat
      /\ r.inBufWord \in Words
      /\ BufferEnd(r) = r.dataBytes /\ DataBits(r) = 8 * r.dataBytes
      /\ r.bitsAvail <= 0 => r.dataIn = BufferEnd(r)
  BY <1>1 DEF Readers, BufferEnd, DataBits, AlignedReader
<1>3. CASE r.bitsAvail >= 1
  <2>1. AfterReadOneBit(r) = AfterReadUBitLong(r, 1)
    BY <1>3 DEF AfterReadOneBit, AfterReadUBitLong
  <2>. QED  BY <2>1, TracksRead
<1>4. CASE r.bitsAvail <= 0
  <2> DEFINE s == AfterReadOneBit(r)
  <2>1. s = [r EXCEPT !.bitsAvail = r.bitsAvail - 1,
                      !.inBufWord = ShiftRight(r.inBufWord, 1)]
    BY <1>2, <1>4 DEF AfterReadOneBit, Consume
  <2>2. ShiftRight(r.inBufWord, 1) \in Words /\ r.bitsAvail - 1 \in Int
    <3>1. 1 \in Nat
      OBVIOUS
    <3>2. ShiftRight(r.inBufWord, 1) \in Words
      BY <1>2, <3>1, WordsType
    <3>. QED  BY <1>2, <3>2
  <2>3. Has(s, r.dataBytes, r.dataIn, r.bitsAvail - 1,
            ShiftRight(r.inBufWord, 1), r.overflow, r.inBounds)
    BY <1>1, <2>1, <2>2, SetWord
  <2> HIDE DEF s
  <2>4. a = DataBits(r) /\ r.dataBytes < 4 /\ ~r.overflow
    BY <1>2, <1>4 DEF Tracks
  <2>. QED  BY <1>2, <1>4, <2>3, <2>4 DEF Has, Tracks, BufferEnd, DataBits, s
<1>. QED  BY <1>2, <1>3, <1>4

----------------------------------------------------------------------------
(* The invariant *)

\* A call of a decoder that is under way.
ActiveFields ==
    [active : {TRUE}, call : UNION {b.calls : b \in Buffers}, got : Gots,
     at : Nat, used : Nat, clean : BOOLEAN]

FieldOK ==
    /\ field \in ActiveFields
    /\ field.clean => Tracks(rd, field.at, field.used)

FieldInv ==
    /\ IInv
    /\ buffer \in Buffers
    /\ buffer.bytes = rd.dataBytes
    /\ field = NoField \/ FieldOK

\* At the start no decoder runs.
LEMMA FieldInvInit == FieldInit => Init /\ FieldInv
  BY InitIInv DEF FieldInit, FieldInv

\* What is kept of a call is a sequence of integers.
LEMMA KeptType ==
    ASSUME NEW g \in Gots, NEW w
    PROVE  Kept(g, Val(w)) \in Gots
<1>1. Val(w) \in SUBSET BitNrs
  BY DEF Val
<1>2. CASE Len(g) < MaxReads
  BY <1>1, <1>2 DEF Kept, Gots
<1>3. CASE ~(Len(g) < MaxReads)
  <2>1. Len(g) \in Nat /\ MaxReads \in Nat \ {0}
    BY BitFieldsAssumption DEF Gots
  <2>2. Len(g) \in 1 .. Len(g)
    BY <1>3, <2>1
  <2>3. [g EXCEPT ![Len(g)] = Val(w)] \in Seq(SUBSET BitNrs)
    BY <1>1, <2>2, ExceptSeq DEF Gots
  <2>. QED  BY <1>3, <2>3 DEF Kept, Gots
<1>. QED  BY <1>2, <1>3

\* A read of a single bit, which at the end of a buffer below a dword has none.
LEMMA OneBitReader ==
    ASSUME NEW r, Good(r)
    PROVE  /\ Keeps(r, AfterReadOneBit(r))
           /\ r.bitsAvail > 0 =>
                Reads(r, AfterReadOneBit(r), 1, Masked(r.inBufWord, 1))
<1>1. r.bitsAvail \in Int /\ AfterReadOneBit(r) = Consume(r, 1)
  BY DEF Good, Readers, AfterReadOneBit
<1>2. CASE r.bitsAvail <= 0
  BY <1>1, <1>2, ConsumeNone
<1>3. CASE r.bitsAvail = 1
  BY <1>1, <1>3, ConsumeAll
<1>4. CASE r.bitsAvail > 1
  BY <1>1, <1>4, ConsumeSome
<1>. QED  BY <1>1, <1>2, <1>3, <1>4

\* The read that a decoder makes next.
NextRead == Plan[Len(field.got) + 1]

\* What the next read of a decoder is: a read of the bit reader, and its value
\* kept.
LEMMA ReadNextIs ==
    ASSUME FieldInv, ReadNext
    PROVE  /\ FieldOK /\ buffer \in Buffers /\ Good(rd) /\ buffer' = buffer
           /\ NextRead \in ReadOps
           /\ \/ NextRead.op = "ReadUBitLong" /\ ReadUBitLong(NextRead.bits)
              \/ NextRead.op = "ReadSBitLong" /\ ReadSBitLong(NextRead.bits)
              \/ NextRead.op = "ReadOneBit" /\ ReadOneBit
           /\ field' = [field EXCEPT
                          !.got = Kept(field.got, Val(call'.ret)),
                          !.used = Asked(rd, field.used, NextRead.bits)]
<1> DEFINE k == Len(field.got) + 1
<1>1. FieldOK /\ buffer \in Buffers /\ Good(rd) /\ buffer' = buffer
  BY IInvIsGood DEF FieldInv, ReadNext, NoField
<1>2. Plan \in Seq(ReadOps)
  <2>1. CallOK(field.call) /\ field.got \in Gots
    BY <1>1, BitFieldsAssumption DEF FieldOK, ActiveFields
  <2>. QED  BY <2>1, PlanType DEF Plan
<1>3. k \in 1 .. Len(Plan)
  <2>1. Len(field.got) \in Nat /\ Len(Plan) \in Nat
    BY <1>1, <1>2 DEF FieldOK, ActiveFields, Gots
  <2>2. ~(Len(field.got) >= Len(Plan))
    BY DEF ReadNext, Complete
  <2>. QED  BY <2>1, <2>2
<1>4. NextRead \in ReadOps
  BY <1>2, <1>3 DEF NextRead
<1>5. /\ \/ NextRead.op = "ReadUBitLong" /\ ReadUBitLong(NextRead.bits)
         \/ NextRead.op = "ReadSBitLong" /\ ReadSBitLong(NextRead.bits)
         \/ NextRead.op = "ReadOneBit" /\ ReadOneBit
      /\ field' = [field EXCEPT !.got = Kept(field.got, Val(call'.ret)),
                                !.used = Asked(rd, field.used, NextRead.bits)]
  BY Zenon DEF ReadNext, Asked, NextRead
<1>. QED  BY <1>1, <1>4, <1>5

\* The next read of a decoder is an operation of the reader, and keeps track.
LEMMA ReadNextStep ==
    ASSUME FieldInv, ReadNext
    PROVE  /\ Next /\ FieldOK' /\ buffer' = buffer
           /\ rd'.dataBytes = rd.dataBytes
<1> DEFINE r == NextRead
<1>1. FieldOK /\ buffer \in Buffers /\ Good(rd) /\ buffer' = buffer
  BY ReadNextIs
<1>4. r \in ReadOps
  BY ReadNextIs
<1>5. /\ \/ r.op = "ReadUBitLong" /\ ReadUBitLong(r.bits)
         \/ r.op = "ReadSBitLong" /\ ReadSBitLong(r.bits)
         \/ r.op = "ReadOneBit" /\ ReadOneBit
      /\ field' = [field EXCEPT !.got = Kept(field.got, Val(call'.ret)),
                                !.used = Asked(rd, field.used, r.bits)]
  BY ReadNextIs
<1> HIDE DEF r
<1>6. r.bits \in 1 .. 32 /\ (r.op = "ReadOneBit" => r.bits = 1)
  BY <1>4 DEF ReadOps, B
<1>7. Next
  BY <1>5, <1>6, BitFieldsAssumption DEF Next
<1>8. Kept(field.got, Val(call'.ret)) \in Gots
  BY <1>1, KeptType DEF FieldOK, ActiveFields
<1>9. Asked(rd, field.used, r.bits) \in Nat
  BY <1>1, <1>6
  DEF FieldOK, ActiveFields, Asked, MIN, Good, Readers, DataBits
<1>10. /\ field' \in ActiveFields
       /\ field'.at = field.at /\ field'.clean = field.clean
       /\ field'.used = Asked(rd, field.used, r.bits)
  BY <1>1, <1>5, <1>8, <1>9 DEF FieldOK, ActiveFields
<1>11. field.clean => Tracks(rd', field.at, Asked(rd, field.used, r.bits))
  <2> SUFFICES ASSUME field.clean
               PROVE  Tracks(rd', field.at, Asked(rd, field.used, r.bits))
    OBVIOUS
  <2>1. /\ Tracks(rd, field.at, field.used)
        /\ field.at \in Nat /\ field.used \in Nat
    BY <1>1 DEF FieldOK, ActiveFields
  <2>2. CASE rd' = AfterReadUBitLong(rd, r.bits)
    BY <1>1, <1>6, <2>1, <2>2, TracksRead
  <2>3. CASE r.bits = 1 /\ rd' = AfterReadOneBit(rd)
    BY <1>1, <2>1, <2>3, TracksOneBit
  <2>. QED  BY <1>5, <1>6, <2>2, <2>3
            DEF ReadUBitLong, ReadSBitLong, ReadOneBit
<1>12. FieldOK'
  BY <1>10, <1>11 DEF FieldOK
<1>13. rd'.dataBytes = rd.dataBytes
  BY <1>1, <1>5, <1>6, ReadReader, OneBitReader
  DEF ReadUBitLong, ReadSBitLong, ReadOneBit, Keeps
<1>. QED  BY <1>1, <1>7, <1>12, <1>13

\* Every step is a step of the reader or leaves it alone, and keeps the
\* invariant.
LEMMA FieldStep ==
    FieldInv /\ [FieldNext]_fieldVars => [Next]_vars /\ FieldInv'
<1> SUFFICES ASSUME FieldInv, [FieldNext]_fieldVars
             PROVE  [Next]_vars /\ FieldInv'
  OBVIOUS
<1>0. /\ IInv /\ buffer \in Buffers /\ (field = NoField \/ FieldOK) /\ Good(rd)
      /\ buffer.bytes = rd.dataBytes
  BY IInvIsGood DEF FieldInv
<1>1. ASSUME NEW c \in buffer.calls, Decode(c)
      PROVE  [Next]_vars /\ FieldInv'
  <2>1. c \in UNION {b.calls : b \in Buffers}
    BY <1>0, <1>1
  <2>2. UNCHANGED vars /\ UNCHANGED buffer
    BY <1>1 DEF Decode
  <2>3. IInv'
    BY <1>0, <2>2, NextIInv
  <2>4. /\ field' = [active |-> TRUE, call |-> c, got |-> << >>,
                     at |-> GetNumBitsRead(rd), used |-> 0,
                     clean |-> ~rd.overflow]
    BY <1>1 DEF Decode
  <2>5. << >> \in Gots
    BY DEF Gots
  <2>6. GetNumBitsRead(rd) \in Nat
    <3>1. rd \in Readers /\ AlignedReader(rd)
      BY <1>0 DEF Good
    <3>2. GetNumBitsRead(rd) \in 0 .. DataBits(rd)
      BY <3>1, Position
    <3>. QED  BY <3>1, <3>2 DEF DataBits, Readers
  <2>7. ~rd.overflow => Tracks(rd, GetNumBitsRead(rd), 0)
    BY <1>0, TracksAtStart
  <2>8. rd' = rd
    BY <2>2 DEF vars
  <2>9. FieldOK'
    <3>1. /\ field'.call = c /\ field'.got = << >>
          /\ field'.at = GetNumBitsRead(rd) /\ field'.used = 0
          /\ field'.clean = ~rd.overflow
      BY <2>4
    <3>. QED  BY <2>1, <2>4, <2>5, <2>6, <2>7, <2>8, <3>1 DEF FieldOK, ActiveFields
  <2>. QED  BY <1>0, <2>2, <2>3, <2>8, <2>9 DEF FieldInv
<1>2. CASE ReadNext
  BY <1>0, <1>2, ReadNextStep, NextIInv DEF FieldInv
<1>3. CASE Return
  <2>1. UNCHANGED vars /\ UNCHANGED buffer /\ field' = NoField /\ rd' = rd
    BY <1>3 DEF Return, vars
  <2>. QED  BY <1>0, <2>1, NextIInv DEF FieldInv
<1>4. ASSUME NEW b \in Buffers, Open(b)
      PROVE  [Next]_vars /\ FieldInv'
  <2>1. /\ Next /\ buffer' = b /\ field' = field
        /\ field = NoField
    BY <1>0, <1>4, BitFieldsAssumption DEF Open, Next, FieldOK, ActiveFields
  <2>2. rd'.dataBytes = b.bytes
    BY <1>4, BitFieldsAssumption, OpenReader DEF Open, StartReading
  <2>. QED  BY <1>0, <2>1, <2>2, NextIInv DEF FieldInv
<1>5. ASSUME NEW p \in Positions, GoTo(p)
      PROVE  [Next]_vars /\ FieldInv'
  <2>1. /\ Next /\ buffer' = buffer /\ field' = field
        /\ field = NoField
    BY <1>0, <1>5 DEF GoTo, Next, FieldOK, ActiveFields
  <2>2. rd'.dataBytes = rd.dataBytes
    <3>1. rd \in Readers /\ p \in Int /\ rd' = AfterSeek(rd, p)
      BY <1>0, <1>5, BitReadAssumption DEF Good, GoTo, Seek
    <3>. QED  BY <3>1, AnySeek DEF Found, Keeps
  <2>. QED  BY <1>0, <2>1, <2>2, NextIInv DEF FieldInv
<1>6. CASE UNCHANGED fieldVars
  <2>1. /\ UNCHANGED vars /\ buffer' = buffer /\ field' = field /\ rd' = rd
    BY <1>6 DEF fieldVars, vars
  <2>. QED  BY <1>0, <2>1, NextIInv DEF FieldInv, FieldOK
<1>. QED  BY <1>1, <1>2, <1>3, <1>4, <1>5, <1>6 DEF FieldNext

----------------------------------------------------------------------------
(* The theorems *)

\* The invariant of the decoders.
THEOREM FieldsInvariant == FieldSpec => []FieldInv
  BY FieldInvInit, FieldStep, PTL DEF FieldSpec

\* Decoders use the reader through its operations only: all that is proved of
\* BitRead holds below them, in particular that no dword outside the buffer is
\* loaded.
THEOREM FieldsUseReader == FieldSpec => Spec /\ []LoadsInBounds
<1>1. FieldSpec => Spec
  BY FieldInvInit, FieldStep, PTL DEF FieldSpec, Spec
<1>. QED  BY <1>1, ReaderLoadsInBounds, PTL

\* For every decoder, argument and buffer: the flag is set exactly when a
\* decoder asks for bits behind the end.
THEOREM FieldsFlagIsExact == FieldSpec => []FlagIsExact
<1>1. FieldInv => FlagIsExact
  <2> SUFFICES ASSUME FieldInv, field.active, field.clean
               PROVE  /\ GetNumBitsRead(rd) =
                           MIN(field.at + field.used, DataBits(rd))
                      /\ rd.overflow => field.at + field.used > DataBits(rd)
                      /\ field.at + field.used > DataBits(rd) =>
                           rd.overflow
                             \/ (rd.dataBytes < 4 /\ field.at = DataBits(rd))
    BY DEF FlagIsExact
  <2> DEFINE a == field.at
             u == field.used
  <2>1. /\ a \in Nat /\ u \in Nat /\ Tracks(rd, a, u)
        /\ rd \in Readers /\ AlignedReader(rd)
    <3>1. FieldOK /\ Good(rd)
      BY IInvIsGood DEF FieldInv, NoField
    <3>2. field.at \in Nat /\ field.used \in Nat
      BY <3>1 DEF FieldOK, ActiveFields
    <3>. QED  BY <3>1, <3>2 DEF FieldOK, Good
  <2>2. /\ GetNumBitsRead(rd) \in 0 .. DataBits(rd)
        /\ rd.dataIn <= BufferEnd(rd) /\ rd.bitsAvail >= 0 =>
             GetNumBitsRead(rd) = 8 * rd.dataIn - rd.bitsAvail
        /\ rd.dataIn > BufferEnd(rd) \/ rd.bitsAvail <= 0 =>
             GetNumBitsRead(rd) = DataBits(rd)
    BY <2>1, Position
  <2>3. /\ rd.bitsAvail \in Int /\ rd.dataIn \in Nat /\ rd.dataBytes \in Nat
        /\ BufferEnd(rd) = rd.dataBytes /\ DataBits(rd) = 8 * rd.dataBytes
    BY <2>1 DEF Readers, BufferEnd, DataBits
  <2> HIDE DEF a, u
  <2>4. CASE rd.dataIn > BufferEnd(rd)
    <3>1. /\ a + u >= DataBits(rd) /\ (rd.overflow <=> a + u > DataBits(rd))
      BY <2>1, <2>4 DEF Tracks
    <3>2. GetNumBitsRead(rd) = MIN(a + u, DataBits(rd))
      BY <2>1, <2>2, <2>3, <2>4, <3>1 DEF MIN
    <3>. QED  BY <3>1, <3>2 DEF a, u
  <2>5. CASE rd.dataIn <= BufferEnd(rd) /\ rd.bitsAvail > 0
    <3>1. a + u = 8 * rd.dataIn - rd.bitsAvail /\ ~rd.overflow
      BY <2>1, <2>3, <2>5 DEF Tracks
    <3>2. a + u <= DataBits(rd)
      BY <2>3, <2>5, <3>1
    <3>3. GetNumBitsRead(rd) = MIN(a + u, DataBits(rd))
      BY <2>1, <2>2, <2>3, <2>5, <3>1, <3>2 DEF MIN
    <3>. QED  BY <2>1, <2>3, <3>1, <3>2, <3>3 DEF a, u
  <2>6. CASE rd.dataIn <= BufferEnd(rd) /\ rd.bitsAvail <= 0
    <3>1. a = DataBits(rd) /\ rd.dataBytes < 4 /\ ~rd.overflow
      BY <2>1, <2>3, <2>6 DEF Tracks
    <3>2. GetNumBitsRead(rd) = MIN(a + u, DataBits(rd))
      BY <2>1, <2>2, <2>3, <2>6, <3>1 DEF MIN
    <3>. QED  BY <3>1, <3>2 DEF a, u
  <2>. QED  BY <2>3, <2>4, <2>5, <2>6
<1>. QED  BY <1>1, FieldsInvariant, PTL

----------------------------------------------------------------------------
(* Decoders on a plain string of bits *)

PlainStart(a) == [got |-> << >>, at |-> a]

\* f is the run of the call c up to its n-th read.
IsRun(f, c, ones, a, n) ==
    f = [i \in 0 .. n |-> IF i = 0 THEN PlainStart(a)
                          ELSE PlainNext(c, ones, f[i - 1])]

EarlierNat == {ss \in Nat \X Nat : ss[1] < ss[2]}

\* A call has a run of every length: one that is a read shorter can be carried
\* on.
LEMMA RunExists ==
    ASSUME NEW c, NEW ones, NEW a, NEW n \in Nat
    PROVE  \E f : IsRun(f, c, ones, a, n)
<1> DEFINE T == {m \in Nat : ~\E f : IsRun(f, c, ones, a, m)}
<1> SUFFICES ASSUME T # {} PROVE FALSE
  OBVIOUS
<1>1. IsWellFoundedOn(EarlierNat, Nat)
  BY NatLessThanWellFounded, Zenon DEF OpToRel, EarlierNat
<1>2. PICK m \in T : \A k \in T : ~(<<k, m>> \in EarlierNat)
  <2>1. T \subseteq Nat
    OBVIOUS
  <2>. QED  BY <1>1, <2>1, WFMin, Zenon
<1>3. m \in Nat /\ ~\E f : IsRun(f, c, ones, a, m)
  OBVIOUS
<1>4. CASE m = 0
  <2>1. IsRun([i \in 0 .. 0 |-> PlainStart(a)], c, ones, a, 0)
    BY DEF IsRun
  <2>. QED  BY <1>3, <1>4, <2>1
<1>5. CASE m > 0
  <2>1. m - 1 \in Nat /\ <<m - 1, m>> \in EarlierNat
    BY <1>3, <1>5 DEF EarlierNat
  <2>2. \E f : IsRun(f, c, ones, a, m - 1)
    BY <1>2, <2>1, Zenon
  <2>3. PICK f : IsRun(f, c, ones, a, m - 1)
    BY <2>2, Zenon
  <2> DEFINE g == [i \in 0 .. m |-> IF i = m THEN PlainNext(c, ones, f[m - 1])
                                    ELSE f[i]]
  <2>4. ASSUME NEW i \in 0 .. m
        PROVE  g[i] = IF i = 0 THEN PlainStart(a)
                      ELSE PlainNext(c, ones, g[i - 1])
    <3>1. \A k \in 0 .. m - 1 : f[k] = IF k = 0 THEN PlainStart(a)
                                       ELSE PlainNext(c, ones, f[k - 1])
      BY <2>3 DEF IsRun
    <3>2. CASE i = m
      BY <1>3, <1>5, <3>2
    <3>3. CASE i < m
      BY <1>3, <3>1, <3>3
    <3>. QED  BY <1>3, <3>2, <3>3
  <2>5. IsRun(g, c, ones, a, m)
    <3>1. g = [i \in 0 .. m |-> g[i]]
      OBVIOUS
    <3> HIDE DEF g
    <3>. QED  BY <2>4, <3>1 DEF IsRun
  <2>. QED  BY <1>3, <2>5
<1>. QED  BY <1>3, <1>4, <1>5

\* So PlainRun is what its recursion says.
LEMMA RunUnfolds ==
    ASSUME NEW c, NEW ones, NEW a
    PROVE  /\ PlainRun(c, ones, a)[0] = PlainStart(a)
           /\ \A i \in 0 .. MaxReads - 1 :
                PlainRun(c, ones, a)[i + 1]
                  = PlainNext(c, ones, PlainRun(c, ones, a)[i])
<1> DEFINE f == PlainRun(c, ones, a)
<1>1. MaxReads \in Nat \ {0}
  BY BitFieldsAssumption
<1>2. IsRun(f, c, ones, a, MaxReads)
  <2>1. \E g : IsRun(g, c, ones, a, MaxReads)
    BY <1>1, RunExists
  <2>. QED  BY <2>1, Zenon DEF PlainRun, IsRun, PlainStart
<1> HIDE DEF f
<1>3. \A i \in 0 .. MaxReads : f[i] = IF i = 0 THEN PlainStart(a)
                                      ELSE PlainNext(c, ones, f[i - 1])
  BY <1>2 DEF IsRun
<1>4. f[0] = PlainStart(a)
  BY <1>1, <1>3
<1>5. ASSUME NEW i \in 0 .. MaxReads - 1
      PROVE  f[i + 1] = PlainNext(c, ones, f[i])
  BY <1>1, <1>3
<1>. QED  BY <1>4, <1>5 DEF f

----------------------------------------------------------------------------
(* What a decoder gets *)

\* As long as there are bits the reader is at the bits that were asked for.
LEMMA InPlace ==
    ASSUME NEW r, Good(r), NEW a \in Nat, NEW u \in Nat, Tracks(r, a, u),
           a + u < DataBits(r)
    PROVE  /\ ~r.overflow /\ Synced(r) /\ r.bitsAvail > 0
           /\ GetNumBitsRead(r) = a + u
<1>1. r \in Readers /\ AlignedReader(r) /\ (~r.overflow => Synced(r))
  BY DEF Good
<1>2. r.dataIn <= BufferEnd(r) /\ r.bitsAvail >= 0 =>
        GetNumBitsRead(r) = 8 * r.dataIn - r.bitsAvail
  BY <1>1, Position
<1>3. /\ r.bitsAvail \in Int /\ r.dataIn \in Nat /\ r.dataBytes \in Nat
      /\ BufferEnd(r) = r.dataBytes /\ DataBits(r) = 8 * r.dataBytes
  BY <1>1 DEF Readers, BufferEnd, DataBits
<1>. QED  BY <1>1, <1>2, <1>3 DEF Tracks

\* The integers that the words of n bits stand for.
LEMMA BitsVal ==
    ASSUME buffer.ones \subseteq Nat, NEW p \in Nat, NEW n \in 1 .. 32
    PROVE  /\ Val(Bits(p, n)) = PlainVal(buffer.ones, p, U(n))
           /\ Val(SignExtended(Bits(p, n), n)) = PlainVal(buffer.ones, p, S(n))
<1> DEFINE v == {j \in 0 .. n - 1 : p + j \in buffer.ones}
<1>1. O \notin buffer.ones
  BY DEF O
<1>2. Val(Bits(p, n)) = v
  <2>1. ASSUME NEW j \in BitNrs
        PROVE  Bits(p, n)[j] \in buffer.ones <=> j \in v
    <3>1. CASE j < n
      BY <3>1 DEF Bits, BitNrs, WordBits
    <3>2. CASE ~(j < n)
      BY <1>1, <3>2 DEF Bits, BitNrs, WordBits
    <3>. QED  BY <3>1, <3>2
  <2>2. v \subseteq BitNrs
    BY DEF BitNrs, WordBits
  <2>. QED  BY <2>1, <2>2 DEF Val
<1>3. PlainVal(buffer.ones, p, U(n)) = v
  BY DEF PlainVal, U
<1>4. PlainVal(buffer.ones, p, S(n))
        = v \cup (IF n - 1 \in v THEN n .. 31 ELSE {})
  BY DEF PlainVal, S
<1>5. ASSUME NEW j \in BitNrs
      PROVE  SignExtended(Bits(p, n), n)[j]
               = IF j < n THEN p + j ELSE p + (n - 1)
  BY DEF SignExtended, Bits, BitNrs, WordBits
<1>6. Val(SignExtended(Bits(p, n), n))
        = v \cup (IF n - 1 \in v THEN n .. 31 ELSE {})
  BY <1>5 DEF Val, BitNrs, WordBits
<1>. QED  BY <1>2, <1>3, <1>4, <1>6

\* What the operations of the reader return where there are bits.
LEMMA ReadsVal ==
    ASSUME NEW r, Good(r), NEW a \in Nat, NEW u \in Nat, Tracks(r, a, u),
           NEW n \in 1 .. 32, a + u + n <= DataBits(r)
    PROVE  /\ UBitLong(r, n) = Bits(a + u, n)
           /\ n = 1 => Masked(r.inBufWord, 1) = Bits(a + u, 1)
<1>1. r \in Readers /\ DataBits(r) \in Nat
  BY DEF Good, Readers, DataBits
<1>2. /\ ~r.overflow /\ r.bitsAvail > 0 /\ Synced(r)
      /\ GetNumBitsRead(r) = a + u
  BY <1>1, InPlace
<1>3. ASSUME NEW s, NEW w, NEW m \in 1 .. 32, m = n, Reads(r, s, m, w)
      PROVE  w = Bits(a + u, m)
  BY <1>1, <1>2, <1>3 DEF Reads
<1>4. UBitLong(r, n) = Bits(a + u, n)
  BY <1>3, ReadReader
<1>5. n = 1 => Masked(r.inBufWord, 1) = Bits(a + u, 1)
  BY <1>2, <1>3, OneBitReader
<1>. QED  BY <1>4, <1>5

\* A read of a decoder, as long as there are bits, is the one it makes on the
\* plain bits.
LEMMA ReadNextPlain ==
    ASSUME FieldInv, ReadNext, field.clean, Len(field.got) < MaxReads,
           field.at + field.used + NextRead.bits <= DataBits(rd)
    PROVE  /\ Len(field'.got) = Len(field.got) + 1
           /\ [got |-> field'.got, at |-> field.at + field'.used]
                = PlainNext(field.call, buffer.ones,
                            [got |-> field.got, at |-> field.at + field.used])
<1> DEFINE r == NextRead
           p == field.at + field.used
           v == PlainVal(buffer.ones, p, r)
<1>1. /\ FieldOK /\ Good(rd) /\ r \in ReadOps
      /\ buffer \in Buffers
      /\ \/ r.op = "ReadUBitLong" /\ ReadUBitLong(r.bits)
         \/ r.op = "ReadSBitLong" /\ ReadSBitLong(r.bits)
         \/ r.op = "ReadOneBit" /\ ReadOneBit
      /\ field' = [field EXCEPT !.got = Kept(field.got, Val(call'.ret)),
                                !.used = Asked(rd, field.used, r.bits)]
  BY ReadNextIs
<1>2. /\ field \in ActiveFields /\ Tracks(rd, field.at, field.used)
      /\ field.at \in Nat /\ field.used \in Nat /\ p \in Nat
      /\ field.got \in Seq(SUBSET BitNrs) /\ Len(field.got) \in Nat
  <2>1. field \in ActiveFields /\ Tracks(rd, field.at, field.used)
    BY <1>1, Zenon DEF FieldOK
  <2>2. field.at \in Nat /\ field.used \in Nat /\ field.got \in Gots
    BY <2>1 DEF ActiveFields
  <2>. QED  BY <2>1, <2>2 DEF Gots
<1>3. DataBits(rd) \in Nat
  BY <1>1 DEF Good, Readers, DataBits
<1>4. /\ r.bits \in 1 .. 32
      /\ r.op = "ReadUBitLong" => r = U(r.bits)
      /\ r.op = "ReadSBitLong" => r = S(r.bits)
      /\ r.op = "ReadOneBit" => r.bits = 1
  BY <1>1 DEF ReadOps, U, S, B
<1>5. buffer.ones \subseteq Nat
  BY <1>1, BitFieldsAssumption
<1>6. p + r.bits <= DataBits(rd)
  OBVIOUS
<1> DEFINE k == r.bits
<1>7. /\ Asked(rd, field.used, k) = field.used + k
      /\ p + k = field.at + (field.used + k)
  <2>1. k \in 1 .. 32 /\ p + k <= DataBits(rd)
    BY <1>4, <1>6, Zenon
  <2> HIDE DEF k
  <2>. QED  BY <1>2, <1>3, <2>1, SMTT(60) DEF Asked, MIN
<1>8. /\ UBitLong(rd, r.bits) = Bits(p, r.bits)
      /\ r.bits = 1 => Masked(rd.inBufWord, 1) = Bits(p, 1)
  BY <1>1, <1>2, <1>4, <1>6, ReadsVal, ZenonT(60)
<1> HIDE DEF r, p
<1>9. Val(call'.ret) = v
  <2>1. CASE r.op = "ReadUBitLong" /\ ReadUBitLong(r.bits)
    <3>1. call'.ret = Bits(p, r.bits)
      BY <1>8, <2>1 DEF ReadUBitLong, Call
    <3>. QED  BY <1>2, <1>4, <1>5, <2>1, <3>1, BitsVal, ZenonT(60)
  <2>2. CASE r.op = "ReadSBitLong" /\ ReadSBitLong(r.bits)
    <3>1. call'.ret = SignExtended(Bits(p, r.bits), r.bits)
      BY <1>8, <2>2 DEF ReadSBitLong, Call
    <3>. QED  BY <1>2, <1>4, <1>5, <2>2, <3>1, BitsVal, ZenonT(60)
  <2>3. CASE r.op = "ReadOneBit" /\ ReadOneBit
    <3>1. call'.ret = Bits(p, 1) /\ r.bits = 1
      BY <1>4, <1>8, <2>3 DEF ReadOneBit, Call
    <3>2. PlainVal(buffer.ones, p, U(1)) = v
      BY <2>3, <3>1 DEF PlainVal, U
    <3>3. Val(Bits(p, 1)) = PlainVal(buffer.ones, p, U(1))
      BY <1>2, <1>5, BitsVal
    <3>. QED  BY <3>1, <3>2, <3>3
  <2>. QED  BY <1>1, <2>1, <2>2, <2>3
<1>10. /\ field'.got = Append(field.got, v)
       /\ field'.used = field.used + r.bits
  BY <1>1, <1>2, <1>7, <1>9 DEF Kept, ActiveFields
<1>11. Len(field'.got) = Len(field.got) + 1
  <2>1. v \in SUBSET BitNrs
    BY <1>9 DEF Val
  <2>. QED  BY <1>2, <1>10, <2>1
<1>12. PlainNext(field.call, buffer.ones, [got |-> field.got, at |-> p])
         = [got |-> Append(field.got, v), at |-> p + r.bits]
  BY DEF PlainNext, NextRead, Plan, r
<1>. QED  BY <1>7, <1>10, <1>11, <1>12 DEF p

\* Only a read that fits is counted in full.
LEMMA ReadFits ==
    ASSUME FieldInv, ReadNext
    PROVE  /\ field'.at = field.at /\ field'.call = field.call
           /\ field'.clean = field.clean /\ field'.active
           /\ DataBits(rd') = DataBits(rd)
           /\ Len(field'.got) < MaxReads => Len(field.got) < MaxReads
           /\ field.at + field'.used <= DataBits(rd) =>
                field.at + field.used + NextRead.bits <= DataBits(rd)
<1> DEFINE k == NextRead.bits
           g == Kept(field.got, Val(call'.ret))
<1>1. /\ FieldOK /\ Good(rd) /\ NextRead \in ReadOps
      /\ field' = [field EXCEPT !.got = g, !.used = Asked(rd, field.used, k)]
  BY ReadNextIs
<1>2. /\ field \in ActiveFields /\ field.at \in Nat /\ field.used \in Nat
      /\ field.got \in Seq(SUBSET BitNrs)
  BY <1>1 DEF FieldOK, ActiveFields, Gots
<1>3. /\ field'.at = field.at /\ field'.call = field.call
      /\ field'.clean = field.clean /\ field'.active
      /\ field'.got = g /\ field'.used = Asked(rd, field.used, k)
  BY <1>1, <1>2 DEF ActiveFields
<1>4. DataBits(rd') = DataBits(rd)
  BY ReadNextStep DEF DataBits
<1>5. Len(g) < MaxReads => Len(field.got) < MaxReads
  <2>1. CASE ~(Len(field.got) < MaxReads)
    <3>1. g = [field.got EXCEPT ![Len(field.got)] = Val(call'.ret)]
      BY <2>1 DEF Kept
    <3>2. Len(g) = Len(field.got)
      BY <1>2, <3>1
    <3>. QED  BY <2>1, <3>2
  <2>. QED  BY <2>1
<1>6. field.at + Asked(rd, field.used, k) <= DataBits(rd) =>
        field.at + field.used + k <= DataBits(rd)
  <2>1. k \in Nat /\ DataBits(rd) \in Nat
    <3>1. k \in 1 .. 32
      BY <1>1 DEF ReadOps, B
    <3>. QED  BY <1>1, <3>1 DEF Good, Readers, DataBits
  <2> HIDE DEF k
  <2>. QED  BY <1>2, <2>1 DEF Asked, MIN
<1>. QED  BY <1>3, <1>4, <1>5, <1>6

\* Every step keeps a decoder on the plain bits.
LEMMA PlaceStep ==
    FieldInv /\ ReadsInPlace /\ [FieldNext]_fieldVars => ReadsInPlace'
<1> SUFFICES ASSUME FieldInv, ReadsInPlace, [FieldNext]_fieldVars
             PROVE  ReadsInPlace'
  OBVIOUS
<1>1. ASSUME NEW c \in buffer.calls, Decode(c)
      PROVE  ReadsInPlace'
  <2>1. /\ field'.got = << >> /\ field'.used = 0
        /\ field'.at = GetNumBitsRead(rd)
    BY <1>1 DEF Decode
  <2>2. GetNumBitsRead(rd) \in Int
    <3>1. rd \in Readers /\ AlignedReader(rd)
      BY IInvIsGood DEF FieldInv, Good
    <3>2. GetNumBitsRead(rd) \in 0 .. DataBits(rd)
      BY <3>1, Position
    <3>. QED  BY <3>2
  <2>3. PlainRun(field'.call, buffer'.ones, field'.at)[0] = PlainStart(field'.at)
    BY RunUnfolds
  <2>4. Len(field'.got) = 0 /\ field'.at + field'.used = field'.at
    BY <2>1, <2>2
  <2>. QED  BY <2>1, <2>3, <2>4 DEF ReadsInPlace, PlainStart
<1>2. CASE ReadNext
  <2> SUFFICES ASSUME field'.clean, Len(field'.got) < MaxReads,
                      field'.at + field'.used <= DataBits(rd')
               PROVE  PlainRun(field'.call, buffer'.ones, field'.at)
                              [Len(field'.got)]
                        = [got |-> field'.got, at |-> field'.at + field'.used]
    BY DEF ReadsInPlace
  <2> DEFINE run == PlainRun(field.call, buffer.ones, field.at)
             k == Len(field.got)
             here == [got |-> field.got, at |-> field.at + field.used]
  <2>1. /\ field'.at = field.at /\ field'.call = field.call /\ field.clean
        /\ k < MaxReads /\ DataBits(rd') = DataBits(rd)
        /\ field.at + field'.used <= DataBits(rd)
        /\ field.at + field.used + NextRead.bits <= DataBits(rd)
    BY <1>2, ReadFits
  <2>2. buffer' = buffer /\ field.active
    BY <1>2 DEF ReadNext
  <2>3. /\ k \in 0 .. MaxReads - 1
        /\ field.at + field.used <= DataBits(rd)
    <3>1. /\ FieldOK /\ Good(rd) /\ NextRead \in ReadOps
      BY <1>2, ReadNextIs
    <3>2. /\ field.at \in Nat /\ field.used \in Nat /\ k \in Nat
      BY <3>1 DEF FieldOK, ActiveFields, Gots
    <3>3. NextRead.bits \in 1 .. 32 /\ DataBits(rd) \in Nat
      BY <3>1 DEF ReadOps, B, Good, Readers, DataBits
    <3>4. k < MaxReads /\ MaxReads \in Nat \ {0}
      BY <2>1, BitFieldsAssumption
    <3>5. k \in 0 .. MaxReads - 1
      <4> HIDE DEF k
      <4>. QED  BY <3>2, <3>4
    <3> DEFINE n == NextRead.bits
    <3>6. n \in 1 .. 32 /\ field.at + field.used + n <= DataBits(rd)
      BY <2>1, <3>3, Zenon
    <3> HIDE DEF n
    <3>7. field.at + field.used <= DataBits(rd)
      BY <3>2, <3>3, <3>6, SMTT(60)
    <3>. QED  BY <3>5, <3>7
  <2>4. run[k] = here
    BY <2>1, <2>2, <2>3 DEF ReadsInPlace
  <2>5. /\ Len(field'.got) = k + 1
        /\ [got |-> field'.got, at |-> field.at + field'.used]
             = PlainNext(field.call, buffer.ones, here)
    BY <1>2, <2>1, ReadNextPlain
  <2>6. run[k + 1] = PlainNext(field.call, buffer.ones, run[k])
    BY <2>3, RunUnfolds
  <2>. QED  BY <2>1, <2>2, <2>4, <2>5, <2>6
<1>3. CASE Return
  BY <1>3 DEF Return, ReadsInPlace, NoField
<1>4. ASSUME NEW b \in Buffers, Open(b)
      PROVE  ReadsInPlace'
  BY <1>4 DEF Open, ReadsInPlace
<1>5. ASSUME NEW p \in Positions, GoTo(p)
      PROVE  ReadsInPlace'
  BY <1>5 DEF GoTo, ReadsInPlace
<1>6. CASE UNCHANGED fieldVars
  BY <1>6 DEF fieldVars, vars, ReadsInPlace
<1>. QED  BY <1>1, <1>2, <1>3, <1>4, <1>5, <1>6 DEF FieldNext

\* For every buffer, place and decoder: as long as there are bits, a decoder
\* gets what it would get from a plain string of bits, and takes the branches
\* it would take there.
THEOREM FieldsReadInPlace == FieldSpec => []ReadsInPlace
<1>1. FieldInit => ReadsInPlace
  BY DEF FieldInit, ReadsInPlace, NoField
<1>. QED  BY <1>1, FieldsInvariant, PlaceStep, PTL DEF FieldSpec

----------------------------------------------------------------------------
(* Fields that a sender wrote *)

\* On the plain bits of b the call of x makes n reads from the start of the
\* field f on, all inside b, and returns the value of x behind the field.
SentIn(b, f, x, n) ==
    LET run == PlainRun(x.call, b.ones, f.at)
    IN  /\ \A i \in 0 .. n :
              /\ run[i].at <= 8 * b.bytes
              /\ Len(ReadsOf(x.call, run[i].got)) > i <=> i < n
        /\ ValueOf(x.call, run[n].got, FALSE) = x.value
        /\ run[n].at = f.at + f.bits

\* The fields of all buffers are in the bits.
AllSent ==
    \A b \in Buffers : \A f \in b.fields : \A x \in f.reads :
        \E n \in 0 .. MaxReads - 1 : SentIn(b, f, x, n)

\* A decoder that is called for the field f is inside it.
Inside(f, x) ==
    /\ field.at + field.used <= DataBits(rd)
    /\ \E n \in 0 .. MaxReads - 1 :
          SentIn(buffer, f, x, n) /\ Len(field.got) <= n

SentInv ==
    field.active /\ field.clean =>
        \A f \in buffer.fields : \A x \in f.reads :
            f.at = field.at /\ x.call = field.call => Inside(f, x)

\* A decoder inside a field stays there with its next read.
LEMMA StaysInside ==
    ASSUME FieldInv, ReadsInPlace, ReadNext, field.clean,
           NEW f, NEW x, f.at = field.at, x.call = field.call, Inside(f, x)
    PROVE  Inside(f, x)'
<1> DEFINE run == PlainRun(x.call, buffer.ones, f.at)
           k == Len(field.got)
           here == [got |-> field.got, at |-> field.at + field.used]
<1>1. PICK n \in 0 .. MaxReads - 1 : SentIn(buffer, f, x, n) /\ k <= n
  BY DEF Inside
<1>2. /\ FieldOK /\ Good(rd) /\ NextRead \in ReadOps /\ buffer' = buffer
  BY ReadNextIs
<1>3. /\ field.at \in Nat /\ field.used \in Nat /\ k \in Nat
      /\ MaxReads \in Nat /\ field.active
  <2>1. field \in ActiveFields
    BY <1>2 DEF FieldOK
  <2>2. /\ field.at \in Nat /\ field.used \in Nat /\ field.got \in Gots
        /\ field.active
    BY <2>1 DEF ActiveFields
  <2>. QED  BY <2>2, BitFieldsAssumption DEF Gots
<1>4. k < MaxReads /\ k \in 0 .. n /\ n \in Nat
  <2> HIDE DEF k
  <2>. QED  BY <1>1, <1>3
<1>5. run[k] = here
  BY <1>3, <1>4 DEF ReadsInPlace, Inside
<1> HIDE DEF here
<1>6. k < n
  <2>1. here.got = field.got
    BY DEF here
  <2>2. Len(ReadsOf(x.call, run[k].got)) > k <=> k < n
    BY <1>1, <1>4 DEF SentIn
  <2>3. ~(k >= Len(ReadsOf(field.call, field.got)))
    BY DEF ReadNext, Complete, Plan
  <2>4. Len(ReadsOf(field.call, field.got)) \in Nat
    <3>1. CallOK(field.call) /\ field.got \in Gots
      BY <1>2, BitFieldsAssumption DEF FieldOK, ActiveFields
    <3>. QED  BY <3>1, PlanType
  <2> HIDE DEF run, k
  <2>5. Len(ReadsOf(field.call, field.got)) > k
    BY <1>3, <2>3, <2>4
  <2>. QED  BY <1>5, <2>1, <2>2, <2>5
<1>7. run[k + 1] = PlainNext(field.call, buffer.ones, here)
  <2>1. k \in 0 .. MaxReads - 1
    <3> HIDE DEF k
    <3>. QED  BY <1>3, <1>4
  <2>2. run[k + 1] = PlainNext(x.call, buffer.ones, run[k])
    BY <2>1, RunUnfolds
  <2>. QED  BY <1>5, <2>2
<1>8. run[k + 1].at = field.at + field.used + NextRead.bits
  BY <1>7 DEF PlainNext, NextRead, Plan, here
<1>9. run[k + 1].at <= DataBits(rd)
  <2>1. k + 1 \in 0 .. n
    <3> HIDE DEF k
    <3>. QED  BY <1>3, <1>4, <1>6
  <2>2. run[k + 1].at <= 8 * buffer.bytes
    BY <1>1, <2>1 DEF SentIn
  <2>. QED  BY <2>2 DEF FieldInv, DataBits
<1>10. /\ Len(field'.got) = k + 1
       /\ [got |-> field'.got, at |-> field.at + field'.used]
            = PlainNext(field.call, buffer.ones, here)
  BY <1>4, <1>8, <1>9, ReadNextPlain DEF here
<1>11. field.at + field'.used = run[k + 1].at
  BY <1>7, <1>10
<1>12. /\ field'.at = field.at /\ DataBits(rd') = DataBits(rd)
  BY ReadFits
<1>13. Len(field'.got) <= n
  <2> HIDE DEF k
  <2>. QED  BY <1>3, <1>4, <1>6, <1>10
<1>. QED  BY <1>1, <1>2, <1>9, <1>11, <1>12, <1>13 DEF Inside

\* A decoder that is in its field before a step is in it after the step.
LEMMA SentStep ==
    ASSUME AllSent
    PROVE  /\ FieldInv /\ ReadsInPlace /\ SentInv /\ [FieldNext]_fieldVars
           => SentInv'
<1> SUFFICES ASSUME FieldInv, ReadsInPlace, SentInv, [FieldNext]_fieldVars
             PROVE  SentInv'
  OBVIOUS
<1>1. ASSUME NEW c \in buffer.calls, Decode(c)
      PROVE  SentInv'
  <2>1. /\ field'.got = << >> /\ field'.used = 0
        /\ field'.at = GetNumBitsRead(rd) /\ rd' = rd /\ buffer' = buffer
    BY <1>1 DEF Decode, vars
  <2>2. GetNumBitsRead(rd) \in 0 .. DataBits(rd)
    BY IInvIsGood, Position DEF FieldInv, Good
  <2>3. field'.at + field'.used <= DataBits(rd')
    BY <2>1, <2>2
  <2>4. \A n \in 0 .. MaxReads - 1 : Len(field'.got) <= n
    BY <2>1
  <2>5. buffer \in Buffers
    BY DEF FieldInv
  <2>6. ASSUME NEW f \in buffer'.fields, NEW x \in f.reads
        PROVE  Inside(f, x)'
    <3>1. \E n \in 0 .. MaxReads - 1 : SentIn(buffer, f, x, n)
      BY <2>1, <2>5 DEF AllSent
    <3>. QED  BY <2>1, <2>3, <2>4, <3>1 DEF Inside
  <2>. QED  BY <2>6 DEF SentInv
<1>2. CASE ReadNext
  <2>1. /\ field'.at = field.at /\ field'.call = field.call
        /\ field'.clean = field.clean /\ buffer' = buffer /\ field.active
    BY <1>2, ReadFits DEF ReadNext
  <2>2. ASSUME field'.clean, NEW f \in buffer'.fields, NEW x \in f.reads,
               f.at = field'.at, x.call = field'.call
        PROVE  Inside(f, x)'
    <3>1. field.clean /\ Inside(f, x)
      BY <2>1, <2>2 DEF SentInv
    <3>. QED  BY <1>2, <2>1, <2>2, <3>1, StaysInside
  <2>. QED  BY <2>2 DEF SentInv
<1>3. CASE Return
  BY <1>3 DEF Return, SentInv, NoField
<1>4. ASSUME NEW b \in Buffers, Open(b)
      PROVE  SentInv'
  BY <1>4 DEF Open, SentInv
<1>5. ASSUME NEW p \in Positions, GoTo(p)
      PROVE  SentInv'
  BY <1>5 DEF GoTo, SentInv
<1>6. CASE UNCHANGED fieldVars
  BY <1>6 DEF fieldVars, vars, SentInv, Inside
<1>. QED  BY <1>1, <1>2, <1>3, <1>4, <1>5, <1>6 DEF FieldNext

\* A decoder that is called, without overflow, where its field starts returns
\* what was sent and stops behind the field: for all buffers whose fields are
\* in their bits, wherever they start and across how many dwords they go.
THEOREM FieldsSentIsRead ==
    ASSUME AllSent
    PROVE  FieldSpec => []SentIsRead
<1>1. FieldInit => SentInv
  BY DEF FieldInit, SentInv, NoField
<1>2. FieldInv /\ ReadsInPlace /\ SentInv /\ [FieldNext]_fieldVars => SentInv'
  BY SentStep
<1>3. FieldSpec => []SentInv
  BY <1>1, <1>2, FieldsInvariant, FieldsReadInPlace, PTL DEF FieldSpec
<1>4. FieldInv /\ ReadsInPlace /\ SentInv /\ FlagIsExact => SentIsRead
  <2> SUFFICES ASSUME FieldInv, ReadsInPlace, SentInv, FlagIsExact,
                      field.active, Complete, field.clean,
                      NEW f \in buffer.fields, f.at = field.at,
                      NEW x \in f.reads, x.call = field.call
               PROVE  /\ ValueOf(field.call, field.got, rd.overflow) = x.value
                      /\ GetNumBitsRead(rd) = f.at + f.bits
                      /\ ~rd.overflow
    BY DEF SentIsRead
  <2> DEFINE run == PlainRun(x.call, buffer.ones, f.at)
             k == Len(field.got)
  <2>1. field.at + field.used <= DataBits(rd) /\ Inside(f, x)
    BY DEF SentInv, Inside
  <2>2. PICK n \in 0 .. MaxReads - 1 : SentIn(buffer, f, x, n) /\ k <= n
    BY <2>1 DEF Inside
  <2>3. field \in ActiveFields /\ rd \in Readers
    BY IInvIsGood DEF FieldInv, FieldOK, NoField, Good
  <2>4. /\ k \in Nat /\ MaxReads \in Nat /\ field.got \in Gots
        /\ field.at + field.used \in Nat /\ DataBits(rd) \in Nat
        /\ rd.overflow \in BOOLEAN
    BY <2>3, BitFieldsAssumption
    DEF ActiveFields, Gots, Readers, DataBits
  <2>5. k < MaxReads /\ k \in 0 .. n
    <3> HIDE DEF k
    <3>. QED  BY <2>2, <2>4
  <2>6. run[k] = [got |-> field.got, at |-> field.at + field.used]
    BY <2>1, <2>5 DEF ReadsInPlace
  <2>7. run[k].got = field.got /\ run[k].at = field.at + field.used
    BY <2>6
  <2>8. k = n
    <3>1. Len(ReadsOf(x.call, run[k].got)) > k <=> k < n
      BY <2>2, <2>5 DEF SentIn
    <3>2. k >= Len(ReadsOf(field.call, field.got))
      BY DEF Complete, Plan
    <3>3. Len(ReadsOf(field.call, field.got)) \in Nat
      <4>1. CallOK(field.call)
        BY <2>3, BitFieldsAssumption DEF ActiveFields
      <4>. QED  BY <2>4, <4>1, PlanType
    <3> HIDE DEF run, k
    <3>4. ~(Len(ReadsOf(field.call, field.got)) > k)
      BY <2>4, <3>2, <3>3
    <3>. QED  BY <2>2, <2>4, <2>7, <3>1, <3>4
  <2>9. /\ ValueOf(field.call, field.got, FALSE) = x.value
        /\ field.at + field.used = f.at + f.bits
    BY <2>2, <2>7, <2>8 DEF SentIn
  <2>10. /\ GetNumBitsRead(rd) = MIN(field.at + field.used, DataBits(rd))
         /\ ~rd.overflow
    BY <2>1, <2>4 DEF FlagIsExact
  <2>11. GetNumBitsRead(rd) = field.at + field.used
    BY <2>1, <2>4, <2>10 DEF MIN
  <2>12. rd.overflow = FALSE
    BY <2>4, <2>10
  <2>. QED  BY <2>9, <2>10, <2>11, <2>12
<1>. QED  BY <1>3, <1>4, FieldsInvariant, FieldsReadInPlace,
             FieldsFlagIsExact, PTL

----------------------------------------------------------------------------
(* Integers that a sender wrote *)

\* The n bits from p on are those of the integer v.
Holds(ones, p, v, n) == \A j \in 0 .. n - 1 : p + j \in ones <=> j \in v

WithSign(v, n) == v \cup (IF n - 1 \in v THEN n .. 31 ELSE {})

\* A read of n bits that hold v gets v, and its sign.
LEMMA HeldVal ==
    ASSUME NEW ones, NEW p \in Nat, NEW n \in 1 .. 32,
           NEW v \in SUBSET (0 .. n - 1), Holds(ones, p, v, n)
    PROVE  /\ PlainVal(ones, p, U(n)) = v
           /\ PlainVal(ones, p, S(n)) = WithSign(v, n)
<1>1. {j \in 0 .. n - 1 : p + j \in ones} = v
  BY DEF Holds
<1>2. PlainVal(ones, p, U(n)) = {j \in 0 .. n - 1 : p + j \in ones}
  BY DEF PlainVal, U
<1>3. PlainVal(ones, p, S(n))
        = LET q == {j \in 0 .. n - 1 : p + j \in ones}
          IN  q \cup (IF n - 1 \in q THEN n .. 31 ELSE {})
  BY DEF PlainVal, S
<1>. QED  BY <1>1, <1>2, <1>3 DEF WithSign

\* One more read on the plain bits.
LEMMA RunStep ==
    ASSUME NEW c, NEW ones, NEW a, NEW i \in 0 .. MaxReads - 1, NEW g, NEW p,
           NEW r, NEW v,
           PlainRun(c, ones, a)[i] = [got |-> g, at |-> p], Len(g) = i,
           ReadsOf(c, g)[i + 1] = r, PlainVal(ones, p, r) = v
    PROVE  PlainRun(c, ones, a)[i + 1] = [got |-> Append(g, v), at |-> p + r.bits]
<1>1. PlainRun(c, ones, a)[i + 1]
        = PlainNext(c, ones, [got |-> g, at |-> p])
  BY RunUnfolds
<1>. QED  BY <1>1 DEF PlainNext

\* The groups of seven bits that hold v, and the bit that says that another
\* one follows.
LEMMA VarIntGroups ==
    ASSUME NEW w \in {32, 64}, NEW v \in SUBSET (0 .. w - 1)
    PROVE  LET ps == VarIntPieces(v)
               n == Len(ps)
           IN  /\ n \in 1 .. 10 /\ (w = 32 => n <= 5)
               /\ \A j \in v : j < 7 * n
               /\ \A i \in 1 .. n :
                    /\ ps[i].v \in SUBSET (0 .. 7)
                    /\ 7 \in ps[i].v <=> i < n
                    /\ \A j \in 0 .. 6 :
                         j \in ps[i].v <=> j + 7 * (i - 1) \in v
<1> DEFINE P(k) == Below(v, 7 * k)
           Q(k) == P(k) /\ (k > 1 => ~P(k - 1))
           n == CHOOSE k \in 1 .. 10 : Q(k)
           ps == VarIntPieces(v)
<1>1. P(10) /\ (w = 32 => \A k \in 5 .. 10 : P(k))
  BY DEF Below
<1>2. \E k \in 1 .. 10 : Q(k)
  <2> SUFFICES ASSUME \A k \in 1 .. 10 : ~Q(k) PROVE FALSE
    OBVIOUS
  <2> HIDE DEF P
  <2>1. ~P(1)
    OBVIOUS
  <2>2. \A k \in 2 .. 10 : ~P(k - 1) => ~P(k)
    OBVIOUS
  <2>3. ~P(2) /\ ~P(3) /\ ~P(4) /\ ~P(5) /\ ~P(6)
    BY <2>1, <2>2
  <2>4. ~P(7) /\ ~P(8) /\ ~P(9) /\ ~P(10)
    BY <2>2, <2>3
  <2>. QED  BY <1>1, <2>4
<1>3. n \in 1 .. 10 /\ P(n) /\ (n > 1 => ~P(n - 1))
  BY <1>2
<1>4. ps = [i \in 1 .. n |-> Piece(Part(v, 7 * (i - 1), 7)
                                    \cup (IF i < n THEN {7} ELSE {}), 8)]
  BY Zenon DEF VarIntPieces
<1> HIDE DEF n, ps
<1>5. Len(ps) = n
  BY <1>3, <1>4
<1>6. w = 32 => n <= 5
  <2> SUFFICES ASSUME w = 32, ~(n <= 5) PROVE FALSE
    OBVIOUS
  <2>1. n - 1 \in 5 .. 10 /\ n > 1
    BY <1>3
  <2> HIDE DEF P
  <2>. QED  BY <1>1, <1>3, <2>1
<1>7. \A j \in v : j < 7 * n
  BY <1>3 DEF Below
<1>8. ASSUME NEW i \in 1 .. n
      PROVE  /\ ps[i].v \in SUBSET (0 .. 7)
             /\ 7 \in ps[i].v <=> i < n
             /\ \A j \in 0 .. 6 : j \in ps[i].v <=> j + 7 * (i - 1) \in v
  <2>1. ps[i].v = Part(v, 7 * (i - 1), 7) \cup (IF i < n THEN {7} ELSE {})
    BY <1>3, <1>4 DEF Piece
  <2>2. \A j : j \in Part(v, 7 * (i - 1), 7) <=>
                 j \in 0 .. 6 /\ j + 7 * (i - 1) \in v
    BY DEF Part
  <2>. QED  BY <2>1, <2>2
<1>. QED  BY <1>3, <1>5, <1>6, <1>7, <1>8 DEF ps

\* The first i groups of z, as they are read.
Groups(z, i) == [k \in 1 .. i |-> VarIntPieces(z)[k].v]

\* The loop stops at the last group of z and not before it.
LEMMA VarIntPlan ==
    ASSUME NEW w \in {32, 64}, NEW z \in SUBSET (0 .. w - 1),
           NEW max \in Nat, Len(VarIntPieces(z)) <= max,
           NEW i \in 0 .. Len(VarIntPieces(z))
    PROVE  VarIntReads(max, Groups(z, i))
             = Times(IF i < Len(VarIntPieces(z)) THEN i + 1 ELSE i, U(8))
<1> DEFINE n == Len(VarIntPieces(z))
           g == Groups(z, i)
<1>1. n \in 1 .. 10
  BY VarIntGroups
<1>2. Len(g) = i /\ (g # << >> <=> i > 0)
  <2>1. i \in Nat
    BY <1>1
  <2> HIDE DEF n
  <2>. QED  BY <2>1 DEF Groups
<1>3. i > 0 => g[i] = VarIntPieces(z)[i].v
  BY <1>1 DEF Groups
<1>4. i > 0 => (7 \in VarIntPieces(z)[i].v <=> i < n)
  <2>1. i > 0 => i \in 1 .. n
    BY <1>1
  <2>. QED  BY <2>1, VarIntGroups
<1>5. VarIntReads(max, g)
        = Times(IF g # << >> /\ (7 \notin g[Len(g)] \/ Len(g) = max)
                  THEN Len(g) ELSE Len(g) + 1, U(8))
  BY Zenon DEF VarIntReads, Until
<1> HIDE DEF n, g
<1>6. CASE i = 0
  <2>1. ~(g # << >>) /\ Len(g) + 1 = i + 1 /\ i < n
    BY <1>1, <1>2, <1>6
  <2>2. VarIntReads(max, g) = Times(i + 1, U(8))
    BY <1>5, <2>1, Zenon
  <2>. QED  BY <2>1, <2>2 DEF n, g
<1>7. CASE i > 0
  <2>1. n <= max
    BY DEF n
  <2>2. (7 \notin g[i] \/ i = max) <=> ~(i < n)
    <3>1. 7 \notin g[i] <=> ~(i < n)
      BY <1>3, <1>4, <1>7
    <3>2. i = max => ~(i < n)
      BY <1>1, <2>1
    <3>. QED  BY <3>1, <3>2
  <2>. QED  BY <1>2, <1>5, <1>7, <2>2 DEF n, g
<1>. QED  BY <1>6, <1>7

\* The call c reads a varint of at most max groups.
ReadsGroups(c, max) == \A g : ReadsOf(c, g) = VarIntReads(max, g)

\* The groups of z are in the bits from a on.
GroupsAt(ones, a, z) ==
    \A k \in 1 .. Len(VarIntPieces(z)) :
        Holds(ones, a + 8 * (k - 1), VarIntPieces(z)[k].v, 8)

\* After i reads on the bits from a on the call c has the first i groups of z.
GroupsRead(c, ones, a, z, i) ==
    PlainRun(c, ones, a)[i] = [got |-> Groups(z, i), at |-> a + 8 * i]

IntWidths == {32, 64}

\* On the bits of z, group by group.
LEMMA VarIntRun ==
    ASSUME NEW w \in IntWidths, NEW z \in SUBSET (0 .. w - 1),
           NEW max \in Nat, Len(VarIntPieces(z)) <= max, max < MaxReads,
           NEW c, ReadsGroups(c, max),
           NEW ones, NEW a \in Nat, GroupsAt(ones, a, z),
           NEW i \in 0 .. Len(VarIntPieces(z))
    PROVE  GroupsRead(c, ones, a, z, i)
<1> DEFINE n == Len(VarIntPieces(z))
           run == PlainRun(c, ones, a)
           T == {k \in 0 .. n : run[k] # [got |-> Groups(z, k), at |-> a + 8 * k]}
<1>1. n \in 1 .. 10 /\ n <= max
  BY VarIntGroups DEF IntWidths
<1> HIDE DEF n
<1> SUFFICES ASSUME T # {} PROVE FALSE
  BY DEF n, GroupsRead
<1> USE DEF IntWidths
<1>2. IsWellFoundedOn(EarlierNat, Nat)
  BY NatLessThanWellFounded, Zenon DEF OpToRel, EarlierNat
<1>3. PICK m \in T : \A k \in T : ~(<<k, m>> \in EarlierNat)
  <2>1. T \subseteq Nat
    BY <1>1
  <2>. QED  BY <1>2, <2>1, WFMin, ZenonT(60)
<1>4. m \in 0 .. n /\ run[m] # [got |-> Groups(z, m), at |-> a + 8 * m]
  OBVIOUS
<1>5. CASE m = 0
  <2>1. Groups(z, 0) = << >> /\ a + 8 * 0 = a
    BY DEF Groups
  <2>2. run[0] = [got |-> << >>, at |-> a]
    BY RunUnfolds DEF PlainStart
  <2>. QED  BY <1>4, <1>5, <2>1, <2>2
<1>6. CASE m > 0
  <2> DEFINE k == m - 1
             g == Groups(z, k)
             v == VarIntPieces(z)[m].v
             p == a + 8 * k
  <2>1. /\ k \in 0 .. n /\ k + 1 = m /\ k < n /\ m \in 1 .. n
        /\ k \in Nat /\ p \in Nat /\ p + 8 = a + 8 * m
        /\ <<k, m>> \in EarlierNat
    BY <1>1, <1>4, <1>6 DEF EarlierNat
  <2>2. run[k] = [got |-> g, at |-> p]
    <3>1. k \notin T
      BY <1>3, <2>1, Zenon
    <3>. QED  BY <2>1, <3>1
  <2>3. k \in 0 .. MaxReads - 1
    BY <1>1, <2>1, BitFieldsAssumption
  <2>4. Len(g) = k
    BY <2>1 DEF Groups
  <2>5. ReadsOf(c, g)[k + 1] = U(8)
    <3>1. VarIntReads(max, g) = Times(k + 1, U(8))
      BY <1>1, <2>1, VarIntPlan, SMTT(60) DEF n
    <3>2. ReadsOf(c, g) = VarIntReads(max, g)
      BY Zenon DEF ReadsGroups
    <3>. QED  BY <2>1, <3>1, <3>2 DEF Times
  <2>6. PlainVal(ones, p, U(8)) = v
    <3>1. v \in SUBSET (0 .. 7)
      BY <2>1, VarIntGroups, ZenonT(60) DEF n
    <3>2. Holds(ones, p, v, 8)
      BY <2>1 DEF n, GroupsAt
    <3>3. v \in SUBSET (0 .. 8 - 1) /\ 8 \in 1 .. 32
      BY <3>1
    <3> HIDE DEF v, p
    <3>. QED  BY <2>1, <3>2, <3>3, HeldVal
  <2>7. Append(g, v) = Groups(z, m)
    BY <2>1 DEF Groups
  <2> DEFINE r == U(8)
  <2>8. r.bits = 8
    BY DEF U
  <2> HIDE DEF g, v, p, k, r
  <2>9. run[k + 1] = [got |-> Append(g, v), at |-> p + r.bits]
    BY <2>2, <2>3, <2>4, <2>5, <2>6, RunStep DEF r
  <2> HIDE DEF run
  <2>. QED  BY <1>4, <2>1, <2>7, <2>8, <2>9
<1>. QED  BY <1>1, <1>4, <1>5, <1>6

\* The groups of z put together are z.
LEMMA VarIntValue ==
    ASSUME NEW w \in {32, 64}, NEW z \in SUBSET (0 .. w - 1)
    PROVE  ReadVarInt(w, Groups(z, Len(VarIntPieces(z)))) = z
<1> DEFINE n == Len(VarIntPieces(z))
           g == Groups(z, n)
<1>1. /\ n \in 1 .. 10
      /\ \A j \in z : j < 7 * n
      /\ \A i \in 1 .. n : \A j \in 0 .. 6 :
           j \in VarIntPieces(z)[i].v <=> j + 7 * (i - 1) \in z
      /\ \A i \in 1 .. n : VarIntPieces(z)[i].v \in SUBSET (0 .. 7)
  BY VarIntGroups, SMTT(60)
<1>2. DOMAIN g = 1 .. n /\ \A i \in 1 .. n : g[i] = VarIntPieces(z)[i].v
  BY DEF Groups
<1> HIDE DEF n, g
<1>3. ASSUME NEW i \in 1 .. n, NEW j
      PROVE  j \in Shl(g[i] \ {7}, 7 * (i - 1), w)
               <=> j \in z /\ j - 7 * (i - 1) \in 0 .. 6
  <2>1. \A k \in 0 .. 6 : k \in g[i] <=> k + 7 * (i - 1) \in z
    BY <1>1, <1>2
  <2>2. g[i] \ {7} \subseteq 0 .. 6
    <3>1. g[i] \in SUBSET (0 .. 7)
      BY <1>1, <1>2, ZenonT(60)
    <3>2. \A k \in 0 .. 7 : k # 7 => k \in 0 .. 6
      OBVIOUS
    <3>. QED  BY <3>1, <3>2, Zenon
  <2>3. ASSUME j \in 0 .. w - 1
        PROVE  j - 7 * (i - 1) \in g[i] \ {7}
                 <=> j \in z /\ j - 7 * (i - 1) \in 0 .. 6
    <3> DEFINE k == j - 7 * (i - 1)
    <3>1. k \in Int /\ k + 7 * (i - 1) = j
      BY <1>1, <2>3
    <3> HIDE DEF k
    <3>2. k \in 0 .. 6 => (k \in g[i] \ {7} <=> j \in z)
      BY <2>1, <3>1
    <3>. QED  BY <2>2, <3>2 DEF k
  <2>. QED  BY <2>3 DEF Shl
<1>4. ASSUME NEW j \in z
      PROVE  \E i \in 1 .. n : j - 7 * (i - 1) \in 0 .. 6
  <2>1. j \in Nat /\ j < 7 * n
    BY <1>1
  <2>2. (j \div 7) + 1 \in 1 .. n /\ j - 7 * (((j \div 7) + 1) - 1) \in 0 .. 6
    BY <1>1, <2>1
  <2>. QED  BY <2>2
<1>5. ReadVarInt(w, g) = UNION {Shl(g[i] \ {7}, 7 * (i - 1), w) : i \in 1 .. n}
  BY <1>2 DEF ReadVarInt
<1>6. \A j : j \in ReadVarInt(w, g) <=>
               \E i \in 1 .. n : j \in Shl(g[i] \ {7}, 7 * (i - 1), w)
  BY <1>5, ZenonT(60)
<1>7. \A j : j \in ReadVarInt(w, g) <=> j \in z
  BY <1>3, <1>4, <1>6, ZenonT(60)
<1>. QED  BY <1>7, Zenon DEF n, g

\* An integer of w bits as a varint in the bits of b, as it is or as zigzag,
\* and the call that reads it.
VarIntField(b, f, x) ==
    \E w \in {32, 64} : \E z \in SUBSET (0 .. w - 1) :
        /\ f.bits = 8 * Len(VarIntPieces(z))
        /\ GroupsAt(b.ones, f.at, z)
        /\ x.value \in SUBSET (0 .. w - 1)
        /\ \/ /\ x.call.op = IF w = 32 THEN "ReadVarInt32" ELSE "ReadVarInt64"
              /\ z = x.value
           \/ /\ x.call.op = IF w = 32 THEN "ReadSignedVarInt32"
                                       ELSE "ReadSignedVarInt64"
              /\ z = ZigZagEncode(x.value, w)

\* The field lies inside the buffer.
FieldFits(b, f) ==
    f.at \in Nat /\ b.bytes \in Nat /\ f.at + f.bits <= 8 * b.bytes

\* A varint in the bits is what the decoder reads, in at most ten reads.
LEMMA VarIntSent ==
    ASSUME MaxReads > kMaxVarintBytes, NEW b, NEW f, NEW x,
           FieldFits(b, f), VarIntField(b, f, x)
    PROVE  \E n \in 0 .. MaxReads - 1 : SentIn(b, f, x, n)
<1>1. PICK w \in {32, 64} : \E z \in SUBSET (0 .. w - 1) :
        /\ f.bits = 8 * Len(VarIntPieces(z))
        /\ GroupsAt(b.ones, f.at, z)
        /\ x.value \in SUBSET (0 .. w - 1)
        /\ \/ /\ x.call.op = IF w = 32 THEN "ReadVarInt32" ELSE "ReadVarInt64"
              /\ z = x.value
           \/ /\ x.call.op = IF w = 32 THEN "ReadSignedVarInt32"
                                       ELSE "ReadSignedVarInt64"
              /\ z = ZigZagEncode(x.value, w)
  BY Zenon DEF VarIntField
<1>2. PICK z \in SUBSET (0 .. w - 1) :
        /\ f.bits = 8 * Len(VarIntPieces(z))
        /\ GroupsAt(b.ones, f.at, z)
        /\ x.value \in SUBSET (0 .. w - 1)
        /\ \/ /\ x.call.op = IF w = 32 THEN "ReadVarInt32" ELSE "ReadVarInt64"
              /\ z = x.value
           \/ /\ x.call.op = IF w = 32 THEN "ReadSignedVarInt32"
                                       ELSE "ReadSignedVarInt64"
              /\ z = ZigZagEncode(x.value, w)
  BY <1>1, Zenon
<1> DEFINE n == Len(VarIntPieces(z))
           max == IF w = 32 THEN 5 ELSE 10
           run == PlainRun(x.call, b.ones, f.at)
<1>3. /\ n \in 1 .. 10 /\ n <= max /\ max \in Nat /\ max < MaxReads
      /\ MaxReads \in Nat
  <2>1. n \in 1 .. 10 /\ (w = 32 => n <= 5)
    BY VarIntGroups
  <2> HIDE DEF n
  <2>. QED  BY <2>1, BitFieldsAssumption DEF kMaxVarintBytes
<1>4. ReadsGroups(x.call, max)
  BY <1>2 DEF ReadsGroups, ReadsOf, kMaxVarint32Bytes, kMaxVarintBytes
<1>5. \A g : ValueOf(x.call, g, FALSE)
               = IF z = x.value /\ x.call.op \in {"ReadVarInt32", "ReadVarInt64"}
                   THEN ReadVarInt(w, g) ELSE ZigZagDecode(ReadVarInt(w, g), w)
  BY <1>2 DEF ValueOf
<1> HIDE DEF max
<1>6. ASSUME NEW i \in 0 .. n
      PROVE  run[i] = [got |-> Groups(z, i), at |-> f.at + 8 * i]
  <2>1. f.at \in Nat /\ GroupsAt(b.ones, f.at, z)
    BY <1>2 DEF FieldFits
  <2>2. n <= max /\ max \in Nat /\ max < MaxReads
    BY <1>3
  <2>3. w \in IntWidths
    BY DEF IntWidths
  <2>4. GroupsRead(x.call, b.ones, f.at, z, i)
    <3> HIDE DEF run
    <3>. QED  BY <1>4, <2>1, <2>2, <2>3, VarIntRun
  <2>. QED  BY <2>4 DEF GroupsRead
<1> HIDE DEF run
<1>7. ASSUME NEW i \in 0 .. n
      PROVE  /\ run[i].at <= 8 * b.bytes
             /\ Len(ReadsOf(x.call, run[i].got)) > i <=> i < n
  <2>1. run[i].at = f.at + 8 * i /\ run[i].got = Groups(z, i)
    <3>1. run[i] = [got |-> Groups(z, i), at |-> f.at + 8 * i]
      BY <1>6, Zenon
    <3>. QED  BY <3>1
  <2>2. ReadsOf(x.call, Groups(z, i))
          = Times(IF i < n THEN i + 1 ELSE i, U(8))
    BY <1>3, <1>4, VarIntPlan DEF ReadsGroups
  <2>3. \A m \in Nat : Len(Times(m, U(8))) = m
    BY DEF Times
  <2> DEFINE m == IF i < n THEN i + 1 ELSE i
  <2>4. m \in Nat /\ (m > i <=> i < n)
    <3> HIDE DEF n
    <3>. QED  BY <1>3
  <2> HIDE DEF m
  <2>5. Len(ReadsOf(x.call, run[i].got)) > i <=> i < n
    BY <2>1, <2>2, <2>3, <2>4 DEF m
  <2>6. f.at + 8 * n <= 8 * b.bytes /\ f.at \in Nat /\ b.bytes \in Nat
    BY <1>2 DEF FieldFits
  <2>7. f.at + 8 * i <= 8 * b.bytes
    <3> HIDE DEF n
    <3>. QED  BY <1>3, <2>6
  <2>. QED  BY <2>1, <2>5, <2>7
<1>8. n \in 0 .. n /\ n \in 0 .. MaxReads - 1
  <2> HIDE DEF n
  <2>. QED  BY <1>3
<1>9. run[n].got = Groups(z, n) /\ run[n].at = f.at + f.bits
  <2>1. run[n] = [got |-> Groups(z, n), at |-> f.at + 8 * n]
    BY <1>6, <1>8, Zenon
  <2>. QED  BY <1>2, <2>1
<1>10. ReadVarInt(w, run[n].got) = z
  BY <1>9, VarIntValue
<1>11. ValueOf(x.call, run[n].got, FALSE) = x.value
  <2>1. CASE z = x.value /\ x.call.op \in {"ReadVarInt32", "ReadVarInt64"}
    BY <1>5, <1>10, <2>1
  <2>2. CASE ~(z = x.value /\ x.call.op \in {"ReadVarInt32", "ReadVarInt64"})
    <3>1. z = ZigZagEncode(x.value, w)
      BY <1>2, <2>2
    <3>2. ZigZagDecode(z, w) = x.value
      <4>1. w \in Nat \ {0} /\ x.value \in SUBSET (0 .. w - 1)
        BY <1>2
      <4>. QED  BY <3>1, <4>1, ZigZagInverse, Zenon
    <3>. QED  BY <1>5, <1>10, <2>2, <3>2, ZenonT(60)
  <2>. QED  BY <2>1, <2>2
<1>12. SentIn(b, f, x, n)
  BY <1>7, <1>9, <1>11 DEF SentIn, run
<1>. QED  BY <1>8, <1>12

\* Two pairs with the same members are equal.
LEMMA EqualPairs ==
    ASSUME NEW D, NEW s \in Seq(D), NEW t \in Seq(D), Len(s) = 2, Len(t) = 2,
           s[1] = t[1], s[2] = t[2]
    PROVE  s = t
  OBVIOUS

\* The values of the first two reads, one appended to the other.
LEMMA ShortSeqs ==
    ASSUME NEW g, NEW h
    PROVE  /\ Len(<< >>) = 0 /\ Append(<< >>, g) = <<g>>
           /\ Len(<<g>>) = 1 /\ Append(<<g>>, h) = <<g, h>>
           /\ Len(<<g, h>>) = 2
<1>1. Len(<< >>) = 0 /\ Len(<<g>>) = 1 /\ Len(<<g, h>>) = 2
  OBVIOUS
<1>2. Append(<< >>, g) = <<g>>
  OBVIOUS
<1>3. Append(<<g>>, h) = <<g, h>>
  <2> DEFINE s == Append(<<g>>, h)
             t == <<g, h>>
  <2>1. <<g>> \in Seq({g, h}) /\ h \in {g, h}
    OBVIOUS
  <2>2. s \in Seq({g, h}) /\ Len(s) = 2 /\ s[1] = g /\ s[2] = h
    BY <2>1, AppendProperties
  <2>3. t \in Seq({g, h}) /\ Len(t) = 2 /\ t[1] = g /\ t[2] = h
    OBVIOUS
  <2> HIDE DEF s, t
  <2>4. s = t
    BY <2>2, <2>3, EqualPairs
  <2>. QED  BY <2>4 DEF s, t
<1>. QED  BY <1>1, <1>2, <1>3

\* The parts of a field that fits fit.
LEMMA PartsFit ==
    ASSUME NEW a \in Nat, NEW m \in Nat, NEW k \in Nat, NEW n \in Nat,
           a + (m + k) <= 8 * n
    PROVE  /\ a <= 8 * n /\ a + m <= 8 * n /\ (a + m) + k <= 8 * n
           /\ (a + m) + k = a + (m + k)
  OBVIOUS

\* The first read on the plain bits, and the second one.
LEMMA RunOne ==
    ASSUME NEW c, NEW ones, NEW a, NEW r, NEW g,
           ReadsOf(c, << >>)[1] = r, PlainVal(ones, a, r) = g
    PROVE  PlainRun(c, ones, a)[1] = [got |-> <<g>>, at |-> a + r.bits]
<1>1. 0 \in 0 .. MaxReads - 1 /\ 0 + 1 = 1
  BY BitFieldsAssumption
<1>2. /\ PlainRun(c, ones, a)[0] = [got |-> << >>, at |-> a]
      /\ PlainRun(c, ones, a)[0 + 1]
           = PlainNext(c, ones, PlainRun(c, ones, a)[0])
  BY <1>1, RunUnfolds DEF PlainStart
<1>3. PlainNext(c, ones, [got |-> << >>, at |-> a])
        = [got |-> Append(<< >>, g), at |-> a + r.bits]
  BY <1>1, ShortSeqs DEF PlainNext
<1>. QED  BY <1>1, <1>2, <1>3, ShortSeqs

\* The second read starts where the first one ended.
LEMMA RunTwo ==
    ASSUME NEW c, NEW ones, NEW a, NEW g, NEW p, NEW s, NEW h, MaxReads > 1,
           PlainRun(c, ones, a)[1] = [got |-> <<g>>, at |-> p],
           ReadsOf(c, <<g>>)[2] = s, PlainVal(ones, p, s) = h
    PROVE  PlainRun(c, ones, a)[2] = [got |-> <<g, h>>, at |-> p + s.bits]
<1>1. 1 \in 0 .. MaxReads - 1 /\ 1 + 1 = 2
  BY BitFieldsAssumption
<1>2. PlainRun(c, ones, a)[1 + 1]
        = PlainNext(c, ones, PlainRun(c, ones, a)[1])
  BY <1>1, RunUnfolds
<1>3. PlainNext(c, ones, [got |-> <<g>>, at |-> p])
        = [got |-> Append(<<g>>, h), at |-> p + s.bits]
  BY <1>1, ShortSeqs DEF PlainNext
<1>. QED  BY <1>1, <1>2, <1>3, ShortSeqs

\* The call c goes on after the values g.
GoesOn(c, g) == Len(ReadsOf(c, g)) > Len(g)

\* After i reads on the bits from a on the call c has got g and is at p.
RunIs(c, ones, a, i, g, p) ==
    PlainRun(c, ones, a)[i] = [got |-> g, at |-> p] /\ Len(g) = i

\* A read inside the buffer, before the last one of the call or the last one.
LEMMA RunIsAt ==
    ASSUME NEW b, NEW f, NEW x, NEW i, NEW g, NEW p, NEW n,
           RunIs(x.call, b.ones, f.at, i, g, p), p <= 8 * b.bytes,
           GoesOn(x.call, g) <=> i < n
    PROVE  LET run == PlainRun(x.call, b.ones, f.at)
           IN  /\ run[i].at <= 8 * b.bytes
               /\ Len(ReadsOf(x.call, run[i].got)) > i <=> i < n
<1> DEFINE run == PlainRun(x.call, b.ones, f.at)
<1>1. run[i].at = p /\ run[i].got = g /\ Len(g) = i
  BY DEF RunIs
<1> HIDE DEF run
<1>2. Len(ReadsOf(x.call, run[i].got)) > i <=> i < n
  BY <1>1, Zenon DEF GoesOn
<1>. QED  BY <1>1, <1>2 DEF run

\* A call that makes one read.
LEMMA SentInOne ==
    ASSUME NEW b, NEW f, NEW x, NEW g, NEW m \in Nat,
           FieldFits(b, f), f.bits = m,
           RunIs(x.call, b.ones, f.at, 1, <<g>>, f.at + m),
           GoesOn(x.call, << >>), ~GoesOn(x.call, <<g>>),
           ValueOf(x.call, <<g>>, FALSE) = x.value
    PROVE  SentIn(b, f, x, 1)
<1> DEFINE run == PlainRun(x.call, b.ones, f.at)
<1>1. RunIs(x.call, b.ones, f.at, 0, << >>, f.at)
  BY RunUnfolds, ShortSeqs DEF PlainStart, RunIs
<1>2. /\ f.at \in Nat /\ b.bytes \in Nat /\ f.at + (m + 0) <= 8 * b.bytes
      /\ 0 \in Nat
  BY DEF FieldFits
<1>3. f.at <= 8 * b.bytes /\ f.at + m <= 8 * b.bytes
  BY <1>2, PartsFit
<1>4. ASSUME NEW i \in 0 .. 1
      PROVE  /\ run[i].at <= 8 * b.bytes
             /\ Len(ReadsOf(x.call, run[i].got)) > i <=> i < 1
  <2>1. CASE i = 0
    <3>1. GoesOn(x.call, << >>) <=> 0 < 1
      OBVIOUS
    <3>. QED  BY <1>1, <1>3, <2>1, <3>1, RunIsAt, Zenon
  <2>2. CASE i = 1
    <3>1. GoesOn(x.call, <<g>>) <=> 1 < 1
      OBVIOUS
    <3>. QED  BY <1>3, <2>2, <3>1, RunIsAt, Zenon
  <2>. QED  BY <2>1, <2>2
<1>5. run[1].got = <<g>> /\ run[1].at = f.at + f.bits
  BY DEF RunIs
<1>. QED  BY <1>4, <1>5 DEF SentIn, run

\* A call that makes two reads.
LEMMA SentInTwo ==
    ASSUME NEW b, NEW f, NEW x, NEW g, NEW h, NEW m \in Nat, NEW k \in Nat,
           FieldFits(b, f), f.bits = m + k,
           RunIs(x.call, b.ones, f.at, 1, <<g>>, f.at + m),
           RunIs(x.call, b.ones, f.at, 2, <<g, h>>, (f.at + m) + k),
           GoesOn(x.call, << >>), GoesOn(x.call, <<g>>),
           ~GoesOn(x.call, <<g, h>>),
           ValueOf(x.call, <<g, h>>, FALSE) = x.value
    PROVE  SentIn(b, f, x, 2)
<1> DEFINE run == PlainRun(x.call, b.ones, f.at)
<1>1. RunIs(x.call, b.ones, f.at, 0, << >>, f.at)
  BY RunUnfolds, ShortSeqs DEF PlainStart, RunIs
<1>2. /\ f.at \in Nat /\ b.bytes \in Nat /\ f.at + (m + k) <= 8 * b.bytes
  BY DEF FieldFits
<1>3. /\ f.at <= 8 * b.bytes /\ f.at + m <= 8 * b.bytes
      /\ (f.at + m) + k <= 8 * b.bytes /\ (f.at + m) + k = f.at + (m + k)
  BY <1>2, PartsFit
<1>4. ASSUME NEW i \in 0 .. 2
      PROVE  /\ run[i].at <= 8 * b.bytes
             /\ Len(ReadsOf(x.call, run[i].got)) > i <=> i < 2
  <2>1. CASE i = 0
    <3>1. GoesOn(x.call, << >>) <=> 0 < 2
      OBVIOUS
    <3>. QED  BY <1>1, <1>3, <2>1, <3>1, RunIsAt, Zenon
  <2>2. CASE i = 1
    <3>1. GoesOn(x.call, <<g>>) <=> 1 < 2
      OBVIOUS
    <3>. QED  BY <1>3, <2>2, <3>1, RunIsAt, Zenon
  <2>3. CASE i = 2
    <3>1. GoesOn(x.call, <<g, h>>) <=> 2 < 2
      OBVIOUS
    <3>. QED  BY <1>3, <2>3, <3>1, RunIsAt, Zenon
  <2>. QED  BY <2>1, <2>2, <2>3
<1>5. run[2].got = <<g, h>> /\ run[2].at = f.at + f.bits
  BY <1>3 DEF RunIs
<1>. QED  BY <1>4, <1>5 DEF SentIn, run

\* The reads r and, if n is not zero, of n bits.
TwoReads(r, n) == <<r>> \o When(n > 0, <<U(n)>>)

\* There is one read or there are two, the second one of n bits.
LEMMA PlanOfTwo ==
    ASSUME NEW r \in ReadOps, NEW n \in 0 .. 32
    PROVE  /\ Len(TwoReads(r, n)) = (IF n > 0 THEN 2 ELSE 1)
           /\ TwoReads(r, n)[1] = r
           /\ n > 0 => TwoReads(r, n)[2] = U(n)
<1> DEFINE t == When(n > 0, <<U(n)>>)
<1>1. <<r>> \in Seq(ReadOps) /\ t \in Seq(ReadOps) /\ Len(<<r>>) = 1
  BY OneRead, ReadSeqs
<1>2. CASE n > 0
  <2>1. t = <<U(n)>> /\ Len(t) = 1
    BY <1>2 DEF When
  <2> HIDE DEF t
  <2>2. Len(<<r>> \o t) = 2 /\ (<<r>> \o t)[1] = r /\ (<<r>> \o t)[2] = t[1]
    BY <1>1, <2>1
  <2>. QED  BY <1>2, <2>1, <2>2 DEF t, TwoReads
<1>3. CASE ~(n > 0)
  <2>1. t = << >> /\ Len(t) = 0
    BY <1>3 DEF When
  <2> HIDE DEF t
  <2>2. Len(<<r>> \o t) = 1 /\ (<<r>> \o t)[1] = r
    BY <1>1, <2>1
  <2>. QED  BY <1>3, <2>2 DEF t, TwoReads
<1>. QED  BY <1>2, <1>3

\* The call c reads m bits, g, and then n bits, h, unless n is zero.
MakesTwo(c, m, n, g, h) ==
    /\ ReadsOf(c, << >>)[1] = U(m)
    /\ Len(ReadsOf(c, << >>)) = 1
    /\ Len(ReadsOf(c, <<g>>)) = IF n > 0 THEN 2 ELSE 1
    /\ n > 0 => ReadsOf(c, <<g>>)[2] = U(n)
    /\ n > 0 => Len(ReadsOf(c, <<g, h>>)) = 2

\* g is in the m bits at p, and h in the n bits behind it.
HoldsTwo(ones, p, m, n, g, h) ==
    /\ g \in SUBSET (0 .. m - 1)
    /\ h \in SUBSET (0 .. n - 1)
    /\ Holds(ones, p, g, m)
    /\ n > 0 => Holds(ones, p + m, h, n)

\* What the call c returns for g and h.
GivesTwo(c, n, g, h) ==
    IF n > 0 THEN ValueOf(c, <<g, h>>, FALSE) ELSE ValueOf(c, <<g>>, FALSE)

\* A field of one part or of two.
LEMMA TwoPartsSent ==
    ASSUME MaxReads > 2, NEW b, NEW f, NEW x, NEW m \in 1 .. 32,
           NEW n \in 0 .. 32, NEW g, NEW h, FieldFits(b, f), f.bits = m + n,
           MakesTwo(x.call, m, n, g, h), HoldsTwo(b.ones, f.at, m, n, g, h),
           GivesTwo(x.call, n, g, h) = x.value
    PROVE  \E k \in 0 .. MaxReads - 1 : SentIn(b, f, x, k)
<1>1. f.at \in Nat /\ MaxReads \in Nat
  BY BitFieldsAssumption DEF FieldFits
<1>2. PlainVal(b.ones, f.at, U(m)) = g
  BY <1>1, HeldVal DEF HoldsTwo
<1>3. U(m).bits = m /\ U(n).bits = n
  BY DEF U
<1>4. RunIs(x.call, b.ones, f.at, 1, <<g>>, f.at + m)
  <2>1. ReadsOf(x.call, << >>)[1] = U(m)
    BY DEF MakesTwo
  <2>2. PlainRun(x.call, b.ones, f.at)[1]
          = [got |-> <<g>>, at |-> f.at + U(m).bits]
    BY <1>2, <2>1, RunOne
  <2>. QED  BY <1>3, <2>2, ShortSeqs DEF RunIs
<1>5. GoesOn(x.call, << >>)
  BY ShortSeqs DEF MakesTwo, GoesOn
<1>6. CASE n > 0
  <2>1. ReadsOf(x.call, <<g>>)[2] = U(n)
    BY <1>6 DEF MakesTwo
  <2>2. PlainVal(b.ones, f.at + m, U(n)) = h
    <3>1. n \in 1 .. 32 /\ f.at + m \in Nat
      BY <1>1, <1>6
    <3>. QED  BY <1>6, <3>1, HeldVal DEF HoldsTwo
  <2>3. RunIs(x.call, b.ones, f.at, 2, <<g, h>>, (f.at + m) + n)
    <3>1. MaxReads > 1
      BY <1>1
    <3>2. PlainRun(x.call, b.ones, f.at)[2]
            = [got |-> <<g, h>>, at |-> (f.at + m) + U(n).bits]
      BY <1>4, <2>1, <2>2, <3>1, RunTwo DEF RunIs
    <3>. QED  BY <1>3, <3>2, ShortSeqs DEF RunIs
  <2>4. GoesOn(x.call, <<g>>) /\ ~GoesOn(x.call, <<g, h>>)
    <3>1. Len(<<g>>) = 1 /\ Len(<<g, h>>) = 2
      OBVIOUS
    <3>2. Len(ReadsOf(x.call, <<g>>)) = 2 /\ Len(ReadsOf(x.call, <<g, h>>)) = 2
      BY <1>6 DEF MakesTwo
    <3>3. 2 > 1 /\ ~(2 > 2)
      OBVIOUS
    <3>. QED  BY <3>1, <3>2, <3>3, Zenon DEF GoesOn
  <2>5. ValueOf(x.call, <<g, h>>, FALSE) = x.value
    BY <1>6 DEF GivesTwo
  <2>6. m \in Nat /\ n \in Nat
    OBVIOUS
  <2>7. SentIn(b, f, x, 2)
    BY <1>4, <1>5, <2>3, <2>4, <2>5, <2>6, SentInTwo
  <2>8. 2 \in 0 .. MaxReads - 1
    BY <1>1
  <2>. QED  BY <2>7, <2>8
<1>7. CASE ~(n > 0)
  <2>1. ~GoesOn(x.call, <<g>>)
    <3>1. Len(<<g>>) = 1
      OBVIOUS
    <3>2. Len(ReadsOf(x.call, <<g>>)) = 1 /\ ~(1 > 1)
      BY <1>7 DEF MakesTwo
    <3>. QED  BY <3>1, <3>2, Zenon DEF GoesOn
  <2>2. ValueOf(x.call, <<g>>, FALSE) = x.value
    BY <1>7 DEF GivesTwo
  <2>3. m \in Nat /\ f.bits = m
    BY <1>7
  <2>4. SentIn(b, f, x, 1)
    BY <1>4, <1>5, <2>1, <2>2, <2>3, SentInOne
  <2>5. 1 \in 0 .. MaxReads - 1
    BY <1>1
  <2>. QED  BY <2>4, <2>5
<1>. QED  BY <1>6, <1>7

\* Bits that say how many more follow, and their number, as a sender of
\* ReadUBitVar and of ReadVarUBit writes them.
UBitVarForms == {<<{}, 0>>, <<{4}, 4>>, <<{5}, 8>>, <<{4, 5}, 28>>}

VarUBitForms == {<<{}, 0>>, <<{5}, 2>>, <<{6}, 4>>, <<{5, 6}, 7>>}

\* The integer v with its m low bits in front, in one of the forms.
FormField(b, f, v, m, forms) ==
    \E form \in forms :
        LET n == form[2]
        IN  /\ v \in SUBSET (0 .. m + n - 1)
            /\ f.bits = m + 2 + n
            /\ HoldsTwo(b.ones, f.at, m + 2, n, Part(v, 0, m) \cup form[1],
                        Part(v, m, n))

UBitVarField(b, f, x) ==
    x.call.op = "ReadUBitVar" /\ FormField(b, f, x.value, 4, UBitVarForms)

VarUBitField(b, f, x) ==
    x.call.op = "ReadVarUBit" /\ FormField(b, f, x.value, 5, VarUBitForms)

\* Each of the four forms of ReadUBitVar gives back the integer.
LEMMA UBitVarSent ==
    ASSUME MaxReads > 2, NEW b, NEW f, NEW x, FieldFits(b, f),
           UBitVarField(b, f, x)
    PROVE  \E k \in 0 .. MaxReads - 1 : SentIn(b, f, x, k)
<1> DEFINE v == x.value
<1>1. PICK form \in UBitVarForms :
        /\ v \in SUBSET (0 .. 4 + form[2] - 1)
        /\ f.bits = 4 + 2 + form[2]
        /\ HoldsTwo(b.ones, f.at, 4 + 2, form[2], Part(v, 0, 4) \cup form[1],
                    Part(v, 4, form[2]))
  BY Zenon DEF UBitVarField, FormField
<1> DEFINE n == form[2]
           sel == form[1]
           g == Part(v, 0, 4) \cup sel
           h == Part(v, 4, n)
<1>2. /\ n \in 0 .. 28 /\ (n > 0 <=> sel # {})
      /\ sel \in SUBSET {4, 5} /\ UBitVarMore(sel) = n
  <2>1. CASE sel = {} /\ n = 0
    BY <2>1 DEF UBitVarMore
  <2>2. CASE sel = {4} /\ n = 4
    BY <2>2 DEF UBitVarMore
  <2>3. CASE sel = {5} /\ n = 8
    BY <2>3 DEF UBitVarMore
  <2>4. CASE sel = {4, 5} /\ n = 28
    BY <2>4 DEF UBitVarMore
  <2>. QED  BY <1>1, <2>1, <2>2, <2>3, <2>4 DEF UBitVarForms
<1>3. /\ \A j : j \in g <=> (j \in 0 .. 3 /\ j \in v) \/ j \in sel
      /\ \A j : j \in h <=> j \in 0 .. n - 1 /\ j + 4 \in v
      /\ v \in SUBSET (0 .. 3 + n)
  BY <1>1, <1>2 DEF Part
<1> HIDE DEF n, sel, g, h
<1>4. g \cap {4, 5} = sel /\ g \cap 0 .. 3 = v \cap 0 .. 3
  <2>1. \A j \in {4, 5} : j \notin 0 .. 3
    OBVIOUS
  <2>2. \A j \in sel : j \in {4, 5} /\ j \notin 0 .. 3
    BY <1>2, <2>1, Zenon
  <2>3. \A j : j \in g /\ j \in {4, 5} <=> j \in sel
    BY <1>3, <2>1, <2>2, Zenon
  <2>4. \A j : j \in g /\ j \in 0 .. 3 <=> j \in v /\ j \in 0 .. 3
    BY <1>3, <2>2, Zenon
  <2> HIDE DEF v
  <2>5. g \cap {4, 5} = sel
    BY <2>3
  <2>6. g \cap 0 .. 3 = v \cap 0 .. 3
    BY <2>4
  <2>. QED  BY <2>5, <2>6
<1>5. /\ \A t : ReadsOf(x.call, t) = UBitVarReads(t)
      /\ \A t : ValueOf(x.call, t, FALSE) = ReadUBitVar(t)
  BY DEF UBitVarField, ReadsOf, ValueOf
<1>6. MakesTwo(x.call, 6, n, g, h)
  <2>1. U(6) \in ReadOps /\ n \in 0 .. 32 /\ 0 \in 0 .. 32 /\ ~(0 > 0)
    BY <1>2, ReadSeqs
  <2>2. UBitVarReads(<< >>) = TwoReads(U(6), 0)
    BY Zenon DEF UBitVarReads, TwoReads
  <2>3. ASSUME NEW t, t # << >>, t[1] = g
        PROVE  UBitVarReads(t) = TwoReads(U(6), n)
    BY <1>2, <1>4, <2>3, Zenon DEF UBitVarReads, TwoReads
  <2>4. /\ <<g>> # << >> /\ <<g>>[1] = g
        /\ <<g, h>> # << >> /\ <<g, h>>[1] = g
    OBVIOUS
  <2>5. UBitVarReads(<<g>>) = TwoReads(U(6), n)
    BY <2>3, <2>4, Zenon
  <2>6. UBitVarReads(<<g, h>>) = TwoReads(U(6), n)
    BY <2>3, <2>4, Zenon
  <2>7. Len(UBitVarReads(<< >>)) = 1 /\ UBitVarReads(<< >>)[1] = U(6)
    <3>1. Len(TwoReads(U(6), 0)) = 1 /\ TwoReads(U(6), 0)[1] = U(6)
      <4>1. /\ Len(TwoReads(U(6), 0)) = IF 0 > 0 THEN 2 ELSE 1
            /\ TwoReads(U(6), 0)[1] = U(6)
        BY <2>1, PlanOfTwo, Zenon
      <4>. QED  BY <2>1, <4>1, Zenon
    <3>. QED  BY <2>2, <3>1, Zenon
  <2>8. /\ Len(UBitVarReads(<<g>>)) = (IF n > 0 THEN 2 ELSE 1)
        /\ n > 0 => UBitVarReads(<<g>>)[2] = U(n)
        /\ n > 0 => Len(UBitVarReads(<<g, h>>)) = 2
    BY <2>1, <2>5, <2>6, PlanOfTwo, ZenonT(60)
  <2>. QED  BY <1>5, <2>7, <2>8, Zenon DEF MakesTwo
<1>7. GivesTwo(x.call, n, g, h) = v
  <2>1. CASE n > 0
    <3>1. ReadUBitVar(<<g, h>>) = (g \cap 0 .. 3) \cup Shl(h, 4, 32)
      BY DEF ReadUBitVar
    <3>2. \A j : j \in Shl(h, 4, 32) <=> j \in v /\ j \notin 0 .. 3
      BY <1>2, <1>3 DEF Shl
    <3>3. (v \cap 0 .. 3) \cup Shl(h, 4, 32) = v
      BY <3>2, Zenon
    <3>. QED  BY <1>4, <1>5, <2>1, <3>1, <3>3 DEF GivesTwo
  <2>2. CASE ~(n > 0)
    <3>1. ReadUBitVar(<<g>>) = g
      BY DEF ReadUBitVar
    <3>2. sel = {} /\ v \in SUBSET (0 .. 3)
      BY <1>2, <1>3, <2>2
    <3>3. g = v
      BY <1>3, <3>2, Zenon
    <3>. QED  BY <1>5, <2>2, <3>1, <3>3 DEF GivesTwo
  <2>. QED  BY <2>1, <2>2
<1>8. /\ HoldsTwo(b.ones, f.at, 6, n, g, h) /\ f.bits = 6 + n
      /\ 6 \in 1 .. 32 /\ n \in 0 .. 32
  <2>1. 4 + 2 = 6
    OBVIOUS
  <2>. QED  BY <1>1, <1>2, <2>1 DEF n, g, h, sel
<1> HIDE DEF v
<1>. QED  BY <1>6, <1>7, <1>8, TwoPartsSent DEF v

\* Each of the four forms of ReadVarUBit gives back the integer.
LEMMA VarUBitSent ==
    ASSUME MaxReads > 2, NEW b, NEW f, NEW x, FieldFits(b, f),
           VarUBitField(b, f, x)
    PROVE  \E k \in 0 .. MaxReads - 1 : SentIn(b, f, x, k)
<1> DEFINE v == x.value
<1>1. PICK form \in VarUBitForms :
        /\ v \in SUBSET (0 .. 5 + form[2] - 1)
        /\ f.bits = 5 + 2 + form[2]
        /\ HoldsTwo(b.ones, f.at, 5 + 2, form[2], Part(v, 0, 5) \cup form[1],
                    Part(v, 5, form[2]))
  BY Zenon DEF VarUBitField, FormField
<1> DEFINE n == form[2]
           sel == form[1]
           g == Part(v, 0, 5) \cup sel
           h == Part(v, 5, n)
<1>2. /\ n \in 0 .. 7 /\ (n > 0 <=> sel # {})
      /\ sel \in SUBSET {5, 6} /\ VarUBitMore(sel) = n
  <2>1. CASE sel = {} /\ n = 0
    BY <2>1 DEF VarUBitMore
  <2>2. CASE sel = {5} /\ n = 2
    BY <2>2 DEF VarUBitMore
  <2>3. CASE sel = {6} /\ n = 4
    BY <2>3 DEF VarUBitMore
  <2>4. CASE sel = {5, 6} /\ n = 7
    BY <2>4 DEF VarUBitMore
  <2>. QED  BY <1>1, <2>1, <2>2, <2>3, <2>4 DEF VarUBitForms
<1>3. /\ \A j : j \in g <=> (j \in 0 .. 4 /\ j \in v) \/ j \in sel
      /\ \A j : j \in h <=> j \in 0 .. n - 1 /\ j + 5 \in v
      /\ v \in SUBSET (0 .. 4 + n)
  BY <1>1, <1>2 DEF Part
<1> HIDE DEF n, sel, g, h
<1>4. g \cap {5, 6} = sel /\ g \ {5, 6} = v \cap 0 .. 4
  <2>1. \A j \in {5, 6} : j \notin 0 .. 4
    OBVIOUS
  <2>2. \A j \in sel : j \in {5, 6} /\ j \notin 0 .. 4
    BY <1>2, <2>1, Zenon
  <2>3. \A j : j \in g /\ j \in {5, 6} <=> j \in sel
    BY <1>3, <2>1, <2>2, Zenon
  <2>4. \A j : j \in g /\ j \notin {5, 6} <=> j \in v /\ j \in 0 .. 4
    BY <1>3, <2>1, <2>2, Zenon
  <2> HIDE DEF v
  <2>5. g \cap {5, 6} = sel
    BY <2>3
  <2>6. g \ {5, 6} = v \cap 0 .. 4
    BY <2>4
  <2>. QED  BY <2>5, <2>6
<1>5. /\ \A t : ReadsOf(x.call, t) = VarUBitReads(t)
      /\ \A t : ValueOf(x.call, t, FALSE) = ReadVarUBit(t)
  BY DEF VarUBitField, ReadsOf, ValueOf
<1>6. MakesTwo(x.call, 7, n, g, h)
  <2>1. U(7) \in ReadOps /\ n \in 0 .. 32 /\ 0 \in 0 .. 32 /\ ~(0 > 0)
    BY <1>2, ReadSeqs
  <2>2. VarUBitReads(<< >>) = TwoReads(U(7), 0)
    BY Zenon DEF VarUBitReads, TwoReads
  <2>3. ASSUME NEW t, t # << >>, t[1] = g
        PROVE  VarUBitReads(t) = TwoReads(U(7), n)
    BY <1>2, <1>4, <2>3, Zenon DEF VarUBitReads, TwoReads
  <2>4. /\ <<g>> # << >> /\ <<g>>[1] = g
        /\ <<g, h>> # << >> /\ <<g, h>>[1] = g
    OBVIOUS
  <2>5. VarUBitReads(<<g>>) = TwoReads(U(7), n)
    BY <2>3, <2>4, Zenon
  <2>6. VarUBitReads(<<g, h>>) = TwoReads(U(7), n)
    BY <2>3, <2>4, Zenon
  <2>7. Len(VarUBitReads(<< >>)) = 1 /\ VarUBitReads(<< >>)[1] = U(7)
    <3>1. Len(TwoReads(U(7), 0)) = 1 /\ TwoReads(U(7), 0)[1] = U(7)
      <4>1. /\ Len(TwoReads(U(7), 0)) = IF 0 > 0 THEN 2 ELSE 1
            /\ TwoReads(U(7), 0)[1] = U(7)
        BY <2>1, PlanOfTwo, Zenon
      <4>. QED  BY <2>1, <4>1, Zenon
    <3>. QED  BY <2>2, <3>1, Zenon
  <2>8. /\ Len(VarUBitReads(<<g>>)) = (IF n > 0 THEN 2 ELSE 1)
        /\ n > 0 => VarUBitReads(<<g>>)[2] = U(n)
        /\ n > 0 => Len(VarUBitReads(<<g, h>>)) = 2
    BY <2>1, <2>5, <2>6, PlanOfTwo, ZenonT(60)
  <2>. QED  BY <1>5, <2>7, <2>8, Zenon DEF MakesTwo
<1>7. GivesTwo(x.call, n, g, h) = v
  <2>1. CASE n > 0
    <3>1. ReadVarUBit(<<g, h>>) = (g \ {5, 6}) \cup Shl(h, 5, 32)
      BY DEF ReadVarUBit
    <3>2. \A j : j \in Shl(h, 5, 32) <=> j \in v /\ j \notin 0 .. 4
      BY <1>2, <1>3 DEF Shl
    <3>3. (v \cap 0 .. 4) \cup Shl(h, 5, 32) = v
      BY <3>2, Zenon
    <3>. QED  BY <1>4, <1>5, <2>1, <3>1, <3>3 DEF GivesTwo
  <2>2. CASE ~(n > 0)
    <3>1. ReadVarUBit(<<g>>) = g
      BY DEF ReadVarUBit
    <3>2. sel = {} /\ v \in SUBSET (0 .. 4)
      BY <1>2, <1>3, <2>2
    <3>3. g = v
      BY <1>3, <3>2, Zenon
    <3>. QED  BY <1>5, <2>2, <3>1, <3>3 DEF GivesTwo
  <2>. QED  BY <2>1, <2>2
<1>8. /\ HoldsTwo(b.ones, f.at, 7, n, g, h) /\ f.bits = 7 + n
      /\ 7 \in 1 .. 32 /\ n \in 0 .. 32
  <2>1. 5 + 2 = 7
    OBVIOUS
  <2>. QED  BY <1>1, <1>2, <2>1 DEF n, g, h, sel
<1> HIDE DEF v
<1>. QED  BY <1>6, <1>7, <1>8, TwoPartsSent DEF v

\* A call that makes the read r of m bits, and returns what it gets.
LEMMA OneReadSent ==
    ASSUME MaxReads > 2, NEW b, NEW f, NEW x, NEW m \in 1 .. 32, NEW r,
           FieldFits(b, f), f.bits = m, r.bits = m,
           \A t : ReadsOf(x.call, t) = <<r>>,
           PlainVal(b.ones, f.at, r) = x.value,
           ValueOf(x.call, <<x.value>>, FALSE) = x.value
    PROVE  \E k \in 0 .. MaxReads - 1 : SentIn(b, f, x, k)
<1> DEFINE g == x.value
<1>1. ReadsOf(x.call, << >>) = <<r>> /\ ReadsOf(x.call, <<g>>) = <<r>>
  BY Zenon
<1>2. <<r>>[1] = r /\ Len(<<r>>) = 1 /\ Len(<<g>>) = 1 /\ Len(<< >>) = 0
  OBVIOUS
<1>3. RunIs(x.call, b.ones, f.at, 1, <<g>>, f.at + m)
  <2>1. PlainRun(x.call, b.ones, f.at)[1]
          = [got |-> <<g>>, at |-> f.at + r.bits]
    BY <1>1, <1>2, RunOne
  <2>. QED  BY <2>1, ShortSeqs DEF RunIs
<1>4. 1 > 0 /\ ~(1 > 1)
  OBVIOUS
<1>5. GoesOn(x.call, << >>) /\ ~GoesOn(x.call, <<g>>)
  BY <1>1, <1>2, <1>4, Zenon DEF GoesOn
<1>6. m \in Nat /\ 1 \in 0 .. MaxReads - 1
  BY BitFieldsAssumption
<1>7. SentIn(b, f, x, 1)
  BY <1>3, <1>5, <1>6, SentInOne
<1>. QED  BY <1>6, <1>7

\* The integer v of n bits, as it is and with its sign, and the calls that
\* read it.
PlainSizes == {8, 16, 32}

UnsignedRead(n) ==
    CASE n = 8 -> "ReadByte" [] n = 16 -> "ReadWord" [] n = 32 -> "ReadBitFloat"

SignedRead(n) == IF n = 8 THEN "ReadChar" ELSE "ReadShort"

PlainField(b, f, x) ==
    \E n \in PlainSizes : \E v \in SUBSET (0 .. n - 1) :
        /\ f.bits = n
        /\ Holds(b.ones, f.at, v, n)
        /\ \/ x.call.op = UnsignedRead(n) /\ x.value = v
           \/ /\ n < 32
              /\ x.call.op = SignedRead(n) /\ x.value = WithSign(v, n)

\* The integer v of n bits at bit p.
PlainAt(ones, p, v, n) ==
    p \in Nat /\ v \in SUBSET (0 .. n - 1) /\ Holds(ones, p, v, n)

\* What the reads of these sizes get.
LEMMA PlainHeld ==
    ASSUME NEW ones, NEW p, NEW n, NEW v, n \in PlainSizes,
           PlainAt(ones, p, v, n)
    PROVE  PlainVal(ones, p, U(n)) = v /\ PlainVal(ones, p, S(n)) = WithSign(v, n)
<1>1. n \in 1 .. 32 /\ p \in Nat
  BY DEF PlainSizes, PlainAt
<1>2. v \in SUBSET (0 .. n - 1) /\ Holds(ones, p, v, n)
  BY Zenon DEF PlainAt
<1>. QED  BY <1>1, <1>2, HeldVal

\* Integers of a fixed size come back, with their sign if it is read.
LEMMA PlainSent ==
    ASSUME MaxReads > 2, NEW b, NEW f, NEW x, FieldFits(b, f),
           PlainField(b, f, x)
    PROVE  \E k \in 0 .. MaxReads - 1 : SentIn(b, f, x, k)
<1>1. PICK n \in PlainSizes : \E v \in SUBSET (0 .. n - 1) :
        /\ f.bits = n
        /\ Holds(b.ones, f.at, v, n)
        /\ \/ x.call.op = UnsignedRead(n) /\ x.value = v
           \/ /\ n < 32
              /\ x.call.op = SignedRead(n) /\ x.value = WithSign(v, n)
  BY Zenon DEF PlainField
<1>2. PICK v \in SUBSET (0 .. n - 1) :
        /\ f.bits = n
        /\ Holds(b.ones, f.at, v, n)
        /\ \/ x.call.op = UnsignedRead(n) /\ x.value = v
           \/ /\ n < 32
              /\ x.call.op = SignedRead(n) /\ x.value = WithSign(v, n)
  BY <1>1, Zenon
<1>3. n \in 1 .. 32 /\ f.at \in Nat
  BY DEF FieldFits, PlainSizes
<1>4. /\ PlainVal(b.ones, f.at, U(n)) = v
      /\ PlainVal(b.ones, f.at, S(n)) = WithSign(v, n)
  <2>1. f.at \in Nat
    BY <1>3
  <2>2. PlainAt(b.ones, f.at, v, n)
    BY <1>2, <2>1, Zenon DEF PlainAt
  <2>. QED  BY <2>2, PlainHeld, ZenonT(60)
<1>5. U(n).bits = n /\ S(n).bits = n
  BY DEF U, S
<1>6. \A g : <<g>>[1] = g
  OBVIOUS
<1>7. CASE x.call.op = UnsignedRead(n) /\ x.value = v
  <2>1. x.call.op \in {"ReadByte", "ReadWord", "ReadBitFloat"}
    BY <1>7 DEF UnsignedRead, PlainSizes
  <2>2. \A t : ReadsOf(x.call, t) = <<U(n)>>
    BY <1>7 DEF UnsignedRead, PlainSizes, ReadsOf
  <2>3. ValueOf(x.call, <<x.value>>, FALSE) = x.value
    BY <1>6, <2>1 DEF ValueOf
  <2>. QED  BY <1>2, <1>3, <1>4, <1>5, <1>7, <2>2, <2>3, OneReadSent
<1>8. CASE /\ n < 32
           /\ x.call.op = SignedRead(n) /\ x.value = WithSign(v, n)
  <2>1. x.call.op \in {"ReadChar", "ReadShort"}
    BY <1>8 DEF SignedRead
  <2>2. \A t : ReadsOf(x.call, t) = <<S(n)>>
    BY <1>8 DEF SignedRead, PlainSizes, ReadsOf
  <2>3. ValueOf(x.call, <<x.value>>, FALSE) = x.value
    BY <1>6, <2>1 DEF ValueOf
  <2>. QED  BY <1>2, <1>3, <1>4, <1>5, <1>8, <2>2, <2>3, OneReadSent
<1>. QED  BY <1>2, <1>7, <1>8

\* The field holds an integer, in the form in which the call of x reads it.
IntegerField(b, f, x) ==
    \/ VarIntField(b, f, x)
    \/ UBitVarField(b, f, x)
    \/ VarUBitField(b, f, x)
    \/ PlainField(b, f, x)

\* Integers come back, whatever their value and wherever they lie: of 8, 16
\* and 32 bits with and without sign, in both forms of selected size, and as
\* varints and zigzag varints of 32 and 64 bits.  This is SentIsRead for all
\* buffers whose fields hold integers.
THEOREM IntegersAreRead ==
    ASSUME MaxReads > kMaxVarintBytes,
           \A b \in Buffers : \A f \in b.fields :
               FieldFits(b, f) /\ \A x \in f.reads : IntegerField(b, f, x)
    PROVE  FieldSpec => []SentIsRead
<1>1. MaxReads > 2
  BY BitFieldsAssumption DEF kMaxVarintBytes
<1>2. AllSent
  BY <1>1, VarIntSent, UBitVarSent, VarUBitSent, PlainSent, Zenon
  DEF AllSent, IntegerField
<1>. QED  BY <1>2, FieldsSentIsRead
============================================================================
