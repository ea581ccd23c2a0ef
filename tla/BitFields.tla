----------------------------- MODULE BitFields -----------------------------
(***************************************************************************)
(* The decoders of CBitRead that are made of several reads: variable size  *)
(* integers, strings, raw bits, coordinates, normals and angles            *)
(* (packetbitbuf.cpp, packetbitbuf.h).                                     *)
(*                                                                         *)
(* A decoder keeps no state but its locals, which are functions of the     *)
(* values it has read.  So each is given by two operators of the sequence  *)
(* g of these values: the reads it is known to make by then (the next one  *)
(* is number Len(g) + 1, and it returns when there is none), and what it   *)
(* returns.  Every read is the action of the bit reader below.             *)
(*                                                                         *)
(* An integer is the set of the numbers of its one bits.  Coordinates are  *)
(* numbers of COORD_RESOLUTION (1/32), normals of NORMAL_RESOLUTION.       *)
(***************************************************************************)
EXTENDS BitRead, Sequences, FiniteSetsExt

CONSTANTS
    Buffers,    \* [bytes, ones: the one bits, fields: what a sender put in it,
                \*  calls: the decoders a client calls, and their arguments]
    MaxReads    \* bound on the values of one call that are kept apart

\* The decoders without an argument, and the arguments of the others.
Plain ==
    {"ReadVarUBit", "ReadUBitVar", "ReadChar", "ReadByte", "ReadShort",
     "ReadWord", "ReadVarInt32", "ReadVarInt64", "ReadSignedVarInt32",
     "ReadSignedVarInt64", "ReadBitFloat", "ReadBitCoord",
     "ReadBitVec3Coord", "ReadBitAngles", "ReadBitNormal",
     "ReadBitVec3Normal"}

EBitCoordType == {"kCW_None", "kCW_LowPrecision", "kCW_Integral"}

CallOK(c) ==
    \/ c.op \in Plain
    \/ /\ c.op = "ReadString"
       /\ c.arg.maxLen \in Nat \ {0} /\ c.arg.bLine \in BOOLEAN
    \/ /\ c.op = "ReadBits"
       /\ c.arg.nBits \in Nat /\ c.arg.align \in 0 .. 3
    \/ /\ c.op = "ReadBytes"
       /\ c.arg.nBytes \in Nat /\ c.arg.align \in 0 .. 3
    \/ c.op = "ReadBitAngle" /\ c.arg.numbits \in 1 .. 32
    \/ c.op = "ReadBitCoordMP" /\ c.arg.coordType \in EBitCoordType
    \/ /\ c.op = "ReadBitCellCoord"
       /\ c.arg.bits \in 1 .. 32 /\ c.arg.coordType \in EBitCoordType

ASSUME BitFieldsAssumption ==
    /\ \A b \in Buffers :
          /\ b.bytes \in Sizes
          /\ b.ones \subseteq Nat
          /\ \A c \in b.calls : CallOK(c)
    /\ Widths = 1 .. 32
    /\ MaxReads \in Nat \ {0}

VARIABLES
    buffer,     \* the buffer that is open
    field       \* the call of a decoder, or NoField

fieldVars == <<vars, buffer, field>>

----------------------------------------------------------------------------
(* Reads, and sequences of reads *)

U(n) == [op |-> "ReadUBitLong", bits |-> n]

S(n) == [op |-> "ReadSBitLong", bits |-> n]

B == [op |-> "ReadOneBit", bits |-> 1]

Times(n, r) == [i \in 1 .. n |-> r]

When(c, rs) == IF c THEN rs ELSE << >>

\* The loop that reads r until the last value says stop.
Until(stop(_), r, g) ==
    Times(IF g # << >> /\ stop(g[Len(g)]) THEN Len(g) ELSE Len(g) + 1, r)

\* The k-th value has been read and is not zero.
Flag(g, k) == Len(g) >= k /\ g[k] # {}

Behind(g, k) == SubSeq(g, k + 1, Len(g))

----------------------------------------------------------------------------
(* Integers of w bits *)

Shl(v, k, w) == {j \in 0 .. w - 1 : j - k \in v}

Num(v) == MapThenSumSet(LAMBDA j : 2 ^ j, v)

\* A word read into an int.
AsInt(v) == IF 31 \in v THEN (Num(v \ {31}) - 2 ^ 30) - 2 ^ 30 ELSE Num(v)

Signed(negative, n) == IF negative THEN -n ELSE n

ZigZagEncode(v, w) ==
    IF w - 1 \in v THEN (0 .. w - 1) \ Shl(v, 1, w) ELSE Shl(v, 1, w)

ZigZagDecode(v, w) ==
    IF 0 \in v THEN (0 .. w - 1) \ Shl(v, -1, w) ELSE Shl(v, -1, w)

----------------------------------------------------------------------------
(* Integers of variable size *)

VarUBitMore(selector) ==
    CASE selector = {5} -> 2
      [] selector = {6} -> 4
      [] selector = {5, 6} -> 7
      [] OTHER -> 0

VarUBitReads(g) ==
    LET n == IF g = << >> THEN 0 ELSE VarUBitMore(g[1] \cap {5, 6})
    IN  <<U(7)>> \o When(n > 0, <<U(n)>>)

ReadVarUBit(g) ==
    IF Len(g) = 1 THEN g[1] ELSE (g[1] \ {5, 6}) \cup Shl(g[2], 5, 32)

UBitVarMore(selector) ==
    CASE selector = {4} -> 4
      [] selector = {5} -> 8
      [] selector = {4, 5} -> 32 - 4
      [] OTHER -> 0

UBitVarReads(g) ==
    LET n == IF g = << >> THEN 0 ELSE UBitVarMore(g[1] \cap {4, 5})
    IN  <<U(6)>> \o When(n > 0, <<U(n)>>)

ReadUBitVar(g) ==
    IF Len(g) = 1 THEN g[1] ELSE (g[1] \cap 0 .. 3) \cup Shl(g[2], 4, 32)

kMaxVarint32Bytes == 5

kMaxVarintBytes == 10

\* The loop of ReadVarInt32 and ReadVarInt64.
VarIntReads(maxBytes, g) ==
    Until(LAMBDA b : 7 \notin b \/ Len(g) = maxBytes, U(8), g)

ReadVarInt(w, g) ==
    UNION {Shl(g[i] \ {7}, 7 * (i - 1), w) : i \in DOMAIN g}

----------------------------------------------------------------------------
(* Strings and raw bits *)

NewLine == {1, 3}

\* Fault: a line ends at its newline only.
StringEndsAtNewLine(bLine, val) == IF bLine THEN val = NewLine ELSE val = {}

StringEnds(bLine, val) == val = {} \/ (bLine /\ val = NewLine)

StringReads(bLine, g) == Until(LAMBDA val : StringEnds(bLine, val), S(8), g)

\* pStr without its terminator, and what is returned.
ReadString(maxLen, g, overflow) ==
    LET n == Len(g) - 1
    IN  [pStr |-> [i \in 1 .. MIN(n, maxLen - 1) |-> g[i] \cap 0 .. 7],
         ok |-> ~overflow /\ n <= maxLen - 1]

\* Bytes up to the next dword of pOut, which is align bytes behind the last
\* one, then dwords, bytes and the bits that are left.
BitsReads(nBits, align) ==
    LET head == MIN((4 - align) % 4, nBits \div 8)
        left == nBits - 8 * head
    IN  Times(head, U(8)) \o Times(left \div 32, U(32))
          \o Times((left % 32) \div 8, U(8))
          \o When(left % 8 > 0, <<U(left % 8)>>)

\* What ReadBits leaves at pOut: each read is stored behind the ones before.
ReadBits(nBits, align, g) ==
    LET rs == BitsReads(nBits, align)
        before(i) == MapThenSumSet(LAMBDA k : rs[k].bits, 1 .. i - 1)
    IN  UNION {{before(i) + j : j \in g[i]} : i \in DOMAIN g}

----------------------------------------------------------------------------
(* Coordinates, normals and angles *)

COORD_INTEGER_BITS == 14

COORD_INTEGER_BITS_MP == 11

COORD_FRACTIONAL_BITS == 5

COORD_FRACTIONAL_BITS_MP_LOWPRECISION == 3

NORMAL_FRACTIONAL_BITS == 11

COORD_DENOMINATOR == 2 ^ COORD_FRACTIONAL_BITS

CoordReads(g) ==
    <<B, B>> \o When(Flag(g, 1) \/ Flag(g, 2),
                     <<B>> \o When(Flag(g, 1), <<U(COORD_INTEGER_BITS)>>)
                           \o When(Flag(g, 2), <<U(COORD_FRACTIONAL_BITS)>>))

ReadBitCoord(g) ==
    LET intval == IF Flag(g, 1) THEN Num(g[4]) + 1 ELSE 0
        fractval == IF Flag(g, 2)
                      THEN Num(g[IF Flag(g, 1) THEN 5 ELSE 4]) ELSE 0
    IN  Signed(Flag(g, 3), intval * COORD_DENOMINATOR + fractval)

\* The bits of a fraction, and what one of its units is.
FractBits(coordType) ==
    IF coordType = "kCW_LowPrecision"
      THEN COORD_FRACTIONAL_BITS_MP_LOWPRECISION ELSE COORD_FRACTIONAL_BITS

Fract(coordType, v) ==
    Num(v) * 2 ^ (COORD_FRACTIONAL_BITS - FractBits(coordType))

\* Fault: the integer has the same bits out of bounds.
CoordMPReadsInBounds(coordType, g) ==
    LET int == When(Flag(g, 2), <<U(COORD_INTEGER_BITS_MP)>>)
    IN  IF coordType = "kCW_Integral"
          THEN <<B, B>> \o When(Flag(g, 2), <<B>> \o int)
          ELSE <<B, B, B>> \o int \o <<U(FractBits(coordType))>>

CoordMPReads(coordType, g) ==
    LET int == When(Flag(g, 2),
                    <<U(IF Flag(g, 1) THEN COORD_INTEGER_BITS_MP
                                      ELSE COORD_INTEGER_BITS)>>)
    IN  IF coordType = "kCW_Integral"
          THEN <<B, B>> \o When(Flag(g, 2), <<B>> \o int)
          ELSE <<B, B, B>> \o int \o <<U(FractBits(coordType))>>

ReadBitCoordMP(coordType, g) ==
    LET intval == IF Flag(g, 2) THEN Num(g[4]) + 1 ELSE 0
        fractval == IF coordType = "kCW_Integral"
                      THEN 0 ELSE Fract(coordType, g[Len(g)])
    IN  Signed(Flag(g, 3), intval * COORD_DENOMINATOR + fractval)

CellCoordReads(bits, coordType) ==
    <<U(bits)>> \o When(coordType # "kCW_Integral",
                        <<U(FractBits(coordType))>>)

\* With a fraction the word of bits goes through an int, without it does not.
ReadBitCellCoord(coordType, g) ==
    IF coordType = "kCW_Integral"
      THEN Num(g[1]) * COORD_DENOMINATOR
      ELSE AsInt(g[1]) * COORD_DENOMINATOR + Fract(coordType, g[2])

\* The values read for the flags x, y and z, and from each coordinate on.
Vec3Parts(g) ==
    LET x == Behind(g, 3)
        y == Behind(x, Len(When(Flag(g, 1), CoordReads(x))))
    IN  <<x, y, Behind(y, Len(When(Flag(g, 2), CoordReads(y))))>>

Vec3CoordReads(g) ==
    LET c(k) == When(Flag(g, k), CoordReads(Vec3Parts(g)[k]))
    IN  <<B, B, B>> \o c(1) \o c(2) \o c(3)

ReadBitVec3Coord(g) ==
    [k \in 1 .. 3 |->
       IF Flag(g, k) THEN ReadBitCoord(Vec3Parts(g)[k]) ELSE 0]

NormalReads == <<B, U(NORMAL_FRACTIONAL_BITS)>>

ReadBitNormal(g) == Signed(Flag(g, 1), Num(g[2]))

Vec3NormalReads(g) ==
    <<B, B>> \o When(Flag(g, 1), NormalReads)
             \o When(Flag(g, 2), NormalReads) \o <<B>>

\* x and y, and whether z is negative.  Its size follows from theirs.
ReadBitVec3Normal(g) ==
    <<IF Flag(g, 1) THEN ReadBitNormal(Behind(g, 2)) ELSE 0,
      IF Flag(g, 2)
        THEN ReadBitNormal(Behind(g, IF Flag(g, 1) THEN 4 ELSE 2)) ELSE 0,
      Flag(g, Len(g))>>

\* 1 << (bitNum & 31) in an int
GetBitForBitnum(bitNum) ==
    IF bitNum % 32 = 31 THEN -2 * 2 ^ 30 ELSE 2 ^ (bitNum % 32)

\* A part of a turn: numerator and denominator.
ReadBitAngle(numbits, g) == <<g[1], GetBitForBitnum(numbits)>>
----------------------------------------------------------------------------
(* All decoders.  ReadBytes is ReadBits, and ReadBitAngles the three         *)
(* coordinates of ReadBitVec3Coord.                                          *)

\* The reads that the call c is known to make once it has read g.
ReadsOf(c, g) ==
    CASE c.op = "ReadVarUBit" -> VarUBitReads(g)
      [] c.op = "ReadUBitVar" -> UBitVarReads(g)
      [] c.op = "ReadChar" -> <<S(8)>>
      [] c.op = "ReadByte" -> <<U(8)>>
      [] c.op = "ReadShort" -> <<S(16)>>
      [] c.op = "ReadWord" -> <<U(16)>>
      [] c.op \in {"ReadVarInt32", "ReadSignedVarInt32"} ->
            VarIntReads(kMaxVarint32Bytes, g)
      [] c.op \in {"ReadVarInt64", "ReadSignedVarInt64"} ->
            VarIntReads(kMaxVarintBytes, g)
      [] c.op = "ReadString" -> StringReads(c.arg.bLine, g)
      [] c.op = "ReadBits" -> BitsReads(c.arg.nBits, c.arg.align)
      [] c.op = "ReadBytes" -> BitsReads(8 * c.arg.nBytes, c.arg.align)
      [] c.op = "ReadBitAngle" -> <<U(c.arg.numbits)>>
      [] c.op = "ReadBitFloat" -> <<U(32)>>
      [] c.op = "ReadBitCoord" -> CoordReads(g)
      [] c.op = "ReadBitCoordMP" -> CoordMPReads(c.arg.coordType, g)
      [] c.op = "ReadBitCellCoord" ->
            CellCoordReads(c.arg.bits, c.arg.coordType)
      [] c.op \in {"ReadBitVec3Coord", "ReadBitAngles"} -> Vec3CoordReads(g)
      [] c.op = "ReadBitNormal" -> NormalReads
      [] c.op = "ReadBitVec3Normal" -> Vec3NormalReads(g)

\* What the call c returns once it has read g, all it reads, and left the
\* reader's flag as overflow.
ValueOf(c, g, overflow) ==
    CASE c.op = "ReadVarUBit" -> ReadVarUBit(g)
      [] c.op = "ReadUBitVar" -> ReadUBitVar(g)
      [] c.op \in {"ReadChar", "ReadByte", "ReadShort", "ReadWord",
                   "ReadBitFloat"} -> g[1]
      [] c.op = "ReadVarInt32" -> ReadVarInt(32, g)
      [] c.op = "ReadVarInt64" -> ReadVarInt(64, g)
      [] c.op = "ReadSignedVarInt32" -> ZigZagDecode(ReadVarInt(32, g), 32)
      [] c.op = "ReadSignedVarInt64" -> ZigZagDecode(ReadVarInt(64, g), 64)
      [] c.op = "ReadString" -> ReadString(c.arg.maxLen, g, overflow)
      [] c.op = "ReadBits" -> ReadBits(c.arg.nBits, c.arg.align, g)
      [] c.op = "ReadBytes" ->
            <<ReadBits(8 * c.arg.nBytes, c.arg.align, g), ~overflow>>
      [] c.op = "ReadBitAngle" -> ReadBitAngle(c.arg.numbits, g)
      [] c.op = "ReadBitCoord" -> ReadBitCoord(g)
      [] c.op = "ReadBitCoordMP" -> ReadBitCoordMP(c.arg.coordType, g)
      [] c.op = "ReadBitCellCoord" -> ReadBitCellCoord(c.arg.coordType, g)
      [] c.op \in {"ReadBitVec3Coord", "ReadBitAngles"} -> ReadBitVec3Coord(g)
      [] c.op = "ReadBitNormal" -> ReadBitNormal(g)
      [] c.op = "ReadBitVec3Normal" -> ReadBitVec3Normal(g)

----------------------------------------------------------------------------
(* Calls *)

NoField == [active |-> FALSE]

\* The value of a word that was read.
Val(w) == {j \in BitNrs : w[j] \in buffer.ones}

\* The reads of the call, and whether it has made them all.
Plan == ReadsOf(field.call, field.got)

Complete == Len(field.got) >= Len(Plan)

\* The values g and the next one, v: behind the bound, which is above the
\* reads of any decoder but ReadString, it takes the place of the last.
Kept(g, v) ==
    IF Len(g) < MaxReads THEN Append(g, v) ELSE [g EXCEPT ![Len(g)] = v]

\* A decoder is called.  at and used are history: where it started, and how
\* many bits it has asked for, up to one more than there are.
Decode(c) ==
    /\ ~field.active
    /\ rd.bitsAvail > 4 - MaxRun
    /\ field' = [active |-> TRUE, call |-> c, got |-> << >>,
                 at |-> GetNumBitsRead(rd), used |-> 0,
                 clean |-> ~rd.overflow]
    /\ UNCHANGED <<vars, buffer>>

\* Its next read.
ReadNext ==
    /\ field.active
    /\ ~Complete
    /\ LET r == Plan[Len(field.got) + 1]
       IN  /\ \/ r.op = "ReadUBitLong" /\ ReadUBitLong(r.bits)
              \/ r.op = "ReadSBitLong" /\ ReadSBitLong(r.bits)
              \/ r.op = "ReadOneBit" /\ ReadOneBit
           /\ field' = [field EXCEPT !.got = Kept(@, Val(call'.ret)),
                                     !.used = MIN(@ + r.bits,
                                                  DataBits(rd) + 1)]
    /\ UNCHANGED buffer

Return ==
    /\ field.active
    /\ Complete
    /\ field' = NoField
    /\ UNCHANGED <<vars, buffer>>

\* The client opens the buffer b, or goes to another place in its buffer.
Open(b) ==
    /\ ~field.active
    /\ StartReading(b.bytes)
    /\ buffer' = b
    /\ UNCHANGED field

GoTo(p) ==
    /\ ~field.active
    /\ Seek(p)
    /\ UNCHANGED <<buffer, field>>

FieldInit ==
    /\ Init
    /\ buffer \in {b \in Buffers : b.bytes = rd.dataBytes}
    /\ field = NoField

FieldNext ==
    \/ \E c \in buffer.calls : Decode(c)
    \/ ReadNext
    \/ Return
    \/ \E b \in Buffers : Open(b)
    \/ \E p \in Positions : GoTo(p)

\* A decoder that has been called runs until it returns.
FieldSpec ==
    FieldInit /\ [][FieldNext]_fieldVars /\ WF_fieldVars(ReadNext \/ Return)

----------------------------------------------------------------------------
(* Properties *)

\* A decoder that meets, in a reader without overflow, what its sender wrote
\* for it returns the value that was sent and stops behind it, wherever in
\* the buffer and across how many words the field lies.
SentIsRead ==
    field.active /\ Complete /\ field.clean =>
        \A f \in buffer.fields :
            f.at = field.at =>
                \A x \in f.reads :
                    x.call = field.call =>
                        /\ ValueOf(field.call, field.got, rd.overflow) = x.value
                        /\ GetNumBitsRead(rd) = f.at + f.bits
                        /\ ~rd.overflow

\* What a decoder asks for behind the end shows in the flag, and nothing else
\* does: the flag is set if and only if the bits it asked for do not fit, and
\* the reader is behind these bits or at the end.  Only at the end of a buffer
\* below a dword may single-bit reads go unnoticed.
FlagIsExact ==
    field.active /\ field.clean =>
        /\ GetNumBitsRead(rd) = MIN(field.at + field.used, DataBits(rd))
        /\ rd.overflow => field.at + field.used > DataBits(rd)
        /\ field.at + field.used > DataBits(rd) =>
              rd.overflow \/ (rd.dataBytes < 4 /\ field.at = DataBits(rd))

\* The value of the read r on a plain string of bits, at bit p.
PlainVal(ones, p, r) ==
    LET v == {j \in 0 .. r.bits - 1 : p + j \in ones}
    IN  v \cup (IF r.op = "ReadSBitLong" /\ r.bits - 1 \in v
                  THEN r.bits .. 31 ELSE {})

PlainNext(c, ones, p) ==
    LET r == ReadsOf(c, p.got)[Len(p.got) + 1]
    IN  [got |-> Append(p.got, PlainVal(ones, p.at, r)), at |-> p.at + r.bits]

\* The call c on a plain string of bits from bit a on: what it has got after
\* i reads, and where it is then.
PlainRun(c, ones, a) ==
    LET run[i \in 0 .. MaxReads] ==
            IF i = 0 THEN [got |-> << >>, at |-> a]
                     ELSE PlainNext(c, ones, run[i - 1])
    IN  run

\* As long as there are bits a decoder gets what it would get from a plain
\* string of bits: one value behind the other, no bit left out or read twice,
\* and every branch taken on such values, whatever words they are put together
\* from and however often the reader was moved before.
ReadsInPlace ==
    /\ field.active /\ field.clean
    /\ Len(field.got) < MaxReads
    /\ field.at + field.used <= DataBits(rd)
    => PlainRun(field.call, buffer.ones, field.at)[Len(field.got)]
         = [got |-> field.got, at |-> field.at + field.used]

\* Every decoder returns, ReadString also when the buffer holds no terminator:
\* behind the end it reads zeros.
CallReturns == field.active ~> ~field.active
=============================================================================
