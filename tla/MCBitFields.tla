---------------------------- MODULE MCBitFields ----------------------------
(***************************************************************************)
(* Instances of BitFields for TLC.                                         *)
(***************************************************************************)
EXTENDS BitFields, FieldLayouts

\* Each form of each field, at the ends of what it can hold: one behind the
\* other, so that they start at all kinds of bits, cross dwords, and end with
\* the buffer, which has all kinds of heads.
SentBuffers ==
    {Written(<<SentVarUBit({0, 4}), SentVarUBit({5, 6}), SentVarUBit({8, 2}),
               SentVarUBit({11, 9, 0})>>, 3),
     Written(<<SentUBitVar({3}), SentUBitVar({4, 7}), SentUBitVar({11, 0}),
               SentUBitVar({31, 12, 1})>>, 6),
     Written(<<SentVarInt(32, {}), SentVarInt(32, {7}),
               SentVarInt(32, 0 .. 31)>>, 5),
     Written(<<SentSignedVarInt(32, 0 .. 31, {0}),
               SentSignedVarInt(32, {31}, 0 .. 31)>>, 0),
     Written(<<SentVarInt(64, 0 .. 63)>>, 1),
     Written(<<SentSignedVarInt(64, 1 .. 63, {0, 1}),
               SentSignedVarInt(64, {40}, {41})>>, 7),
     Written(<<SentByte({7, 0}), SentWord({15, 8}), SentByte({6})>>, 2),
     Written(<<SentString(<<{6}, {7, 1, 3}>>, {}, FALSE, {1, 2, 3, 4}),
               SentString(<<{6, 5}>>, NewLine, TRUE, {1, 2, 3})>>, 5),
     Written(<<SentBits({0, 7, 8, 30, 31, 33, 40}, 43)>>, 4),
     Written(<<SentBits({0, 15, 16, 23, 55}, 56)>>, 0),
     Written(<<SentCoord(0), SentCoord(-5), SentCoord(32),
               SentCoord(32 * 2 ^ 14 + 31)>>, 0),
     Written(<<SentCoordMP("kCW_None", 5, -3),
               SentCoordMP("kCW_None", 5, 32 * 2047 + 31),
               SentCoordMP("kCW_Integral", 0, 0)>>, 0),
     Written(<<SentCoordMP("kCW_Integral", 0, -32 * 2048),
               SentCoordMP("kCW_LowPrecision", 3, 32 * 2 ^ 14 + 4)>>, 3),
     Written(<<SentCellCoord(7, "kCW_Integral", 0, 32 * 65),
               SentCellCoord(7, "kCW_LowPrecision", 3, 32 * 127 + 28),
               SentCellCoord(7, "kCW_None", 5, 31)>>, 1),
     Written(<<SentCellCoord(32, "kCW_None", 5, 7 - 32)>>, 4),
     Written(<<SentVec3Coord(0, 0, -32), SentVec3Coord(33, 7, 32 * 9)>>, 0),
     Written(<<SentVec3Coord(-32 * 100 - 1, 0, 5)>>, 2),
     Written(<<SentNormal(-2047), SentVec3Normal(0, -1000, TRUE),
               SentVec3Normal(1, 0, FALSE), SentVec3Normal(5, 6, TRUE)>>, 0),
     Written(<<SentAngle(8, {7, 1}), SentAngle(1, {0})>>, 0),
     Written(<<SentFloat({31, 23, 0})>>, 5)}

AllCalls == UNION {b.calls : b \in SentBuffers}

\* With one size of pStr and one alignment, and those that are not like
\* another or a single read.
ShortCalls ==
    {c \in AllCalls : /\ c.op = "ReadString" => c.arg.maxLen = 3
                      /\ c.op = "ReadBits" => c.arg.align = 3}

LongCalls ==
    {c \in ShortCalls :
       c.op \in {"ReadVarUBit", "ReadUBitVar", "ReadVarInt32", "ReadVarInt64",
                 "ReadString", "ReadBits", "ReadBitCoord", "ReadBitCoordMP",
                 "ReadBitCellCoord", "ReadBitVec3Coord", "ReadBitVec3Normal"}}

\* With buffers in which no varint, string or vector ends: all fields are cut
\* short by the end of a short one, and the longest fit the long one.
MCBuffers ==
    SentBuffers
      \cup {NoEnd(3, ShortCalls), NoEnd(5, LongCalls),
            NoEnd(12, {c \in LongCalls :
                         c.op \in {"ReadVarInt64", "ReadBitVec3Coord"}})}

MCSizes == {b.bytes : b \in MCBuffers}

MCWidths == 1 .. 32

\* Where the first fields of the buffers start, and places inside, at the end of
\* and behind the smaller ones.  The other fields are reached by reading.
MCPositions == 0 .. 7 \cup {20, 24, 42}

MCOffsets == {}
============================================================================
