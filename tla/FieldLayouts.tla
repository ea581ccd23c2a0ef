---------------------------- MODULE FieldLayouts ----------------------------
(***************************************************************************)
(* Buffers for TLC: how a sender writes the fields that the decoders of    *)
(* CBitRead read, and the buffers the instances use.                       *)
(*                                                                         *)
(* A field is a sequence of pieces, an integer and its number of bits, and *)
(* the calls that read it with the values they have to return.             *)
(***************************************************************************)
EXTENDS Integers, Sequences

\* The one bits of an int.
Ones(n) ==
    {j \in 0 .. 30 : (n \div 2 ^ j) % 2 = 1} \cup (IF n < 0 THEN {31} ELSE {})

Piece(v, n) == [v |-> v, n |-> n]

FlagPiece(b) == Piece(IF b THEN {0} ELSE {}, 1)

Called(op, arg, value) == [call |-> [op |-> op, arg |-> arg], value |-> value]

Sent(pieces, reads) == [pieces |-> pieces, reads |-> reads]

Part(v, k, n) == {j \in 0 .. n - 1 : j + k \in v}

Below(v, n) == \A j \in v : j < n

----------------------------------------------------------------------------
(* Integers *)

SentVarUBit(v) ==
    LET selector == CHOOSE s \in 0 .. 3 :
                       /\ Below(v, <<5, 7, 9, 12>>[s + 1])
                       /\ s > 0 => ~Below(v, <<5, 7, 9>>[s])
    IN  Sent(<<Piece(Part(v, 0, 5), 5), Piece(Ones(selector), 2)>>
               \o (IF selector = 0 THEN << >>
                   ELSE LET n == <<2, 4, 7>>[selector]
                        IN  <<Piece(Part(v, 5, n), n)>>),
             {Called("ReadVarUBit", "none", v)})

SentUBitVar(v) ==
    LET selector == CHOOSE s \in 0 .. 3 :
                       /\ Below(v, <<4, 8, 12, 32>>[s + 1])
                       /\ s > 0 => ~Below(v, <<4, 8, 12>>[s])
    IN  Sent(<<Piece(Part(v, 0, 4), 4), Piece(Ones(selector), 2)>>
               \o (IF selector = 0 THEN << >>
                   ELSE LET n == <<4, 8, 28>>[selector]
                        IN  <<Piece(Part(v, 4, n), n)>>),
             {Called("ReadUBitVar", "none", v)})

\* The fewest groups of seven bits that hold v.
VarIntPieces(v) ==
    LET n == CHOOSE n \in 1 .. 10 :
                Below(v, 7 * n) /\ (n > 1 => ~Below(v, 7 * (n - 1)))
    IN  [i \in 1 .. n |->
           Piece(Part(v, 7 * (i - 1), 7) \cup (IF i < n THEN {7} ELSE {}), 8)]

\* The two's complement v is sent as it is, and as zigzag z.
SentVarInt(w, v) ==
    Sent(VarIntPieces(v),
         {Called(IF w = 32 THEN "ReadVarInt32" ELSE "ReadVarInt64",
                 "none", v)})

SentSignedVarInt(w, v, z) ==
    Sent(VarIntPieces(z),
         {Called(IF w = 32 THEN "ReadSignedVarInt32" ELSE "ReadSignedVarInt64",
                 "none", v)})

\* A byte and a word, read with and without their signs.
SentByte(v) ==
    Sent(<<Piece(v, 8)>>,
         {Called("ReadByte", "none", v),
          Called("ReadChar", "none",
                 v \cup (IF 7 \in v THEN 8 .. 31 ELSE {}))})

SentWord(v) ==
    Sent(<<Piece(v, 16)>>,
         {Called("ReadWord", "none", v),
          Called("ReadShort", "none",
                 v \cup (IF 15 \in v THEN 16 .. 31 ELSE {}))})

----------------------------------------------------------------------------
(* Strings and raw bits *)

\* A terminated string, read into each size of pStr.
SentString(chars, end, bLine, sizes) ==
    Sent([i \in 1 .. Len(chars) + 1 |->
            Piece(IF i <= Len(chars) THEN chars[i] ELSE end, 8)],
         {Called("ReadString", [maxLen |-> n, bLine |-> bLine],
                 [pStr |-> SubSeq(chars, 1, IF Len(chars) < n THEN Len(chars)
                                            ELSE n - 1),
                  ok |-> Len(chars) < n]) : n \in sizes})

\* n bits, read to every alignment.
SentBits(v, n) ==
    Sent(<<Piece(v, n)>>,
         {Called("ReadBits", [nBits |-> n, align |-> a], v) : a \in 0 .. 3}
           \cup (IF n % 8 > 0 THEN {}
                 ELSE {Called("ReadBytes", [nBytes |-> n \div 8, align |-> 1],
                              <<v, TRUE>>)}))

----------------------------------------------------------------------------
(* Coordinates, in thirty-seconds, and normals *)

Abs(c) == IF c < 0 THEN -c ELSE c

CoordPieces(c) ==
    LET int == Abs(c) \div 32
        fract == Abs(c) % 32
    IN  <<FlagPiece(int > 0), FlagPiece(fract > 0)>>
          \o (IF c = 0 THEN << >> ELSE <<FlagPiece(c < 0)>>)
          \o (IF int = 0 THEN << >> ELSE <<Piece(Ones(int - 1), 14)>>)
          \o (IF fract = 0 THEN << >> ELSE <<Piece(Ones(fract), 5)>>)

SentCoord(c) == Sent(CoordPieces(c), {Called("ReadBitCoord", "none", c)})

\* The fraction has fractBits bits, none in the integral type.
SentCoordMP(coordType, fractBits, c) ==
    LET int == Abs(c) \div 32
        fract == (Abs(c) % 32) \div 2 ^ (5 - fractBits)
        value == IF int = 0 THEN << >>
                 ELSE <<Piece(Ones(int - 1), IF int < 2 ^ 11 THEN 11 ELSE 14)>>
    IN  Sent(<<FlagPiece(int < 2 ^ 11), FlagPiece(int > 0)>>
               \o (IF coordType = "kCW_Integral"
                     THEN IF int = 0 THEN << >> ELSE <<FlagPiece(c < 0)>> \o value
                     ELSE <<FlagPiece(c < 0)>> \o value
                            \o <<Piece(Ones(fract), fractBits)>>),
             {Called("ReadBitCoordMP", [coordType |-> coordType], c)})

SentCellCoord(bits, coordType, fractBits, c) ==
    LET fract == (c % 32) \div 2 ^ (5 - fractBits)
    IN  Sent(<<Piece(Ones(c \div 32), bits)>>
               \o (IF coordType = "kCW_Integral" THEN << >>
                   ELSE <<Piece(Ones(fract), fractBits)>>),
             {Called("ReadBitCellCoord",
                     [bits |-> bits, coordType |-> coordType], c)})

SentVec3Coord(x, y, z) ==
    LET part(c) == IF c = 0 THEN << >> ELSE CoordPieces(c)
    IN  Sent(<<FlagPiece(x # 0), FlagPiece(y # 0), FlagPiece(z # 0)>>
               \o part(x) \o part(y) \o part(z),
             {Called(op, "none", <<x, y, z>>) :
                op \in {"ReadBitVec3Coord", "ReadBitAngles"}})

NormalPieces(c) == <<FlagPiece(c < 0), Piece(Ones(Abs(c)), 11)>>

SentNormal(c) == Sent(NormalPieces(c), {Called("ReadBitNormal", "none", c)})

SentVec3Normal(x, y, negative) ==
    LET part(c) == IF c = 0 THEN << >> ELSE NormalPieces(c)
    IN  Sent(<<FlagPiece(x # 0), FlagPiece(y # 0)>>
               \o part(x) \o part(y) \o <<FlagPiece(negative)>>,
             {Called("ReadBitVec3Normal", "none", <<x, y, negative>>)})

\* v is v / 2^n of a turn.
SentAngle(n, v) ==
    Sent(<<Piece(v, n)>>,
         {Called("ReadBitAngle", [numbits |-> n], <<v, 2 ^ n>>)})

SentFloat(v) ==
    Sent(<<Piece(v, 32)>>, {Called("ReadBitFloat", "none", v)})

----------------------------------------------------------------------------
(* Buffers *)

\* Where the parts whose sizes are given by size start, one behind the other.
Starts(n, size(_), from) ==
    LET start[i \in 1 .. n + 1] ==
            IF i = 1 THEN from ELSE start[i - 1] + size(i - 1)
    IN  start

Total(pieces) ==
    Starts(Len(pieces), LAMBDA i : pieces[i].n, 0)[Len(pieces) + 1]

\* The fields fs, the first at bit from, in as few bytes as hold them.
Written(fs, from) ==
    LET at == Starts(Len(fs), LAMBDA i : Total(fs[i].pieces), from)
        ones(i) ==
            LET ps == fs[i].pieces
                p == Starts(Len(ps), LAMBDA k : ps[k].n, at[i])
            IN  UNION {{p[k] + j : j \in ps[k].v} : k \in DOMAIN ps}
    IN  [bytes |-> (at[Len(fs) + 1] + 7) \div 8,
         ones |-> UNION {ones(i) : i \in DOMAIN fs},
         fields |-> {[at |-> at[i], bits |-> Total(fs[i].pieces),
                      reads |-> fs[i].reads] : i \in DOMAIN fs},
         calls |-> UNION {{x.call : x \in fs[i].reads} : i \in DOMAIN fs}]

\* A buffer of n bytes of ones, where nothing ends.
NoEnd(n, cs) ==
    [bytes |-> n, ones |-> 0 .. 8 * n - 1, fields |-> {}, calls |-> cs]
=============================================================================
