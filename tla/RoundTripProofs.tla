-------------------------- MODULE RoundTripProofs --------------------------
(***************************************************************************)
(* What Lzss compresses is what it uncompresses, for every input, address  *)
(* and size of the window.  The output is taken apart into tokens; the     *)
(* argument is about the points between them.                              *)
(***************************************************************************)
EXTENDS LzssProofs

----------------------------------------------------------------------------
(* The bits of a command byte *)

Right(b, i) == b \div 2 ^ i

Bit(b, i) == Right(b, i) % 2

\* Shifts of a byte to the right are divisions.
LEMMA RightIs ==
    ASSUME NEW b \in 0 .. 255
    PROVE  /\ Right(b, 0) = b /\ Right(b, 1) = b \div 2
           /\ Right(b, 2) = b \div 4 /\ Right(b, 3) = b \div 8
           /\ Right(b, 4) = b \div 16 /\ Right(b, 5) = b \div 32
           /\ Right(b, 6) = b \div 64 /\ Right(b, 7) = b \div 128
           /\ Right(b, 8) = 0
<1>1. /\ 2 ^ 0 = 1 /\ 2 ^ 1 = 2 /\ 2 ^ 2 = 4 /\ 2 ^ 3 = 8 /\ 2 ^ 4 = 16
      /\ 2 ^ 5 = 32 /\ 2 ^ 6 = 64 /\ 2 ^ 7 = 128 /\ 2 ^ 8 = 256
  OBVIOUS
<1>2. b \div 1 = b /\ b \div 256 = 0
  OBVIOUS
<1>3. QED
  BY <1>1, <1>2 DEF Right

\* One place further to the right.
LEMMA RightHalf ==
    ASSUME NEW b \in 0 .. 255, NEW i \in 0 .. 7
    PROVE  Right(b, i) \in 0 .. 255 /\ Right(b, i + 1) = Right(b, i) \div 2
<1>1. i \in {0, 1, 2, 3, 4, 5, 6, 7}
  OBVIOUS
<1>2. /\ b \div 4 = (b \div 2) \div 2 /\ b \div 8 = (b \div 4) \div 2
      /\ b \div 16 = (b \div 8) \div 2 /\ b \div 32 = (b \div 16) \div 2
      /\ b \div 64 = (b \div 32) \div 2 /\ b \div 128 = (b \div 64) \div 2
      /\ 0 = (b \div 128) \div 2
  OBVIOUS
<1>3. \A d \in {2, 4, 8, 16, 32, 64, 128} : b \div d \in 0 .. 255
  OBVIOUS
<1>4. /\ Right(b, 1) = Right(b, 0) \div 2 /\ Right(b, 2) = Right(b, 1) \div 2
      /\ Right(b, 3) = Right(b, 2) \div 2 /\ Right(b, 4) = Right(b, 3) \div 2
      /\ Right(b, 5) = Right(b, 4) \div 2 /\ Right(b, 6) = Right(b, 5) \div 2
      /\ Right(b, 7) = Right(b, 6) \div 2 /\ Right(b, 8) = Right(b, 7) \div 2
  BY <1>2, RightIs
<1>5. /\ Right(b, 0) \in 0 .. 255 /\ Right(b, 1) \in 0 .. 255
      /\ Right(b, 2) \in 0 .. 255 /\ Right(b, 3) \in 0 .. 255
      /\ Right(b, 4) \in 0 .. 255 /\ Right(b, 5) \in 0 .. 255
      /\ Right(b, 6) \in 0 .. 255 /\ Right(b, 7) \in 0 .. 255
  BY <1>3, RightIs
<1>6. QED
  BY <1>1, <1>4, <1>5

\* A bit of a byte is zero or one.
LEMMA BitType ==
    ASSUME NEW b \in 0 .. 255, NEW i \in 0 .. 7
    PROVE  Bit(b, i) = 0 \/ Bit(b, i) = 1
<1>1. Right(b, i) \in 0 .. 255
  BY RightHalf
<1>2. QED
  BY <1>1 DEF Bit

\* A bit is put in front: the others move by one place.
LEMMA BitsPushed ==
    ASSUME NEW b \in 0 .. 255, NEW f \in {0, 128}
    PROVE  /\ (b \div 2) + f \in 0 .. 255
           /\ Bit((b \div 2) + f, 7) = f \div 128
           /\ \A i \in 0 .. 6 : Bit((b \div 2) + f, i) = Bit(b, i + 1)
<1> DEFINE c == (b \div 2) + f
<1>1. c \in 0 .. 255 /\ (c \div 128) % 2 = f \div 128
  OBVIOUS
<1>2. /\ c % 2 = (b \div 2) % 2 /\ (c \div 2) % 2 = (b \div 4) % 2
      /\ (c \div 4) % 2 = (b \div 8) % 2 /\ (c \div 8) % 2 = (b \div 16) % 2
      /\ (c \div 16) % 2 = (b \div 32) % 2
      /\ (c \div 32) % 2 = (b \div 64) % 2
      /\ (c \div 64) % 2 = (b \div 128) % 2
  BY SMTT(60)
<1> HIDE DEF c
<1>3. /\ Bit(c, 7) = (c \div 128) % 2
      /\ Bit(c, 0) = c % 2 /\ Bit(c, 1) = (c \div 2) % 2
      /\ Bit(c, 2) = (c \div 4) % 2 /\ Bit(c, 3) = (c \div 8) % 2
      /\ Bit(c, 4) = (c \div 16) % 2 /\ Bit(c, 5) = (c \div 32) % 2
      /\ Bit(c, 6) = (c \div 64) % 2
  BY <1>1, RightIs DEF Bit
<1>4. /\ Bit(b, 1) = (b \div 2) % 2
      /\ Bit(b, 2) = (b \div 4) % 2 /\ Bit(b, 3) = (b \div 8) % 2
      /\ Bit(b, 4) = (b \div 16) % 2 /\ Bit(b, 5) = (b \div 32) % 2
      /\ Bit(b, 6) = (b \div 64) % 2 /\ Bit(b, 7) = (b \div 128) % 2
  BY RightIs DEF Bit
<1>5. ASSUME NEW i \in 0 .. 6
      PROVE  Bit(c, i) = Bit(b, i + 1)
  <2>1. i \in {0, 1, 2, 3, 4, 5, 6}
    OBVIOUS
  <2>2. QED
    BY <1>2, <1>3, <1>4, <2>1
<1>6. QED
  BY <1>1, <1>3, <1>5 DEF c

\* Several places at once.
LEMMA BitsMoved ==
    ASSUME NEW b \in 0 .. 255, NEW k \in 0 .. 6, NEW i \in 0 .. 7 - k
    PROVE  Bit(Right(b, k), i) = Bit(b, i + k)
<1> DEFINE c == Right(b, k)
           Same(j) == Right(c, j) = Right(b, j + k)
<1>1. c \in 0 .. 255
  <2>1. k \in 0 .. 7
    OBVIOUS
  <2>2. QED
    BY <2>1, RightHalf
<1>2. Same(0)
  BY <1>1, RightIs
<1> HIDE DEF c
<1>3. ASSUME NEW j \in 0 .. 6, j + k <= 7, Same(j)
      PROVE  Same(j + 1)
  <2>1. j \in 0 .. 7 /\ j + k \in 0 .. 7 /\ (j + 1) + k = (j + k) + 1
    BY <1>3
  <2>2. Right(c, j + 1) = Right(c, j) \div 2
    BY <1>1, <2>1, RightHalf, Zenon
  <2>3. Right(b, (j + k) + 1) = Right(b, j + k) \div 2
    BY <2>1, RightHalf, Zenon
  <2>4. QED
    BY <1>3, <2>1, <2>2, <2>3, Zenon
<1> HIDE DEF Same
<1>4. /\ 1 + k <= 8 => Same(1)
      /\ 2 + k <= 8 => Same(2)
      /\ 3 + k <= 8 => Same(3)
      /\ 4 + k <= 8 => Same(4)
      /\ 5 + k <= 8 => Same(5)
      /\ 6 + k <= 8 => Same(6)
      /\ 7 + k <= 8 => Same(7)
  <2>1. 1 + k <= 8 => Same(1)
    BY <1>2, <1>3
  <2>2. 2 + k <= 8 => Same(2)
    BY <1>3, <2>1
  <2>3. 3 + k <= 8 => Same(3)
    BY <1>3, <2>2
  <2>4. 4 + k <= 8 => Same(4)
    BY <1>3, <2>3
  <2>5. 5 + k <= 8 => Same(5)
    BY <1>3, <2>4
  <2>6. 6 + k <= 8 => Same(6)
    BY <1>3, <2>5
  <2>7. 7 + k <= 8 => Same(7)
    BY <1>3, <2>6
  <2>8. QED
    BY <2>1, <2>2, <2>3, <2>4, <2>5, <2>6, <2>7
<1>5. i \in {0, 1, 2, 3, 4, 5, 6, 7} /\ i + k <= 8
  OBVIOUS
<1>6. Same(i)
  BY <1>2, <1>4, <1>5
<1>7. QED
  BY <1>6, Zenon DEF Same, c, Bit

----------------------------------------------------------------------------
(* Tokens *)

\* A point between two tokens: the bytes of the input in front of it, the
\* bytes of the output, its place among the eight tokens of a command byte,
\* and which byte of the output the command byte was.
Points == [pos : Nat, from : Nat, bit : 0 .. 7, cmd : Nat]

Origin == [pos |-> 0, from |-> 0, bit |-> 0, cmd |-> 0]

\* The command byte of the token behind a point, and how much of the output is
\* in front of the token's own bytes.
CmdOf(p) == IF p.bit = 0 THEN p.from + 1 ELSE p.cmd

DataOf(p) == IF p.bit = 0 THEN p.from + 1 ELSE p.from

\* The bit that says what the token is.  Of the command byte at the place at
\* only n bits are there, the last one at the top.
Flag(o, at, n, p) ==
    Bit(o[CmdOf(p)], IF CmdOf(p) = at THEN p.bit + 8 - n ELSE p.bit)

\* The token between p and q lies in the output, and its command byte is the
\* one at the place at or is in front of that, with its tokens.
Follows(size, at, n, p, q) ==
    /\ q.bit = (p.bit + 1) % 8
    /\ q.cmd = CmdOf(p)
    /\ CmdOf(p) \in 1 .. at
    /\ IF CmdOf(p) = at THEN DataOf(p) >= at /\ p.bit < n ELSE q.from < at
    /\ q.from <= size

CodesByte(o, x, p, q) ==
    /\ q.from = DataOf(p) + 1
    /\ q.pos = p.pos + 1
    /\ q.pos <= Len(x)
    /\ o[DataOf(p) + 1] = x[p.pos + 1]

\* The byte j behind position i is the one a distance in front of it.
Repeats(x, distance, i, j) == x[i - distance + j] = x[i + j + 1]

CodesCopy(o, x, p, q) ==
    \E distance \in 0 .. p.pos - 1, count \in 3 .. 16 :
        /\ o[DataOf(p) + 1] * 16 + (o[DataOf(p) + 2] \div 16) = distance
        /\ (o[DataOf(p) + 2] % 16) + 1 = count
        /\ q.from = DataOf(p) + 2
        /\ q.pos = p.pos + count
        /\ q.pos <= Len(x)
        /\ \A j \in 0 .. count - 1 : Repeats(x, distance, p.pos, j)

\* What the output o has between p and q stands for what the input x has
\* there.
Coded(o, x, at, n, p, q) ==
    /\ Follows(Len(o), at, n, p, q)
    /\ \/ Flag(o, at, n, p) = 0 /\ CodesByte(o, x, p, q)
       \/ Flag(o, at, n, p) = 1 /\ CodesCopy(o, x, p, q)

\* An output has the bytes of another one, but for the one at the place at.
Agree(o, o2, at) == \A k \in 1 .. Len(o) : k # at => o2[k] = o[k]

\* What the parts of a point are.
LEMMA PointType ==
    ASSUME NEW p \in Points
    PROVE  /\ p.pos \in Nat /\ p.from \in Nat /\ p.bit \in 0 .. 7
           /\ p.cmd \in Nat /\ CmdOf(p) \in Nat /\ DataOf(p) \in Nat
<1>1. p.pos \in Nat /\ p.from \in Nat /\ p.bit \in 0 .. 7 /\ p.cmd \in Nat
  BY DEF Points
<1>2. QED
  BY <1>1 DEF CmdOf, DataOf

\* A token is the same in an output that has its bytes and its flag.
LEMMA KeptToken ==
    ASSUME NEW o \in Octets, NEW o2, NEW x, NEW at \in Nat, NEW n,
           NEW at2, NEW n2, NEW p \in Points, NEW q \in Points,
           Coded(o, x, at, n, p, q),
           Agree(o, o2, at),
           Follows(Len(o2), at2, n2, p, q),
           Flag(o2, at2, n2, p) = Flag(o, at, n, p)
    PROVE  Coded(o2, x, at2, n2, p, q)
<1> DEFINE d == DataOf(p)
<1>1. Len(o) \in Nat /\ d \in Nat /\ q.from \in Nat /\ CmdOf(p) \in Nat
  BY PointType, LenOctets
<1>2. IF CmdOf(p) = at THEN d >= at ELSE q.from < at
  BY DEF Coded, Follows
<1>3. q.from <= Len(o)
  BY DEF Coded, Follows
<1> HIDE DEF d
<1>4. ASSUME CodesByte(o, x, p, q)
      PROVE  CodesByte(o2, x, p, q)
  <2>1. q.from = d + 1
    BY <1>4 DEF CodesByte, d
  <2>2. d + 1 \in 1 .. Len(o) /\ d + 1 # at
    BY <1>1, <1>2, <1>3, <2>1
  <2>3. o2[d + 1] = o[d + 1]
    BY <2>2, Zenon DEF Agree
  <2>4. QED
    BY <1>4, <2>3, Zenon DEF CodesByte, d
<1>5. ASSUME CodesCopy(o, x, p, q)
      PROVE  CodesCopy(o2, x, p, q)
  <2>1. q.from = d + 2
    BY <1>5, Zenon DEF CodesCopy, d
  <2>2. /\ d + 1 \in 1 .. Len(o) /\ d + 1 # at
        /\ d + 2 \in 1 .. Len(o) /\ d + 2 # at
    BY <1>1, <1>2, <1>3, <2>1
  <2>3. o2[d + 1] = o[d + 1] /\ o2[d + 2] = o[d + 2]
    BY <2>2, Zenon DEF Agree
  <2>4. QED
    BY <1>5, <2>3, Zenon DEF CodesCopy, d
<1>6. QED
  BY <1>4, <1>5, Zenon DEF Coded

\* A command byte is opened behind eight tokens.
LEMMA OpenedToken ==
    ASSUME NEW o \in Octets, NEW o2 \in Octets, NEW x, NEW at \in Nat, NEW n2,
           NEW p \in Points, NEW q \in Points,
           Coded(o, x, at, 8, p, q), at <= Len(o), Len(o2) >= Len(o),
           \A k \in 1 .. Len(o) : o2[k] = o[k]
    PROVE  Coded(o2, x, Len(o) + 1, n2, p, q)
<1> DEFINE c == CmdOf(p)
           at2 == Len(o) + 1
<1>1. /\ Len(o) \in Nat /\ Len(o2) \in Nat /\ q.from \in Nat
      /\ p.bit \in 0 .. 7 /\ c \in Nat
  BY PointType, LenOctets
<1>2. c \in 1 .. at /\ q.from <= Len(o) /\ q.cmd = c
      /\ q.bit = (p.bit + 1) % 8
  BY DEF Coded, Follows
<1> HIDE DEF c
<1>3. c \in 1 .. at2 /\ c # at2 /\ c \in 1 .. Len(o) /\ q.from < at2
      /\ q.from <= Len(o2)
  BY <1>1, <1>2
<1>4. Follows(Len(o2), at2, n2, p, q)
  BY <1>2, <1>3 DEF Follows, c
<1>5. Flag(o2, at2, n2, p) = Flag(o, at, 8, p)
  <2>1. o2[c] = o[c]
    BY <1>3
  <2>2. Flag(o2, at2, n2, p) = Bit(o2[c], p.bit)
    BY <1>3 DEF Flag, c
  <2>3. p.bit + 8 - 8 = p.bit
    BY <1>1
  <2>4. Flag(o, at, 8, p) = Bit(o[c], p.bit)
    BY <2>3 DEF Flag, c
  <2>5. QED
    BY <2>1, <2>2, <2>4, Zenon
<1> HIDE DEF at2
<1> Agree(o, o2, at)
  BY Zenon DEF Agree
<1>6. Coded(o2, x, at2, n2, p, q)
  BY <1>4, <1>5, KeptToken, Zenon
<1>7. QED
  BY <1>6 DEF at2

\* Where a bit is after one more has been put in front.
LEMMA BitPlaces ==
    ASSUME NEW b \in 0 .. 7, NEW n \in 0 .. 7, b < n
    PROVE  /\ b + 7 - n \in 0 .. 6
           /\ b + 8 - (n + 1) = b + 7 - n /\ b + 8 - n = (b + 7 - n) + 1
           /\ 7 - n \in 0 .. 6 /\ b \in 0 .. 7 - (7 - n)
           /\ b + 8 - 8 = b /\ b + (7 - n) = b + 7 - n
  OBVIOUS

\* One more bit is put into the command byte.
Pushed(o, o2, at, f) ==
    Len(o2) >= Len(o) /\ Agree(o, o2, at) /\ o2[at] = (o[at] \div 2) + f

\* A flag pushed into the open command byte leaves each token in front of it
\* as it was, one bit further down.
LEMMA PushedToken ==
    ASSUME NEW o \in Octets, NEW o2 \in Octets, NEW x,
           NEW at \in 1 .. Len(o), NEW n \in 0 .. 7, NEW f \in {0, 128},
           NEW p \in Points, NEW q \in Points,
           Coded(o, x, at, n, p, q), Pushed(o, o2, at, f)
    PROVE  Coded(o2, x, at, n + 1, p, q)
<1> DEFINE c == CmdOf(p)
<1> Len(o2) >= Len(o) /\ Agree(o, o2, at) /\ o2[at] = (o[at] \div 2) + f
  BY DEF Pushed
<1>1. /\ Len(o) \in Nat /\ Len(o2) \in Nat /\ q.from \in Nat
      /\ p.bit \in 0 .. 7 /\ c \in Nat /\ DataOf(p) \in Nat /\ at \in Nat
      /\ o[at] \in 0 .. 255
  BY PointType, LenOctets
<1>2. /\ c \in 1 .. at /\ q.from <= Len(o) /\ q.cmd = c
      /\ q.bit = (p.bit + 1) % 8
      /\ IF c = at THEN DataOf(p) >= at /\ p.bit < n ELSE q.from < at
  BY DEF Coded, Follows
<1> HIDE DEF c
<1>3. Follows(Len(o2), at, n + 1, p, q)
  <2>1. q.from <= Len(o2) /\ (p.bit < n => p.bit < n + 1)
    BY <1>1, <1>2, SMTT(60)
  <2>2. QED
    BY <1>2, <2>1 DEF Follows, c
<1>4. Flag(o2, at, n + 1, p) = Flag(o, at, n, p)
  <2>1. CASE c = at
    <3> DEFINE e == p.bit + 7 - n
    <3> p.bit < n
      BY <1>2, <2>1
    <3>1. e \in 0 .. 6 /\ p.bit + 8 - (n + 1) = e /\ p.bit + 8 - n = e + 1
      BY <1>1, BitPlaces, Zenon
    <3>2. Bit((o[at] \div 2) + f, e) = Bit(o[at], e + 1)
      BY <1>1, <3>1, BitsPushed, ZenonT(60)
    <3>3. Flag(o2, at, n + 1, p) = Bit(o2[at], e)
      BY <2>1, <3>1, Zenon DEF Flag, c
    <3>4. Flag(o, at, n, p) = Bit(o[at], e + 1)
      BY <2>1, <3>1, Zenon DEF Flag, c
    <3>5. QED
      BY <3>2, <3>3, <3>4, Zenon
  <2>2. CASE c # at
    <3>1. c \in 1 .. Len(o)
      BY <1>1, <1>2
    <3>2. o2[c] = o[c]
      BY <2>2, <3>1, Zenon DEF Agree
    <3>3. QED
      BY <2>2, <3>2, Zenon DEF Flag, c
  <2>3. QED
    BY <2>1, <2>2
<1> DEFINE m == n + 1
<1> HIDE DEF m
<1>5. Follows(Len(o2), at, m, p, q) /\ Flag(o2, at, m, p) = Flag(o, at, n, p)
  BY <1>3, <1>4, Zenon DEF m
<1>6. Coded(o2, x, at, m, p, q)
  BY <1>1, <1>5, KeptToken, Zenon
<1>7. QED
  BY <1>6, Zenon DEF m

\* The last command byte is moved into its place.
LEMMA ClosedToken ==
    ASSUME NEW o \in Octets, NEW o2 \in Octets, NEW x,
           NEW at \in 1 .. Len(o), NEW n \in 1 .. 7,
           NEW p \in Points, NEW q \in Points,
           Coded(o, x, at, n, p, q), Len(o2) >= Len(o),
           Agree(o, o2, at),
           o2[at] = Right((o[at] \div 2) + 128, 7 - n)
    PROVE  Coded(o2, x, at, 8, p, q)
<1> DEFINE c == CmdOf(p)
           y == (o[at] \div 2) + 128
<1>1. /\ Len(o) \in Nat /\ Len(o2) \in Nat /\ q.from \in Nat
      /\ p.bit \in 0 .. 7 /\ c \in Nat /\ DataOf(p) \in Nat /\ at \in Nat
      /\ o[at] \in 0 .. 255
  BY PointType, LenOctets
<1>2. /\ c \in 1 .. at /\ q.from <= Len(o) /\ q.cmd = c
      /\ q.bit = (p.bit + 1) % 8
      /\ IF c = at THEN DataOf(p) >= at /\ p.bit < n ELSE q.from < at
  BY DEF Coded, Follows
<1> HIDE DEF c
<1>3. Follows(Len(o2), at, 8, p, q)
  <2>1. q.from <= Len(o2) /\ p.bit < 8
    BY <1>1, <1>2, SMTT(60)
  <2>2. QED
    BY <1>2, <2>1 DEF Follows, c
<1>4. Flag(o2, at, 8, p) = Flag(o, at, n, p)
  <2>1. CASE c = at
    <3> DEFINE k == 7 - n
               e == p.bit + k
    <3> p.bit < n /\ n \in 0 .. 7
      BY <1>2, <2>1
    <3>1. /\ k \in 0 .. 6 /\ p.bit \in 0 .. 7 - k /\ e \in 0 .. 6
          /\ p.bit + 8 - 8 = p.bit /\ p.bit + 8 - n = e + 1
      BY <1>1, BitPlaces, Zenon
    <3>2. y \in 0 .. 255 /\ Bit(y, e) = Bit(o[at], e + 1)
      BY <1>1, <3>1, BitsPushed, Zenon
    <3> HIDE DEF y, k
    <3>3. Bit(Right(y, k), p.bit) = Bit(y, p.bit + k)
      BY <3>1, <3>2, BitsMoved, Zenon
    <3>4. Flag(o2, at, 8, p) = Bit(Right(y, k), p.bit)
      BY <2>1, <3>1, Zenon DEF Flag, c, y, k
    <3>5. Flag(o, at, n, p) = Bit(o[at], e + 1)
      BY <2>1, <3>1, Zenon DEF Flag, c
    <3>6. QED
      BY <3>2, <3>3, <3>4, <3>5, Zenon
  <2>2. CASE c # at
    <3>1. c \in 1 .. Len(o)
      BY <1>1, <1>2
    <3>2. o2[c] = o[c]
      BY <2>2, <3>1, Zenon DEF Agree
    <3>3. QED
      BY <2>2, <3>2, Zenon DEF Flag, c
  <2>3. QED
    BY <2>1, <2>2
<1>5. QED
  BY <1>1, <1>3, <1>4, KeptToken, Zenon

----------------------------------------------------------------------------
(* Chains of tokens *)

\* From every point of S but the last a token leads to another one.
Chain(S, o, x, at, n, last) ==
    /\ Origin \in S
    /\ last \in S
    /\ \A p \in S : p = last \/ \E q \in S : Coded(o, x, at, n, p, q)

\* What is a token of one output is one of the other.
Carried(o, at, n, o2, at2, n2, x) ==
    \A p, q \in Points : Coded(o, x, at, n, p, q) => Coded(o2, x, at2, n2, p, q)

\* The chain of an output without a token.
LEMMA FirstChain ==
    ASSUME NEW o, NEW x, NEW at, NEW n
    PROVE  /\ Origin \in Points /\ {Origin} \in SUBSET Points
           /\ Chain({Origin}, o, x, at, n, Origin)
<1>1. Origin \in Points
  BY DEF Origin, Points
<1>2. QED
  BY <1>1, Zenon DEF Chain

\* A chain of tokens that are all carried over is carried over.
LEMMA CarriedChain ==
    ASSUME NEW S \in SUBSET Points, NEW last, NEW x, NEW o, NEW at, NEW n,
           NEW o2, NEW at2, NEW n2,
           Chain(S, o, x, at, n, last), Carried(o, at, n, o2, at2, n2, x)
    PROVE  Chain(S, o2, x, at2, n2, last)
<1>1. ASSUME NEW p \in S, p # last
      PROVE  \E q \in S : Coded(o2, x, at2, n2, p, q)
  <2>1. PICK q \in S : Coded(o, x, at, n, p, q)
    BY <1>1, Zenon DEF Chain
  <2>2. p \in Points /\ q \in Points
    BY Zenon
  <2>3. Coded(o2, x, at2, n2, p, q)
    BY <2>1, <2>2, Zenon DEF Carried
  <2>4. QED
    BY <2>3, Zenon
<1>2. QED
  BY <1>1, Zenon DEF Chain

\* A token behind the last point makes the chain longer.
LEMMA ExtendedChain ==
    ASSUME NEW S \in SUBSET Points, NEW last, NEW q \in Points,
           NEW o, NEW x, NEW at, NEW n,
           Chain(S, o, x, at, n, last), Coded(o, x, at, n, last, q)
    PROVE  S \cup {q} \in SUBSET Points /\ Chain(S \cup {q}, o, x, at, n, q)
<1> DEFINE T == S \cup {q}
<1>1. \A p \in T : p = q \/ \E r \in T : Coded(o, x, at, n, p, r)
  BY Zenon DEF Chain
<1>2. T \in SUBSET Points /\ q \in T /\ Origin \in T
  BY Zenon DEF Chain
<1> HIDE DEF T
<1>3. Chain(T, o, x, at, n, q)
  BY <1>1, <1>2, Zenon DEF Chain
<1>4. QED
  BY <1>2, <1>3, Zenon DEF T

\* All tokens are carried over when a flag is pushed.
LEMMA PushedTokens ==
    ASSUME NEW o \in Octets, NEW o2 \in Octets, NEW x,
           NEW at \in 1 .. Len(o), NEW n \in 0 .. 7, NEW f \in {0, 128},
           Pushed(o, o2, at, f)
    PROVE  Carried(o, at, n, o2, at, n + 1, x)
BY PushedToken, Zenon DEF Carried

\* The last point of an output whose command byte is open, and a token behind
\* it.
LastIs(o, at, n, last) ==
    last.bit = n /\ CmdOf(last) = at /\ DataOf(last) = Len(o)

Adds(o2, x, at, n, f, last, q) ==
    /\ q.bit = (n + 1) % 8 /\ q.cmd = at /\ q.from = Len(o2)
    /\ \/ f = 0 /\ CodesByte(o2, x, last, q)
       \/ f = 128 /\ CodesCopy(o2, x, last, q)

\* The flag that is pushed and what is written for it are the new token.
LEMMA NewToken ==
    ASSUME NEW o \in Octets, NEW o2 \in Octets, NEW x,
           NEW at \in 1 .. Len(o), NEW n \in 0 .. 7, NEW f \in {0, 128},
           NEW last, NEW q, LastIs(o, at, n, last),
           Pushed(o, o2, at, f), Adds(o2, x, at, n, f, last, q)
    PROVE  Coded(o2, x, at, n + 1, last, q)
<1> DEFINE m == n + 1
<1>1. Len(o) \in Nat /\ Len(o2) \in Nat /\ o[at] \in 0 .. 255
  BY LenOctets
<1>2. Follows(Len(o2), at, m, last, q)
  <2>1. at \in 1 .. at /\ Len(o) >= at /\ n < m /\ Len(o2) <= Len(o2)
    BY <1>1
  <2>2. QED
    BY <2>1, Zenon DEF Follows, LastIs, Adds
<1>3. Flag(o2, at, m, last) = f \div 128
  <2>1. n + 8 - m = 7
    OBVIOUS
  <2>2. Bit((o[at] \div 2) + f, 7) = f \div 128
    BY <1>1, BitsPushed, Zenon
  <2>3. Flag(o2, at, m, last) = Bit(o2[at], n + 8 - m)
    BY Zenon DEF Flag, LastIs
  <2>4. QED
    BY <2>1, <2>2, <2>3, Zenon DEF Pushed
<1>4. 0 \div 128 = 0 /\ 128 \div 128 = 1
  OBVIOUS
<1>5. QED
  BY <1>2, <1>3, <1>4, Zenon DEF Coded, Adds

\* A token is written behind the last point: its flag goes to the top of the
\* command byte, its bytes to the end of the output.
LEMMA EmittedToken ==
    ASSUME NEW o \in Octets, NEW o2 \in Octets, NEW x,
           NEW at \in 1 .. Len(o), NEW n \in 0 .. 7, NEW f \in {0, 128},
           NEW S \in SUBSET Points, NEW last \in Points, NEW q \in Points,
           Chain(S, o, x, at, n, last), LastIs(o, at, n, last),
           Pushed(o, o2, at, f), Adds(o2, x, at, n, f, last, q)
    PROVE  /\ S \cup {q} \in SUBSET Points
           /\ Chain(S \cup {q}, o2, x, at, n + 1, q)
<1> DEFINE m == n + 1
<1>1. Carried(o, at, n, o2, at, m, x)
  BY PushedTokens, Zenon
<1>2. Coded(o2, x, at, m, last, q)
  BY NewToken, Zenon
<1> HIDE DEF m
<1>3. Chain(S, o2, x, at, m, last)
  BY <1>1, CarriedChain, Zenon
<1>4. /\ S \cup {q} \in SUBSET Points
      /\ Chain(S \cup {q}, o2, x, at, m, q)
  BY <1>2, <1>3, ExtendedChain, Zenon
<1>5. QED
  BY <1>4, Zenon DEF m

\* All tokens are carried over when a new command byte is opened.
LEMMA OpenedTokens ==
    ASSUME NEW o \in Octets, NEW o2 \in Octets, NEW x, NEW at \in Nat, NEW n2,
           at <= Len(o), Len(o2) >= Len(o),
           \A k \in 1 .. Len(o) : o2[k] = o[k]
    PROVE  Carried(o, at, 8, o2, Len(o) + 1, n2, x)
BY OpenedToken, Zenon DEF Carried

\* All tokens are carried over when the last command byte is closed.
LEMMA ClosedTokens ==
    ASSUME NEW o \in Octets, NEW o2 \in Octets, NEW x,
           NEW at \in 1 .. Len(o), NEW n \in 1 .. 7,
           Len(o2) >= Len(o), Agree(o, o2, at),
           o2[at] = Right((o[at] \div 2) + 128, 7 - n)
    PROVE  Carried(o, at, n, o2, at, 8, x)
BY ClosedToken, Zenon DEF Carried

----------------------------------------------------------------------------
(* The output of Compress *)

Coding == {"loop", "search", "hash", "uncompress"}

\* How many bits of the last command byte are there.
Shifted ==
    CASE pc = "search" -> IF put = 0 THEN 7 ELSE put - 1
      [] pc = "uncompress" -> 8
      [] OTHER -> IF put = 0 THEN 8 ELSE put

\* Where the tokens written so far end.
Stands(last) ==
    /\ pc \in {"loop", "hash"} =>
          last = [pos |-> IF pc = "hash" THEN ahead + pending ELSE ahead,
                  from |-> Len(out), bit |-> put, cmd |-> cmdAt]
    /\ pc = "search" => last.pos = ahead /\ LastIs(out, cmdAt, Shifted, last)
    /\ pc = "uncompress" =>
          /\ last.pos = Len(input)
          /\ CmdOf(last) = cmdAt /\ cmdAt > 0
          /\ Bit(out[cmdAt], last.bit) = 1
          /\ DataOf(last) = Len(out) - 2
          /\ out[Len(out) - 1] = 0 /\ out[Len(out)] = 0

\* Uncompress is at the point p.
DecoderAt(p) ==
    /\ Len(back) = p.pos
    /\ from = p.from
    /\ get = p.bit
    /\ get # 0 => cmd = Right(out[p.cmd], get)

Traced(S, last) ==
    /\ Chain(S, out, input, cmdAt, Shifted, last)
    /\ Stands(last)
    /\ pc = "uncompress" => \E p \in S : DecoderAt(p)

\* The output is a chain of tokens that stands for the input in front of ahead,
\* and Uncompress is at one of its points.
TraceInv ==
    pc \in Coding => \E S \in SUBSET Points, last \in Points : Traced(S, last)

\* A distance has twelve bits.
NarrowWindow == window <= 4096

\* The header, and what Uncompress has written.
DecoderInv ==
    /\ NarrowWindow
    /\ pc \in {"idle", "abandoned"} => header = 0
    /\ pc \in Coding => header = Len(input)
    /\ header # 0 => header = Len(input)
    /\ pc \notin {"uncompress", "done"} => from = 0 /\ get = 0 /\ back = << >>
    /\ pc # "done" => result = -1
    /\ from \in 0 .. Len(out) /\ cmd \in 0 .. 255 /\ get \in 0 .. 7
    /\ back \in Octets
    /\ Len(back) <= Len(input)
    /\ \A k \in 1 .. Len(back) : back[k] = input[k]
    /\ pc = "done" => result = IF header = 0 THEN 0 ELSE Len(input)
    /\ pc = "done" /\ header # 0 => back = input /\ from = Len(out)

RoundTripInv == DecoderInv /\ TraceInv

\* Before the first call there is nothing to decode.
LEMMA InitRoundTrip == Init => RoundTripInv
<1> SUFFICES ASSUME Init PROVE RoundTripInv
  OBVIOUS
<1>1. Len(<< >>) = 0 /\ << >> \in Octets
  BY DEF Octets
<1>2. pc \notin Coding
  BY DEF Init, Coding
<1>3. DecoderInv
  BY <1>1, <1>2 DEF Init, DecoderInv, NarrowWindow
<1>4. TraceInv
  BY <1>2 DEF TraceInv
<1>5. QED
  BY <1>3, <1>4 DEF RoundTripInv

\* A new compression leaves the decoder at rest.
LEMMA StartDecoder ==
    ASSUME NEW w \in WindowSizes, NEW x \in Inputs, NEW a \in Bases,
           CompressInv, DecoderInv, Start(w, x, a)
    PROVE  DecoderInv'
<1>1. pc = "idle" /\ out = << >> /\ Len(out) = 0
  BY DEF Start, CompressInv, TokenType
<1>2. from = 0 /\ get = 0 /\ back = << >> /\ Len(back) = 0 /\ result = -1
      /\ cmd \in 0 .. 255 /\ << >> \in Octets
  BY <1>1 DEF DecoderInv, Octets
<1>3. /\ window' <= 4096 /\ input' = x /\ Len(x) \in Nat
      /\ UNCHANGED <<out, from, cmd, get, back, result>>
  <2>1. x \in Octets /\ w \in 1 .. 4096
    BY LzssAssumption DEF Octets
  <2>2. QED
    BY <2>1, LenOctets DEF Start, output, decoder
<1>4. \/ pc' = "abandoned" /\ header' = 0
      \/ pc' = "loop" /\ header' = Len(x)
  BY DEF Start
<1>5. QED
  BY <1>1, <1>2, <1>3, <1>4 DEF DecoderInv, NarrowWindow, Coding

\* A new compression starts an empty chain.
LEMMA StartTrace ==
    ASSUME NEW w \in WindowSizes, NEW x \in Inputs, NEW a \in Bases,
           CompressInv, DecoderInv, Start(w, x, a)
    PROVE  TraceInv'
<1>1. pc = "idle" /\ out = << >> /\ Len(out) = 0 /\ ahead = 0
  BY DEF Start, CompressInv, TokenType, HashType
<1>2. cmdAt = 0 /\ put = 0
  BY <1>1 DEF CompressInv, OutputType, TokenType
<1>3. /\ UNCHANGED <<ahead, out, cmdAt, put>>
      /\ pc' = "loop" \/ pc' = "abandoned"
  BY DEF Start, output
<1>4. CASE pc' = "abandoned"
  BY <1>4 DEF TraceInv, Coding
<1>5. CASE pc' = "loop"
  <2>1. Stands(Origin)'
    BY <1>1, <1>2, <1>3, <1>5 DEF Stands, Origin
  <2>2. Chain({Origin}, out', input', cmdAt', Shifted', Origin)
        /\ Origin \in Points /\ {Origin} \in SUBSET Points
    BY FirstChain, Zenon
  <2>3. Traced({Origin}, Origin)'
    BY <1>5, <2>1, <2>2 DEF Traced
  <2>4. QED
    BY <2>2, <2>3, Zenon DEF TraceInv
<1>6. QED
  BY <1>3, <1>4, <1>5

\* Compress leaves Uncompress alone.
LEMMA CompressDecoder ==
    ASSUME CompressInv', DecoderInv, Compress
    PROVE  DecoderInv'
<1>1. pc \in {"loop", "search", "hash"}
  BY DEF Compress, BeginToken, Search, EmitCopy, EmitByte, HashByte, EndToken,
         Terminate
<1>2. UNCHANGED <<window, input, from, cmd, get, back, result>>
  BY DEF Compress, BeginToken, Search, EmitCopy, EmitByte, HashByte, EndToken,
         Terminate, caller, decoder
<1>3. \/ pc' = "abandoned" /\ header' = 0
      \/ pc' \in Coding /\ header' = header
  BY DEF Compress, BeginToken, Search, EmitCopy, EmitByte, HashByte, EndToken,
         Terminate, Coding
<1>4. Len(out') \in Nat
  BY LenOctets DEF CompressInv, OutputType
<1>5. from = 0 /\ get = 0 /\ back = << >> /\ result = -1 /\ header = Len(input)
  BY <1>1 DEF DecoderInv, Coding
<1>6. QED
  BY <1>1, <1>2, <1>3, <1>4, <1>5 DEF DecoderInv, NarrowWindow, Coding

\* A step that writes nothing.
LEMMA SameTrace ==
    ASSUME TraceInv, pc \in Coding,
           UNCHANGED <<input, out, cmdAt, put, from, cmd, get, back>>,
           \/ pc' = pc /\ UNCHANGED <<ahead, pending>>
           \/ pc' = pc /\ pc = "hash" /\ ahead' + pending' = ahead + pending
           \/ /\ pc = "hash" /\ pc' = "loop" /\ UNCHANGED ahead
              /\ ahead + pending = ahead
    PROVE  TraceInv'
<1>1. PICK S \in SUBSET Points, last \in Points : Traced(S, last)
  BY DEF TraceInv
<1>2. Shifted' = Shifted
  BY DEF Shifted
<1>3. Chain(S, out, input, cmdAt, Shifted, last)'
  <2>1. Chain(S, out, input, cmdAt, Shifted, last)
    BY <1>1 DEF Traced
  <2>2. Chain(S, out', input', cmdAt', Shifted', last)
    BY <1>2, <2>1, Zenon
  <2>3. QED
    BY <2>2, Zenon
<1>4. Stands(last)'
  <2>1. Stands(last)
    BY <1>1 DEF Traced
  <2>2. CASE pc \in {"loop", "hash"}
    BY <2>1, <2>2 DEF Stands
  <2>3. CASE pc \in {"search", "uncompress"}
    <3>1. pc' = pc /\ ahead' = ahead
      BY <2>3
    <3>2. QED
      BY <1>2, <2>1, <2>3, <3>1 DEF Stands, LastIs
  <2>4. QED
    BY <2>2, <2>3 DEF Coding
<1>5. ASSUME pc' = "uncompress" PROVE \E p \in S : DecoderAt(p)'
  BY <1>1, <1>5 DEF Traced, DecoderAt
<1>6. Traced(S, last)'
  BY <1>3, <1>4, <1>5 DEF Traced
<1>7. QED
  BY <1>6, Zenon DEF TraceInv

----------------------------------------------------------------------------
(* The steps of Compress *)

\* The bytes of an output that is added to.
LEMMA AppendAt ==
    ASSUME NEW s \in Octets, NEW x \in 0 .. 255
    PROVE  /\ \A k \in 1 .. Len(s) : Append(s, x)[k] = s[k]
           /\ Append(s, x)[Len(s) + 1] = x
BY AppendProperties DEF Octets

Concatenated(s, r, x, y) ==
    /\ r \in Octets /\ Len(r) = Len(s) + 2
    /\ \A k \in 1 .. Len(s) : r[k] = s[k]
    /\ r[Len(s) + 1] = x /\ r[Len(s) + 2] = y

\* The two bytes behind an output.
LEMMA ConcatAt ==
    ASSUME NEW s \in Octets, NEW x \in 0 .. 255, NEW y \in 0 .. 255
    PROVE  Concatenated(s, s \o <<x, y>>, x, y)
<1> DEFINE t == <<x, y>>
<1>1. t \in Octets /\ Len(t) = 2 /\ t[1] = x /\ t[2] = y
  BY DEF Octets
<1> HIDE DEF t
<1>2. s \o t \in Octets /\ Len(s \o t) = Len(s) + 2 /\ Len(s) \in Nat
  BY <1>1, ConcatOctets, LenOctets
<1>3. ASSUME NEW k \in 1 .. Len(s) + 2
      PROVE  (s \o t)[k] = IF k <= Len(s) THEN s[k] ELSE t[k - Len(s)]
  BY <1>1, <1>2, <1>3, ConcatProperties DEF Octets
<1>4. ASSUME NEW k \in 1 .. Len(s)
      PROVE  (s \o t)[k] = s[k]
  BY <1>2, <1>3
<1>5. (s \o t)[Len(s) + 1] = t[1] /\ (s \o t)[Len(s) + 2] = t[2]
  <2>1. /\ Len(s) + 1 \in 1 .. Len(s) + 2 /\ Len(s) + 2 \in 1 .. Len(s) + 2
        /\ ~(Len(s) + 1 <= Len(s)) /\ ~(Len(s) + 2 <= Len(s))
        /\ (Len(s) + 1) - Len(s) = 1 /\ (Len(s) + 2) - Len(s) = 2
    BY <1>2
  <2>2. QED
    BY <1>3, <2>1
<1>6. QED
  BY <1>1, <1>2, <1>4, <1>5 DEF t, Concatenated

\* A byte that is replaced, and the others.
LEMMA ReplaceAt ==
    ASSUME NEW s \in Octets, NEW k \in 1 .. Len(s), NEW x \in 0 .. 255
    PROVE  /\ [s EXCEPT ![k] = x][k] = x
           /\ \A j \in 1 .. Len(s) : j # k => [s EXCEPT ![k] = x][j] = s[j]
<1>1. DOMAIN s = 1 .. Len(s)
  BY LenProperties DEF Octets
<1>2. QED
  BY <1>1

\* An iteration begins.
LEMMA BeginTokenTrace ==
    ASSUME CompressInv, CompressInv', TraceInv, BeginToken
    PROVE  TraceInv'
<1>1. /\ pc = "loop" /\ pc' = "search" /\ put' = (put + 1) % 8
      /\ UNCHANGED <<input, ahead>>
  BY DEF BeginToken, caller
<1>2. /\ out \in Octets /\ cmdAt \in 0 .. Len(out) /\ put \in 0 .. 7
      /\ out' \in Octets /\ Len(out) \in Nat
  BY LenOctets DEF CompressInv, OutputType
<1>3. PICK S \in SUBSET Points, last \in Points : Traced(S, last)
  BY <1>1 DEF TraceInv, Coding
<1>4. /\ Chain(S, out, input, cmdAt, Shifted, last)
      /\ last = [pos |-> ahead, from |-> Len(out), bit |-> put, cmd |-> cmdAt]
  BY <1>1, <1>3 DEF Traced, Stands
<1>5. Shifted' = put
  BY <1>1, <1>2 DEF Shifted
<1>6. Chain(S, out', input, cmdAt', put, last)
      /\ LastIs(out', cmdAt', put, last)
  <2>1. CASE put = 0
    <3>1. Shifted = 8 /\ out' = Append(out, 0) /\ cmdAt' = Len(out) + 1
      BY <1>1, <2>1 DEF Shifted, BeginToken
    <3>2. /\ Len(out') = Len(out) + 1
          /\ \A k \in 1 .. Len(out) : out'[k] = out[k]
      BY <1>2, <3>1, AppendOctets, AppendAt
    <3>3. cmdAt \in Nat /\ cmdAt <= Len(out) /\ Len(out') >= Len(out)
      BY <1>2, <3>2
    <3>4. Carried(out, cmdAt, 8, out', Len(out) + 1, put, input)
      BY <1>2, <3>2, <3>3, OpenedTokens, Zenon
    <3>5. Carried(out, cmdAt, 8, out', cmdAt', put, input)
      BY <3>1, <3>4, Zenon
    <3>6. Chain(S, out', input, cmdAt', put, last)
      BY <1>4, <3>1, <3>5, CarriedChain, Zenon
    <3>7. LastIs(out', cmdAt', put, last)
      BY <1>4, <2>1, <3>1, <3>2 DEF LastIs, CmdOf, DataOf
    <3>8. QED
      BY <3>6, <3>7
  <2>2. CASE put # 0
    <3>1. Shifted = put /\ out' = out /\ cmdAt' = cmdAt
      BY <1>1, <2>2 DEF Shifted, BeginToken
    <3>2. LastIs(out', cmdAt', put, last)
      BY <1>4, <2>2, <3>1 DEF LastIs, CmdOf, DataOf
    <3>3. QED
      BY <1>4, <3>1, <3>2, Zenon
  <2>3. QED
    BY <2>1, <2>2
<1>7. Stands(last)'
  BY <1>1, <1>4, <1>5, <1>6 DEF Stands
<1>8. Traced(S, last)'
  BY <1>1, <1>5, <1>6, <1>7 DEF Traced
<1>9. QED
  BY <1>8, Zenon DEF TraceInv

\* The steps of Compress that write nothing keep the chain.
LEMMA SilentTrace ==
    ASSUME CompressInv, TraceInv, Search \/ HashByte \/ EndToken
    PROVE  TraceInv'
<1>1. pc \in Coding /\ UNCHANGED <<input, out, cmdAt, put, from, cmd, get, back>>
  BY DEF Search, HashByte, EndToken, Coding, caller, output, decoder
<1>2. ahead \in Nat /\ pending \in Nat
  BY DEF CompressInv, CallerType, TokenType, LookAhead
<1>3. CASE Search
  BY <1>1, <1>3, SameTrace DEF Search
<1>4. CASE HashByte
  <2>1. pc' = pc /\ pc = "hash" /\ ahead' + pending' = ahead + pending
    BY <1>2, <1>4 DEF HashByte
  <2>2. QED
    BY <1>1, <2>1, SameTrace
<1>5. CASE EndToken /\ pc' = "loop"
  <2>1. pc = "hash" /\ UNCHANGED ahead /\ ahead + pending = ahead
    BY <1>2, <1>5 DEF EndToken
  <2>2. QED
    BY <1>1, <1>5, <2>1, SameTrace
<1>6. CASE EndToken /\ pc' = "abandoned"
  BY <1>6 DEF TraceInv, Coding
<1>7. QED
  BY <1>3, <1>4, <1>5, <1>6 DEF EndToken

PointAt(i, size, b, at) == [pos |-> i, from |-> size, bit |-> b, cmd |-> at]

\* The bytes of the token with the flag f say what the input has there.
Says(o, o2, x, f, i, q) ==
    \A last \in Points :
        last.pos = i /\ DataOf(last) = Len(o) =>
            \/ f = 0 /\ CodesByte(o2, x, last, q)
            \/ f = 128 /\ CodesCopy(o2, x, last, q)

\* A token is written.
LEMMA EmitTrace ==
    ASSUME CompressInv, CompressInv', TraceInv, NEW f \in {0, 128},
           pc = "search", pc' = "hash", UNCHANGED <<input, ahead, cmdAt, put>>,
           Pushed(out, out', cmdAt, f),
           Says(out, out', input, f, ahead,
                PointAt(ahead + pending', Len(out'), put, cmdAt))
    PROVE  TraceInv'
<1> DEFINE n == Shifted
<1>1. /\ out \in Octets /\ out' \in Octets /\ put \in 0 .. 7
      /\ Len(out) \in Nat /\ Len(out') \in Nat /\ cmdAt \in 1 .. Len(out)
      /\ ahead \in Nat /\ pending' \in Nat
  <2>1. out \in Octets /\ out' \in Octets /\ put \in 0 .. 7
        /\ Len(out) \in Nat /\ Len(out') \in Nat
    BY LenOctets DEF CompressInv, OutputType
  <2>2. cmdAt \in 0 .. Len(out) /\ cmdAt > 0
    BY DEF CompressInv, OutputType, TokenType
  <2>3. ahead \in Nat /\ pending' \in Nat
    BY DEF CompressInv, CallerType, TokenType, LookAhead
  <2>4. QED
    BY <2>1, <2>2, <2>3
<1>2. n \in 0 .. 7 /\ (n + 1) % 8 = put /\ Shifted' = n + 1
  BY <1>1 DEF Shifted
<1>3. PICK S \in SUBSET Points, last \in Points : Traced(S, last)
  BY DEF TraceInv, Coding
<1>4. /\ Chain(S, out, input, cmdAt, n, last)
      /\ last.pos = ahead /\ LastIs(out, cmdAt, n, last)
  BY <1>3 DEF Traced, Stands
<1>5. PICK q \in Points : q = PointAt(ahead + pending', Len(out'), put, cmdAt)
  BY <1>1 DEF Points, PointAt
<1>6. q.bit = put /\ q.cmd = cmdAt /\ q.from = Len(out')
  BY <1>5 DEF PointAt
<1>7. Stands(q)'
  <2>1. q = [pos |-> ahead' + pending', from |-> Len(out'), bit |-> put',
             cmd |-> cmdAt']
    BY <1>5, Zenon DEF PointAt
  <2>2. QED
    BY <2>1 DEF Stands
<1> HIDE DEF n
<1>8. Adds(out', input, cmdAt, n, f, last, q)
  <2>1. \/ f = 0 /\ CodesByte(out', input, last, q)
        \/ f = 128 /\ CodesCopy(out', input, last, q)
    BY <1>4, <1>5, Zenon DEF Says, LastIs
  <2>2. QED
    BY <1>2, <1>6, <2>1, Zenon DEF Adds
<1>9. /\ S \cup {q} \in SUBSET Points
      /\ Chain(S \cup {q}, out', input, cmdAt, n + 1, q)
  BY <1>1, <1>2, <1>4, <1>5, <1>8, EmittedToken, ZenonT(60)
<1>10. Chain(S \cup {q}, out', input', cmdAt', Shifted', q)
  BY <1>2, <1>9, Zenon
<1>11. Traced(S \cup {q}, q)'
  BY <1>7, <1>10 DEF Traced
<1>12. QED
  BY <1>5, <1>9, <1>11, Zenon DEF TraceInv

\* What the output is after its command byte changed and bytes were added.
ByteAdded(o, o2, at, v, x) ==
    /\ o2 \in Octets /\ Len(o2) = Len(o) + 1 /\ Agree(o, o2, at)
    /\ o2[at] = v /\ o2[Len(o) + 1] = x

BytesAdded(o, o2, at, v, x, y) ==
    /\ o2 \in Octets /\ Len(o2) = Len(o) + 2 /\ Agree(o, o2, at)
    /\ o2[at] = v /\ o2[Len(o) + 1] = x /\ o2[Len(o) + 2] = y

\* The output after a byte is emitted.
LEMMA WrittenByte ==
    ASSUME NEW o \in Octets, NEW at \in 1 .. Len(o), NEW v \in 0 .. 255,
           NEW x \in 0 .. 255
    PROVE  ByteAdded(o, Append([o EXCEPT ![at] = v], x), at, v, x)
<1> DEFINE e == [o EXCEPT ![at] = v]
<1>1. e \in Octets /\ Len(e) = Len(o) /\ e[at] = v
  <2>1. e \in Octets /\ Len(e) = Len(o)
    BY ReplaceOctets
  <2>2. e[at] = v
    <3>1. DOMAIN o = 1 .. Len(o)
      BY LenProperties DEF Octets
    <3>2. QED
      BY <3>1
  <2>3. QED
    BY <2>1, <2>2
<1>2. Agree(o, e, at)
  BY ReplaceAt DEF Agree
<1> HIDE DEF e
<1>3. /\ Append(e, x) \in Octets /\ Len(Append(e, x)) = Len(e) + 1
      /\ \A k \in 1 .. Len(e) : Append(e, x)[k] = e[k]
      /\ Append(e, x)[Len(e) + 1] = x
  BY <1>1, AppendOctets, AppendAt
<1>4. ByteAdded(o, Append(e, x), at, v, x)
  BY <1>1, <1>2, <1>3, Zenon DEF Agree, ByteAdded
<1>5. QED
  BY <1>4, Zenon DEF e

\* The output after a copy is emitted.
LEMMA WrittenBytes ==
    ASSUME NEW o \in Octets, NEW at \in 1 .. Len(o), NEW v \in 0 .. 255,
           NEW x \in 0 .. 255, NEW y \in 0 .. 255
    PROVE  BytesAdded(o, [o EXCEPT ![at] = v] \o <<x, y>>, at, v, x, y)
<1> DEFINE e == [o EXCEPT ![at] = v]
<1>1. e \in Octets /\ Len(e) = Len(o) /\ e[at] = v
  <2>1. e \in Octets /\ Len(e) = Len(o)
    BY ReplaceOctets
  <2>2. e[at] = v
    <3>1. DOMAIN o = 1 .. Len(o)
      BY LenProperties DEF Octets
    <3>2. QED
      BY <3>1
  <2>3. QED
    BY <2>1, <2>2
<1>2. Agree(o, e, at)
  BY ReplaceAt DEF Agree
<1> DEFINE o2 == e \o <<x, y>>
<1> HIDE DEF e
<1>3. /\ o2 \in Octets /\ Len(o2) = Len(e) + 2
      /\ \A k \in 1 .. Len(e) : o2[k] = e[k]
      /\ o2[Len(e) + 1] = x /\ o2[Len(e) + 2] = y
  <2>1. Concatenated(e, o2, x, y)
    BY <1>1, ConcatAt, Zenon
  <2>2. QED
    BY <2>1, Zenon DEF Concatenated
<1> HIDE DEF o2
<1>4. BytesAdded(o, o2, at, v, x, y)
  BY <1>1, <1>2, <1>3, Zenon DEF Agree, BytesAdded
<1>5. QED
  BY <1>4, Zenon DEF o2, e

\* EmitByte adds the token of one byte to the chain.
LEMMA EmitByteTrace ==
    ASSUME CompressInv, CompressInv', TraceInv, EmitByte
    PROVE  TraceInv'
<1>1. /\ pc = "search" /\ pc' = "hash" /\ UNCHANGED <<input, ahead, cmdAt, put>>
      /\ pending' = 1
      /\ out' = Append([out EXCEPT ![cmdAt] = @ \div 2], InputAt(ahead))
  BY DEF EmitByte, caller
<1>2. /\ out \in Octets /\ Len(out) \in Nat /\ cmdAt \in 1 .. Len(out)
      /\ out[cmdAt] \in 0 .. 255
  <2>1. out \in Octets /\ cmdAt \in 0 .. Len(out) /\ cmdAt > 0
    BY <1>1 DEF CompressInv, OutputType, TokenType
  <2>2. QED
    BY <2>1, LenOctets
<1>3. ahead \in Nat /\ Len(input) \in Nat /\ ahead + 1 <= Len(input)
      /\ InputAt(ahead) \in 0 .. 255
  <2>1. ahead \in 0 .. Len(input) - 1 /\ Len(input) \in Nat
    BY <1>1, LookAheadLengthType DEF CompressInv, CallerType, TokenType,
       inputLength
  <2>2. QED
    BY <2>1, InputAtType DEF CompressInv
<1> DEFINE v == out[cmdAt] \div 2
           x == InputAt(ahead)
<1>4. v \in 0 .. 255 /\ v = v + 0
  <2>1. \A b \in 0 .. 255 : b \div 2 \in 0 .. 255 /\ b \div 2 = b \div 2 + 0
    OBVIOUS
  <2>2. QED
    BY <1>2, <2>1, Zenon
<1>5. out' = Append([out EXCEPT ![cmdAt] = v], x)
  BY <1>1
<1> HIDE DEF x
<1>6. /\ Len(out') = Len(out) + 1 /\ Agree(out, out', cmdAt)
      /\ out'[cmdAt] = v /\ out'[Len(out) + 1] = x
  <2> HIDE DEF v
  <2> x \in 0 .. 255
    BY <1>3 DEF x
  <2>1. ByteAdded(out, Append([out EXCEPT ![cmdAt] = v], x), cmdAt, v, x)
    BY <1>2, <1>4, WrittenByte, Zenon
  <2>2. ByteAdded(out, out', cmdAt, v, x)
    BY <1>5, <2>1, Zenon
  <2>3. QED
    BY <2>2, Zenon DEF ByteAdded
<1>7. Pushed(out, out', cmdAt, 0)
  <2>1. Len(out') >= Len(out)
    BY <1>2, <1>6
  <2>2. QED
    BY <1>4, <1>6, <2>1 DEF Pushed
<1>8. ASSUME NEW last \in Points, last.pos = ahead, DataOf(last) = Len(out)
      PROVE  CodesByte(out', input, last,
                       PointAt(ahead + pending', Len(out'), put, cmdAt))
  <2>1. ahead + pending' = ahead + 1
    BY <1>1
  <2>2. out'[Len(out) + 1] = input[ahead + 1]
    BY <1>6 DEF x, InputAt
  <2>3. QED
    BY <1>3, <1>6, <1>8, <2>1, <2>2 DEF CodesByte, PointAt
<1>9. Says(out, out', input, 0, ahead,
           PointAt(ahead + pending', Len(out'), put, cmdAt))
  BY <1>8, Zenon DEF Says
<1>10. QED
  BY <1>1, <1>7, <1>9, EmitTrace

Distances == 0 .. 4095

\* Twelve bits of a distance and four of a length in two bytes.
LEMMA CopyDecoded ==
    ASSUME NEW d \in Distances, NEW n \in 1 .. 16
    PROVE  LET x == (d \div 16) % 256
               y == ((d * 16) % 256) + n - 1
           IN  x * 16 + (y \div 16) = d /\ (y % 16) + 1 = n
<1> DEFINE h == d \div 16
           l == d % 16
           x == h % 256
           r == (d * 16) % 256
           y == r + n - 1
<1>1. h \in 0 .. 255 /\ l \in 0 .. 15 /\ d = 16 * h + l
  BY DEF Distances
<1> HIDE DEF h, l
<1>2. x = h
  BY <1>1
<1>3. r = 16 * l
  BY <1>1
<1> HIDE DEF x, r
<1>4. y \div 16 = l /\ y % 16 = n - 1
  BY <1>1, <1>3
<1> HIDE DEF y
<1>5. x * 16 + (y \div 16) = d /\ (y % 16) + 1 = n
  BY <1>1, <1>2, <1>4
<1>6. QED
  BY <1>5 DEF h, x, r, y

\* EmitCopy adds the token of a copy to the chain: its distance fits the twelve
\* bits, and the copied bytes are those that follow in the input.
LEMMA EmitCopyTrace ==
    ASSUME CompressInv, CompressInv', TraceInv, LongestMatch, NarrowWindow,
           EmitCopy
    PROVE  TraceInv'
<1> DEFINE d == Position
           x == (d \div 16) % 256
           y == ((d * 16) % 256) + encLen - 1
           v == (out[cmdAt] \div 2) + 128
<1>1. /\ pc = "search" /\ pc' = "hash" /\ UNCHANGED <<input, ahead, cmdAt, put>>
      /\ node = None /\ encLen >= 3 /\ pending' = encLen
      /\ out' = [out EXCEPT ![cmdAt] = v] \o <<x, y>>
  BY DEF EmitCopy, caller
<1>2. /\ out \in Octets /\ Len(out) \in Nat /\ cmdAt \in 1 .. Len(out)
      /\ v \in 0 .. 255
  <2>1. out \in Octets /\ cmdAt \in 0 .. Len(out) /\ cmdAt > 0
    BY <1>1 DEF CompressInv, OutputType, TokenType
  <2>2. Len(out) \in Nat /\ cmdAt \in 1 .. Len(out) /\ out[cmdAt] \in 0 .. 255
    BY <2>1, LenOctets
  <2>3. QED
    BY <2>1, <2>2, ShiftedByte
<1>3. /\ ahead \in Nat /\ Len(input) \in Nat /\ encLen \in 3 .. 16
      /\ ahead + encLen <= Len(input)
  BY <1>1, LookAheadLengthType, SMTT(60)
  DEF CompressInv, CallerType, TokenType,
     inputLength, LookAhead
<1>4. /\ encPos \in 0 .. ahead - 1 /\ encPos >= ahead - window
      /\ \A j \in 0 .. encLen - 1 : InputAt(encPos + j) = InputAt(ahead + j)
  <2>1. encLen > 0
    BY <1>3
  <2>2. encPos \in Window /\ MatchLength(encPos) = encLen
    BY <1>1, <2>1, Zenon DEF LongestMatch
  <2>3. \A j \in 0 .. MatchLength(encPos) - 1 :
           InputAt(encPos + j) = InputAt(ahead + j)
    BY MatchLengthIs, Zenon DEF CompressInv
  <2>4. QED
    BY <2>2, <2>3, Zenon DEF Window
<1>5. d \in Distances /\ d \in 0 .. ahead - 1 /\ encPos = ahead - d - 1
  <2>1. window \in Nat
    BY DEF CompressInv, CallerType
  <2>2. QED
    BY <1>3, <1>4, <2>1 DEF Position, Distances, NarrowWindow
<1> HIDE DEF d
<1>6. /\ x \in 0 .. 255 /\ y \in 0 .. 255
      /\ x * 16 + (y \div 16) = d /\ (y % 16) + 1 = encLen
  <2>1. encLen \in 1 .. 16 /\ d \in Int
    BY <1>3, <1>5
  <2>2. x \in 0 .. 255 /\ y \in 0 .. 255
    BY <2>1, CopyBytes, Zenon
  <2>3. x * 16 + (y \div 16) = d /\ (y % 16) + 1 = encLen
    BY <1>5, <2>1, CopyDecoded, ZenonT(60)
  <2>4. QED
    BY <2>2, <2>3
<1> HIDE DEF x, y
<1>7. BytesAdded(out, out', cmdAt, v, x, y)
  <2> HIDE DEF v
  <2>1. BytesAdded(out, [out EXCEPT ![cmdAt] = v] \o <<x, y>>, cmdAt, v, x, y)
    BY <1>2, <1>6, WrittenBytes, Zenon
  <2>2. QED
    BY <1>1, <2>1, Zenon
<1>8. Pushed(out, out', cmdAt, 128)
  <2>1. Len(out') = Len(out) + 2
    BY <1>7 DEF BytesAdded
  <2>2. Len(out') >= Len(out)
    BY <1>2, <2>1
  <2>3. QED
    BY <1>7, <2>2, Zenon DEF Pushed, BytesAdded
<1>9. \A j \in 0 .. encLen - 1 : Repeats(input, d, ahead, j)
  <2> SUFFICES ASSUME NEW j \in 0 .. encLen - 1
               PROVE  Repeats(input, d, ahead, j)
    OBVIOUS
  <2>1. InputAt(encPos + j) = InputAt(ahead + j)
    BY <1>4
  <2>2. (encPos + j) + 1 = ahead - d + j
    BY <1>3, <1>5
  <2>3. QED
    BY <2>1, <2>2, Zenon DEF Repeats, InputAt
<1>10. ASSUME NEW last \in Points, last.pos = ahead, DataOf(last) = Len(out),
              NEW q, q.pos = ahead + encLen, q.from = Len(out')
       PROVE  CodesCopy(out', input, last, q)
  <2>1. /\ out'[Len(out) + 1] = x /\ out'[Len(out) + 2] = y
        /\ Len(out') = Len(out) + 2
    BY <1>7, Zenon DEF BytesAdded
  <2>2. q.pos <= Len(input)
    BY <1>3, <1>10
  <2>3. QED
    BY <1>3, <1>5, <1>6, <1>9, <1>10, <2>1, <2>2, Zenon DEF CodesCopy
<1>11. Says(out, out', input, 128, ahead,
            PointAt(ahead + pending', Len(out'), put, cmdAt))
  <2> DEFINE q == PointAt(ahead + pending', Len(out'), put, cmdAt)
  <2>1. q.pos = ahead + encLen /\ q.from = Len(out')
    BY <1>1 DEF PointAt
  <2> HIDE DEF q
  <2>2. Says(out, out', input, 128, ahead, q)
    BY <1>10, <2>1, Zenon DEF Says
  <2>3. QED
    BY <2>2, Zenon DEF q
<1>12. QED
  BY <1>1, <1>8, <1>11, EmitTrace

\* The last command byte is complete, and the end mark follows.
LEMMA EndTrace ==
    ASSUME CompressInv, DecoderInv, Terminate, CompressInv',
           NEW S \in SUBSET Points, NEW last \in Points,
           Chain(S, out', input', cmdAt', 8, last),
           last.pos = ahead, CmdOf(last) = cmdAt', cmdAt' > 0,
           Bit(out'[cmdAt'], last.bit) = 1,
           DataOf(last) = Len(out') - 2,
           out'[Len(out') - 1] = 0, out'[Len(out')] = 0
    PROVE  TraceInv'
<1>1. /\ pc = "loop" /\ pc' = "uncompress" /\ inputLength = 0
      /\ UNCHANGED <<input, from, cmd, get, back>>
  BY DEF Terminate, caller, decoder
<1>2. ahead = Len(input)
  BY <1>1, LookAheadLengthType DEF CompressInv, CallerType, inputLength
<1>3. from = 0 /\ get = 0 /\ Len(back) = 0
  BY <1>1 DEF DecoderInv
<1>4. DecoderAt(Origin)'
  BY <1>1, <1>3 DEF DecoderAt, Origin
<1>5. Origin \in S
  BY DEF Chain
<1>6. Shifted' = 8
  BY <1>1 DEF Shifted
<1>7. Stands(last)'
  BY <1>1, <1>2 DEF Stands
<1>8. Traced(S, last)'
  <2>1. Chain(S, out', input', cmdAt', Shifted', last)
    BY <1>6, Zenon
  <2>2. QED
    BY <1>4, <1>5, <1>7, <2>1 DEF Traced
<1>9. QED
  BY <1>8, Zenon DEF TraceInv

\* Terminate closes the command byte and adds the end to the chain.
LEMMA TerminateTrace ==
    ASSUME CompressInv, CompressInv', DecoderInv, TraceInv, Terminate
    PROVE  TraceInv'
<1>1. pc = "loop" /\ UNCHANGED <<input, ahead, put>>
  BY DEF Terminate, caller
<1>2. /\ out \in Octets /\ Len(out) \in Nat /\ cmdAt \in 0 .. Len(out)
      /\ put \in 0 .. 7 /\ out' \in Octets
  BY LenOctets DEF CompressInv, OutputType
<1>3. PICK S \in SUBSET Points, last \in Points : Traced(S, last)
  BY <1>1 DEF TraceInv, Coding
<1>4. /\ Chain(S, out, input, cmdAt, Shifted, last)
      /\ last = [pos |-> ahead, from |-> Len(out), bit |-> put, cmd |-> cmdAt]
  BY <1>1, <1>3 DEF Traced, Stands
<1>5. CASE put = 0
  <2> DEFINE e == Append(out, 1)
  <2>1. Shifted = 8 /\ out' = e \o <<0, 0>> /\ cmdAt' = Len(out) + 1
    BY <1>1, <1>5 DEF Shifted, Terminate
  <2>2. /\ e \in Octets /\ Len(e) = Len(out) + 1
        /\ \A k \in 1 .. Len(out) : e[k] = out[k]
        /\ e[Len(out) + 1] = 1
    BY <1>2, AppendOctets, AppendAt
  <2> HIDE DEF e
  <2>3. Concatenated(e, out', 0, 0)
    <3>1. Concatenated(e, e \o <<0, 0>>, 0, 0)
      <4>1. 0 \in 0 .. 255
        OBVIOUS
      <4>2. QED
        BY <2>2, <4>1, ConcatAt, Zenon
    <3>2. QED
      BY <2>1, <3>1, Zenon
  <2>4. Len(out') = Len(out) + 3 /\ Len(out) + 1 \in 1 .. Len(e)
    BY <1>2, <2>2, <2>3 DEF Concatenated
  <2>5. \A k \in 1 .. Len(out) : k \in 1 .. Len(e)
    BY <1>2, <2>2
  <2>6. \A k \in 1 .. Len(out) : out'[k] = out[k]
    BY <2>2, <2>3, <2>5, Zenon DEF Concatenated
  <2>7. out'[Len(out) + 1] = 1
    BY <2>2, <2>3, <2>4, Zenon DEF Concatenated
  <2>8. /\ Len(out') - 1 = Len(e) + 1 /\ Len(out') = Len(e) + 2
        /\ Len(out') - 2 = Len(out) + 1
        /\ cmdAt \in Nat /\ cmdAt <= Len(out) /\ Len(out') >= Len(out)
    BY <1>2, <2>2, <2>4
  <2>9. out'[Len(out') - 1] = 0 /\ out'[Len(out')] = 0
    BY <2>3, <2>8, Zenon DEF Concatenated
  <2>10. Carried(out, cmdAt, 8, out', cmdAt', 8, input)
    <3>1. Carried(out, cmdAt, 8, out', Len(out) + 1, 8, input)
      BY <1>2, <2>6, <2>8, OpenedTokens, Zenon
    <3>2. QED
      BY <2>1, <3>1, Zenon
  <2>11. Chain(S, out', input, cmdAt', 8, last)
    <3>1. Chain(S, out, input, cmdAt, 8, last)
      BY <1>4, <2>1
    <3>2. QED
      BY <2>10, <3>1, CarriedChain
  <2>12. /\ last.pos = ahead /\ last.bit = 0 /\ CmdOf(last) = cmdAt'
         /\ DataOf(last) = Len(out') - 2
    BY <1>4, <1>5, <2>1, <2>8 DEF CmdOf, DataOf
  <2>13. Bit(1, 0) = 1
    BY RightIs DEF Bit
  <2>14. cmdAt' > 0
    BY <1>2, <2>1
  <2>15. QED
    BY <1>1, <2>1, <2>7, <2>9, <2>11, <2>12, <2>13, <2>14, EndTrace
<1>6. CASE put # 0
  <2> DEFINE y == (out[cmdAt] \div 2) + 128
             v == Right(y, 7 - put)
  <2>1. Shifted = put /\ cmdAt' = cmdAt
        /\ out' = [out EXCEPT ![cmdAt] = v] \o <<0, 0>>
    BY <1>1, <1>6 DEF Shifted, Terminate, LastCommand, Right
  <2>2. put \in 1 .. 7 /\ cmdAt \in 1 .. Len(out) /\ 7 - put \in 0 .. 6
        /\ 7 - put \in 0 .. 7 /\ put \in 0 .. 7 - (7 - put)
        /\ put + (7 - put) = 7
    BY <1>2, <1>6 DEF CompressInv, TokenType
  <2>3. out[cmdAt] \in 0 .. 255
    BY <1>2, <2>2, LenOctets
  <2>4. y \in 0 .. 255 /\ Bit(y, 7) = 1
    <3>1. 128 \div 128 = 1 /\ 128 \in {0, 128}
      OBVIOUS
    <3>2. QED
      BY <2>3, <3>1, BitsPushed
  <2>5. v \in 0 .. 255 /\ Bit(v, put) = 1
    <3> HIDE DEF y
    <3>1. v \in 0 .. 255
      BY <2>2, <2>4, RightHalf
    <3>2. Bit(v, put) = Bit(y, put + (7 - put))
      BY <2>2, <2>4, BitsMoved
    <3>3. QED
      BY <2>2, <2>4, <3>1, <3>2, Zenon
  <2>6. BytesAdded(out, out', cmdAt, v, 0, 0)
    <3> HIDE DEF v
    <3>1. BytesAdded(out, [out EXCEPT ![cmdAt] = v] \o <<0, 0>>, cmdAt, v, 0, 0)
      <4>1. 0 \in 0 .. 255
        OBVIOUS
      <4>2. QED
        BY <1>2, <2>2, <2>5, <4>1, WrittenBytes, Zenon
    <3>2. QED
      BY <2>1, <3>1, Zenon
  <2> HIDE DEF y, v
  <2>7. /\ Len(out') = Len(out) + 2 /\ Agree(out, out', cmdAt)
        /\ out'[cmdAt] = v
        /\ out'[Len(out) + 1] = 0 /\ out'[Len(out) + 2] = 0
    BY <2>6, Zenon DEF BytesAdded
  <2>8. /\ Len(out') - 1 = Len(out) + 1 /\ Len(out') - 2 = Len(out)
        /\ Len(out') >= Len(out)
    BY <1>2, <2>7
  <2>9. Carried(out, cmdAt, put, out', cmdAt, 8, input)
    <3>1. out'[cmdAt] = Right((out[cmdAt] \div 2) + 128, 7 - put)
      BY <2>7 DEF v, y
    <3>2. QED
      BY <1>2, <2>2, <2>7, <2>8, <3>1, ClosedTokens, Zenon
  <2>10. Chain(S, out', input, cmdAt', 8, last)
    <3>1. Chain(S, out, input, cmdAt, put, last)
      BY <1>4, <2>1
    <3>2. Chain(S, out', input, cmdAt, 8, last)
      BY <2>9, <3>1, CarriedChain
    <3>3. QED
      BY <2>1, <3>2
  <2>11. /\ last.pos = ahead /\ last.bit = put /\ CmdOf(last) = cmdAt'
         /\ DataOf(last) = Len(out') - 2
    BY <1>4, <1>6, <2>1, <2>8 DEF CmdOf, DataOf
  <2>12. out'[Len(out') - 1] = 0 /\ out'[Len(out')] = 0
    BY <2>7, <2>8, Zenon
  <2>13. Bit(out'[cmdAt'], last.bit) = 1
    BY <2>1, <2>5, <2>7, <2>11, Zenon
  <2>14. Chain(S, out', input', cmdAt', 8, last)
    BY <1>1, <2>10, Zenon
  <2>15. cmdAt' > 0
    BY <2>1, <2>2
  <2>16. QED
    BY <2>11, <2>12, <2>13, <2>14, <2>15, EndTrace
<1>7. QED
  BY <1>5, <1>6

----------------------------------------------------------------------------
(* Copies *)

\* Bytes that are each equal to the one a distance in front of them are a block
\* of the distance repeated.
LEMMA Periodic ==
    ASSUME NEW x, NEW i \in Nat, NEW d \in 0 .. i - 1, NEW count \in Nat,
           \A j \in 0 .. count - 1 : Repeats(x, d, i, j)
    PROVE  \A j \in 0 .. count - 1 : x[i - d + (j % (d + 1))] = x[i + j + 1]
<1> DEFINE m == d + 1
           P(j) == x[i - d + (j % m)] = x[i + j + 1]
           T == {j \in 0 .. count - 1 : ~P(j)}
<1>1. m \in Nat /\ m >= 1
  OBVIOUS
<1>2. ASSUME T # {}
      PROVE  FALSE
  <2>1. T \subseteq Nat
    OBVIOUS
  <2>2. PICK j \in T : \A k \in T : j <= k
    BY <1>2, <2>1, LeastNatural, Zenon
  <2>3. j \in 0 .. count - 1 /\ ~P(j)
    BY <2>2
  <2> HIDE DEF T
  <2>4. x[i - d + j] = x[i + j + 1]
    BY <2>3, Zenon DEF Repeats
  <2>5. CASE j < m
    <3>1. j % m = j
      BY <1>1, <2>3, <2>5
    <3>2. QED
      BY <2>3, <2>4, <3>1, Zenon
  <2>6. CASE j >= m
    <3> DEFINE h == j - m
    <3>1. h \in 0 .. count - 1 /\ ~(j <= h) /\ h \in Nat /\ h + m = j
          /\ i + h + 1 = i - d + j
      BY <1>1, <2>3, <2>6
    <3> HIDE DEF h, m
    <3>2. h \notin T
      BY <2>2, <3>1, Zenon
    <3>3. x[i - d + (h % m)] = x[i + h + 1]
      BY <3>1, <3>2, Zenon DEF T
    <3>4. (h + m) % m = h % m
      BY <1>1, <3>1, ModRepeats, Zenon
    <3>5. x[i - d + (j % m)] = x[i + j + 1]
      BY <2>4, <3>1, <3>3, <3>4
    <3>6. QED
      BY <2>3, <3>5, Zenon
  <2>7. QED
    BY <1>1, <2>3, <2>5, <2>6
<1>3. QED
  BY <1>2

\* A sequence is what another one begins with.
Begins(b, x) == Len(b) <= Len(x) /\ \A k \in 1 .. Len(b) : b[k] = x[k]

\* A copy from inside what is decoded, which may run into what it copies,
\* yields the next bytes of an input that repeats itself at that distance.
LEMMA CopiedBegins ==
    ASSUME NEW b \in Octets, NEW x \in Octets, NEW d \in 0 .. Len(b) - 1,
           NEW count \in Nat, Len(b) + count <= Len(x), Begins(b, x),
           \A j \in 0 .. count - 1 : Repeats(x, d, Len(b), j)
    PROVE  /\ Copied(b, d, count) \in Octets
           /\ Len(Copied(b, d, count)) = Len(b) + count
           /\ Begins(Copied(b, d, count), x)
<1> DEFINE i == Len(b)
           m == d + 1
           t == [k \in 1 .. count |-> b[i - d + ((k - 1) % m)]]
           r == Copied(b, d, count)
<1>1. i \in Nat /\ \A k \in 1 .. i : b[k] \in 0 .. 255
  BY LenOctets
<1>2. r = b \o t
  BY DEF Copied
<1>3. ASSUME NEW k \in 1 .. count
      PROVE  /\ b[i - d + ((k - 1) % m)] \in 0 .. 255
             /\ b[i - d + ((k - 1) % m)] = x[i + k]
  <2> DEFINE j == k - 1
             e == j % m
  <2>1. j \in 0 .. count - 1 /\ i + j + 1 = i + k /\ j \in Nat
    BY <1>1
  <2>2. x[i - d + (j % (d + 1))] = x[i + j + 1]
    <3> HIDE DEF j
    <3>1. QED
      BY <1>1, <2>1, Periodic, Zenon
  <2>3. e \in 0 .. d
    <3> HIDE DEF j
    <3>1. m \in Nat /\ m >= 1
      BY <1>1
    <3>2. e \in 0 .. m - 1
      <4> HIDE DEF m
      <4>1. QED
        BY <2>1, <3>1
    <3>3. QED
      BY <1>1, <3>2
  <2> HIDE DEF e
  <2>4. i - d + e \in 1 .. i
    BY <1>1, <2>3
  <2>5. b[i - d + e] = x[i - d + e] /\ b[i - d + e] \in 0 .. 255
    BY <1>1, <2>4, Zenon DEF Begins
  <2>6. QED
    BY <2>1, <2>2, <2>5 DEF e
<1> HIDE DEF r, m
<1>4. t \in Octets /\ Len(t) = count /\ \A k \in 1 .. count : t[k] = x[i + k]
  <2>1. t \in [1 .. count -> 0 .. 255]
    BY <1>3
  <2>2. t \in Seq(0 .. 255) /\ Len(t) = count
    BY <2>1
  <2>3. \A k \in 1 .. count : t[k] = x[i + k]
    BY <1>3
  <2>4. QED
    BY <2>2, <2>3 DEF Octets
<1> HIDE DEF t
<1>5. r \in Octets /\ Len(r) = i + count
  BY <1>2, <1>4, ConcatOctets
<1>6. ASSUME NEW k \in 1 .. i + count
      PROVE  r[k] = x[k]
  <2>1. r[k] = IF k <= i THEN b[k] ELSE t[k - i]
    BY <1>1, <1>2, <1>4, ConcatProperties DEF Octets
  <2>2. CASE k <= i
    <3>1. k \in 1 .. i
      BY <1>1, <2>2
    <3>2. QED
      BY <2>1, <2>2, <3>1 DEF Begins
  <2>3. CASE ~(k <= i)
    <3>1. k - i \in 1 .. count /\ i + (k - i) = k
      BY <1>1, <2>3
    <3>2. QED
      BY <1>4, <2>1, <2>3, <3>1
  <2>4. QED
    BY <2>2, <2>3
<1>7. Begins(r, x)
  BY <1>5, <1>6 DEF Begins
<1>8. QED
  BY <1>5, <1>7 DEF r

----------------------------------------------------------------------------
(* The steps of Uncompress *)

\* What Uncompress finds at the point p.
LEMMA DecoderReads ==
    ASSUME DecoderInv, out \in Octets, NEW p \in Points, DecoderAt(p),
           CmdOf(p) \in 1 .. Len(out)
    PROVE  /\ Read = DataOf(p)
           /\ Cmd = Right(out[CmdOf(p)], p.bit)
           /\ Cmd % 2 = Bit(out[CmdOf(p)], p.bit)
           /\ Cmd \in 0 .. 255
           /\ Cmd \div 2 = Right(out[CmdOf(p)], p.bit + 1)
           /\ Cmd \div 2 \in 0 .. 255
<1> DEFINE b == out[CmdOf(p)]
<1>1. b \in 0 .. 255
  BY LenOctets
<1>2. p.bit \in 0 .. 7 /\ p.from \in Nat
  BY PointType
<1>3. get = p.bit /\ from = p.from
  BY DEF DecoderAt
<1>4. Read = DataOf(p)
  BY <1>3 DEF Read, DataOf
<1>5. Cmd = Right(b, p.bit)
  <2>1. CASE p.bit = 0
    <3>1. Cmd = b
      BY <1>3, <2>1 DEF Cmd, CmdOf
    <3>2. Right(b, 0) = b
      BY <1>1, RightIs
    <3>3. QED
      BY <2>1, <3>1, <3>2
  <2>2. CASE p.bit # 0
    BY <1>3, <2>2 DEF Cmd, CmdOf, DecoderAt
  <2>3. QED
    BY <2>1, <2>2
<1> HIDE DEF b
<1>6. /\ Right(b, p.bit) \in 0 .. 255
      /\ Right(b, p.bit + 1) = Right(b, p.bit) \div 2
  BY <1>1, <1>2, RightHalf, Zenon
<1>7. \A c \in 0 .. 255 : c \div 2 \in 0 .. 255
  OBVIOUS
<1>8. /\ Cmd % 2 = Bit(b, p.bit) /\ Cmd \in 0 .. 255
      /\ Cmd \div 2 = Right(b, p.bit + 1) /\ Cmd \div 2 \in 0 .. 255
  BY <1>5, <1>6, <1>7, Zenon DEF Bit
<1>9. QED
  BY <1>4, <1>5, <1>8, Zenon DEF b

\* It moves to the point behind the token.
LEMMA DecoderMoves ==
    ASSUME DecoderInv, out \in Octets, NEW p \in Points, DecoderAt(p),
           CmdOf(p) \in 1 .. Len(out), NEW q \in Points,
           q.bit = (p.bit + 1) % 8, q.cmd = CmdOf(p),
           UNCHANGED out, from' = q.from, Len(back') = q.pos,
           cmd' = Cmd \div 2, get' = (get + 1) % 8
    PROVE  DecoderAt(q)' /\ cmd' \in 0 .. 255 /\ get' \in 0 .. 7
<1>1. p.bit \in 0 .. 7 /\ get = p.bit
  BY PointType DEF DecoderAt
<1>2. get' = q.bit /\ get' \in 0 .. 7 /\ (get' # 0 => get' = p.bit + 1)
  BY <1>1
<1>3. Cmd \div 2 = Right(out[CmdOf(p)], p.bit + 1) /\ Cmd \div 2 \in 0 .. 255
  BY DecoderReads
<1>4. get' # 0 => cmd' = Right(out'[q.cmd], get')
  BY <1>2, <1>3
<1>5. QED
  BY <1>2, <1>3, <1>4 DEF DecoderAt

\* The token q is behind the point p.
TokenAt(p, q) ==
    /\ q.bit = (p.bit + 1) % 8 /\ q.cmd = CmdOf(p) /\ q.from <= Len(out)
    /\ \/ Cmd % 2 = 0 /\ CodesByte(out, input, p, q)
       \/ Cmd % 2 = 1 /\ CodesCopy(out, input, p, q)

\* The end mark is there.
EndAt(p) ==
    /\ Cmd % 2 = 1 /\ CopyCount = 1
    /\ Len(back) = Len(input) /\ Read + 2 = Len(out)

\* There is a token behind every point but the last, and the end mark there.
LEMMA DecoderFinds ==
    ASSUME CompressInv, DecoderInv, pc = "uncompress",
           NEW S \in SUBSET Points, NEW last \in Points, Traced(S, last),
           NEW p \in S, DecoderAt(p)
    PROVE  /\ p \in Points /\ CmdOf(p) \in 1 .. Len(out)
           /\ EndAt(p) \/ \E q \in S : TokenAt(p, q)
<1>1. /\ out \in Octets /\ Len(out) \in Nat /\ cmdAt \in 0 .. Len(out)
      /\ p \in Points
  BY LenOctets DEF CompressInv, OutputType
<1>2. Chain(S, out, input, cmdAt, 8, last) /\ Stands(last)
  BY DEF Traced, Shifted
<1>3. CASE p = last
  <2>1. /\ p.pos = Len(input) /\ CmdOf(p) = cmdAt /\ cmdAt > 0
        /\ Bit(out[cmdAt], p.bit) = 1 /\ DataOf(p) = Len(out) - 2
        /\ out[Len(out)] = 0
    BY <1>2, <1>3 DEF Stands
  <2>2. CmdOf(p) \in 1 .. Len(out)
    BY <1>1, <2>1
  <2>3. Read = DataOf(p) /\ Cmd % 2 = 1
    BY <1>1, <2>1, <2>2, DecoderReads
  <2>4. Read + 2 = Len(out)
    BY <1>1, <2>1, <2>3
  <2>5. CopyCount = 1
    BY <2>1, <2>4 DEF CopyCount
  <2>6. Len(back) = Len(input)
    BY <2>1 DEF DecoderAt
  <2>7. QED
    BY <1>1, <2>2, <2>3, <2>4, <2>5, <2>6 DEF EndAt
<1>4. CASE p # last
  <2>1. PICK q \in S : Coded(out, input, cmdAt, 8, p, q)
    BY <1>2, <1>4, Zenon DEF Chain
  <2>2. /\ q.bit = (p.bit + 1) % 8 /\ q.cmd = CmdOf(p)
        /\ CmdOf(p) \in 1 .. cmdAt /\ q.from <= Len(out)
    BY <2>1 DEF Coded, Follows
  <2>3. CmdOf(p) \in 1 .. Len(out)
    BY <1>1, <2>2
  <2>4. Cmd % 2 = Bit(out[CmdOf(p)], p.bit)
    BY <1>1, <2>3, DecoderReads
  <2>5. Flag(out, cmdAt, 8, p) = Bit(out[CmdOf(p)], p.bit)
    <3>1. p.bit \in 0 .. 7
      BY <1>1, PointType
    <3>2. p.bit + 8 - 8 = p.bit
      BY <3>1
    <3>3. QED
      BY <3>2 DEF Flag
  <2>6. TokenAt(p, q)
    BY <2>1, <2>2, <2>4, <2>5, Zenon DEF TokenAt, Coded
  <2>7. QED
    BY <1>1, <2>3, <2>6
<1>5. QED
  BY <1>3, <1>4

\* A step of Uncompress over a token arrives at the next point of the chain.
LEMMA TokenRead ==
    ASSUME CompressInv, DecoderInv, pc = "uncompress",
           NEW S \in SUBSET Points, NEW last \in Points, Traced(S, last),
           NEW p \in S, DecoderAt(p), NEW q \in S, TokenAt(p, q),
           UNCHANGED <<pc, window, input, ahead, header, out, cmdAt, put,
                       pending, result>>,
           back' \in Octets, Begins(back', input), Len(back') = q.pos,
           from' = q.from, cmd' = Cmd \div 2, get' = (get + 1) % 8
    PROVE  RoundTripInv'
<1>1. /\ p \in Points /\ q \in Points /\ CmdOf(p) \in 1 .. Len(out)
      /\ out \in Octets /\ Len(out) \in Nat
  BY DecoderFinds, LenOctets DEF CompressInv, OutputType
<1>2. q.bit = (p.bit + 1) % 8 /\ q.cmd = CmdOf(p) /\ q.from <= Len(out)
  BY DEF TokenAt
<1>3. DecoderAt(q)' /\ cmd' \in 0 .. 255 /\ get' \in 0 .. 7
  BY <1>1, <1>2, DecoderMoves
<1>4. from' \in 0 .. Len(out')
  <2>1. q.from \in Nat
    BY <1>1, PointType
  <2>2. QED
    BY <1>1, <1>2, <2>1
<1>5. DecoderInv'
  BY <1>3, <1>4 DEF DecoderInv, NarrowWindow, Coding, Begins
<1>6. Traced(S, last)'
  <2>1. Shifted' = Shifted
    BY DEF Shifted
  <2>2. Chain(S, out', input', cmdAt', Shifted', last)
    BY <2>1 DEF Traced
  <2>3. Stands(last)'
    BY <2>1 DEF Traced, Stands
  <2>4. QED
    BY <1>3, <2>2, <2>3 DEF Traced
<1>7. TraceInv'
  BY <1>6, Zenon DEF TraceInv
<1>8. QED
  BY <1>5, <1>7 DEF RoundTripInv

\* Uncompress reads a byte where one was emitted.
LEMMA GetByteRoundTrip ==
    ASSUME CompressInv, RoundTripInv, GetByte
    PROVE  RoundTripInv'
<1>1. /\ pc = "uncompress" /\ Cmd % 2 = 0
      /\ UNCHANGED <<pc, window, input, ahead, header, out, cmdAt, put,
                     pending, result>>
      /\ back' = Append(back, out[Read + 1])
      /\ from' = Read + 1 /\ cmd' = Cmd \div 2 /\ get' = (get + 1) % 8
  BY DEF GetByte, caller, output
<1>2. DecoderInv /\ TraceInv
  BY DEF RoundTripInv
<1>3. PICK S \in SUBSET Points, last \in Points : Traced(S, last)
  BY <1>1, <1>2 DEF TraceInv, Coding
<1>4. PICK p \in S : DecoderAt(p)
  BY <1>1, <1>3 DEF Traced
<1>5. /\ p \in Points /\ CmdOf(p) \in 1 .. Len(out)
      /\ EndAt(p) \/ \E q \in S : TokenAt(p, q)
  BY <1>1, <1>2, <1>3, <1>4, DecoderFinds
<1>6. PICK q \in S : TokenAt(p, q)
  BY <1>1, <1>5 DEF EndAt
<1>7. CodesByte(out, input, p, q)
  BY <1>1, <1>6 DEF TokenAt
<1>8. /\ back \in Octets /\ Begins(back, input) /\ Len(back) = p.pos
      /\ Len(back) \in Nat /\ input \in Octets /\ out \in Octets
  BY <1>2, <1>4, LenOctets DEF DecoderInv, DecoderAt, Begins, CompressInv,
     CallerType, OutputType
<1>9. Read = DataOf(p)
  BY <1>2, <1>4, <1>5, <1>8, DecoderReads
<1> DEFINE x == out[Read + 1]
<1>10. /\ q.from = Read + 1 /\ q.pos = Len(back) + 1 /\ q.pos <= Len(input)
       /\ x = input[Len(back) + 1]
  BY <1>7, <1>8, <1>9 DEF CodesByte
<1>11. x \in 0 .. 255 /\ Len(input) \in Nat
  <2>1. Len(input) \in Nat /\ \A k \in 1 .. Len(input) : input[k] \in 0 .. 255
    BY <1>8, LenOctets
  <2>2. Len(back) + 1 \in 1 .. Len(input)
    BY <1>8, <1>10, <2>1
  <2>3. QED
    BY <1>10, <2>1, <2>2
<1>12. back' = Append(back, x)
  BY <1>1
<1> HIDE DEF x
<1>13. back' \in Octets /\ Len(back') = Len(back) + 1
       /\ back'[Len(back) + 1] = x
       /\ \A k \in 1 .. Len(back) : back'[k] = back[k]
  BY <1>8, <1>11, <1>12, AppendOctets, AppendAt
<1>14. Begins(back', input)
  <2>1. ASSUME NEW k \in 1 .. Len(back) + 1
        PROVE  back'[k] = input[k]
    <3>1. CASE k = Len(back) + 1
      BY <1>10, <1>13, <3>1
    <3>2. CASE k # Len(back) + 1
      <4>1. k \in 1 .. Len(back)
        BY <1>8, <3>2
      <4>2. QED
        BY <1>8, <1>13, <4>1 DEF Begins
    <3>3. QED
      BY <3>1, <3>2
  <2>2. QED
    BY <1>10, <1>13, <2>1 DEF Begins
<1>15. from' = q.from /\ Len(back') = q.pos
  BY <1>1, <1>10, <1>13
<1>16. QED
  BY <1>1, <1>2, <1>3, <1>4, <1>6, <1>13, <1>14, <1>15, TokenRead

\* Uncompress reads a copy where one was emitted.
LEMMA GetCopyRoundTrip ==
    ASSUME CompressInv, RoundTripInv, GetCopy
    PROVE  RoundTripInv'
<1>1. /\ pc = "uncompress" /\ Cmd % 2 = 1 /\ CopyCount > 1
      /\ UNCHANGED <<pc, window, input, ahead, header, out, cmdAt, put,
                     pending, result>>
      /\ back' = Copied(back, CopyPosition, CopyCount)
      /\ from' = Read + 2 /\ cmd' = Cmd \div 2 /\ get' = (get + 1) % 8
  BY DEF GetCopy, caller, output
<1>2. DecoderInv /\ TraceInv
  BY DEF RoundTripInv
<1>3. PICK S \in SUBSET Points, last \in Points : Traced(S, last)
  BY <1>1, <1>2 DEF TraceInv, Coding
<1>4. PICK p \in S : DecoderAt(p)
  BY <1>1, <1>3 DEF Traced
<1>5. /\ p \in Points /\ CmdOf(p) \in 1 .. Len(out)
      /\ EndAt(p) \/ \E q \in S : TokenAt(p, q)
  BY <1>1, <1>2, <1>3, <1>4, DecoderFinds
<1>6. PICK q \in S : TokenAt(p, q)
  BY <1>1, <1>5 DEF EndAt
<1>7. CodesCopy(out, input, p, q)
  BY <1>1, <1>6 DEF TokenAt
<1>8. /\ back \in Octets /\ Begins(back, input) /\ Len(back) = p.pos
      /\ Len(back) \in Nat /\ input \in Octets /\ out \in Octets
  BY <1>2, <1>4, LenOctets DEF DecoderInv, DecoderAt, Begins, CompressInv,
     CallerType, OutputType
<1>9. Read = DataOf(p)
  BY <1>2, <1>4, <1>5, <1>8, DecoderReads
<1>10. PICK d \in 0 .. p.pos - 1, count \in 3 .. 16 :
          /\ out[DataOf(p) + 1] * 16 + (out[DataOf(p) + 2] \div 16) = d
          /\ (out[DataOf(p) + 2] % 16) + 1 = count
          /\ q.from = DataOf(p) + 2
          /\ q.pos = p.pos + count
          /\ q.pos <= Len(input)
          /\ \A j \in 0 .. count - 1 : Repeats(input, d, p.pos, j)
  BY <1>7, Zenon DEF CodesCopy
<1>11. CopyPosition = d /\ CopyCount = count
  BY <1>9, <1>10 DEF CopyPosition, CopyCount
<1>12. /\ d \in 0 .. Len(back) - 1 /\ count \in Nat
       /\ Len(back) + count <= Len(input)
       /\ \A j \in 0 .. count - 1 : Repeats(input, d, Len(back), j)
  BY <1>8, <1>10
<1>13. /\ Copied(back, d, count) \in Octets
       /\ Len(Copied(back, d, count)) = Len(back) + count
       /\ Begins(Copied(back, d, count), input)
  BY <1>8, <1>12, CopiedBegins, Zenon
<1>14. back' \in Octets /\ Len(back') = q.pos /\ Begins(back', input)
       /\ from' = q.from
  BY <1>1, <1>8, <1>9, <1>10, <1>11, <1>13
<1>15. QED
  BY <1>1, <1>2, <1>3, <1>4, <1>6, <1>14, TokenRead

\* Two sequences as long as each other, one beginning with the other.
LEMMA WholeBegin ==
    ASSUME NEW b \in Octets, NEW x \in Octets, Begins(b, x), Len(b) = Len(x)
    PROVE  b = x
<1>1. b = [k \in 1 .. Len(b) |-> b[k]] /\ x = [k \in 1 .. Len(x) |-> x[k]]
  BY DEF Octets
<1>2. \A k \in 1 .. Len(b) : b[k] = x[k]
  BY DEF Begins
<1>3. [k \in 1 .. Len(b) |-> b[k]] = [k \in 1 .. Len(x) |-> x[k]]
  BY <1>2
<1>4. QED
  BY <1>1, <1>3, Zenon

\* Uncompress stops at the end, with all of the input.
LEMMA GetEndRoundTrip ==
    ASSUME CompressInv, RoundTripInv, GetEnd
    PROVE  RoundTripInv'
<1>1. /\ pc = "uncompress" /\ Cmd % 2 = 1 /\ CopyCount = 1 /\ pc' = "done"
      /\ UNCHANGED <<window, input, header, out, back>>
      /\ result' = IF Len(back) = header THEN Len(back) ELSE 0
      /\ from' = Read + 2 /\ cmd' = Cmd /\ get' = (get + 1) % 8
  BY DEF GetEnd, GetActualSize, caller, output
<1>2. DecoderInv /\ TraceInv
  BY DEF RoundTripInv
<1>3. PICK S \in SUBSET Points, last \in Points : Traced(S, last)
  BY <1>1, <1>2 DEF TraceInv, Coding
<1>4. PICK p \in S : DecoderAt(p)
  BY <1>1, <1>3 DEF Traced
<1>5. /\ p \in Points /\ CmdOf(p) \in 1 .. Len(out)
      /\ EndAt(p) \/ \E q \in S : TokenAt(p, q)
  BY <1>1, <1>2, <1>3, <1>4, DecoderFinds
<1>6. /\ back \in Octets /\ Begins(back, input) /\ get \in 0 .. 7
      /\ input \in Octets /\ out \in Octets /\ header = Len(input)
  BY <1>1, <1>2 DEF DecoderInv, Begins, CompressInv, CallerType, OutputType,
     Coding
<1>7. Read = DataOf(p) /\ Cmd \in 0 .. 255
  BY <1>2, <1>4, <1>5, <1>6, DecoderReads
<1>8. ASSUME NEW q \in S, TokenAt(p, q)
      PROVE  FALSE
  <2>1. CodesCopy(out, input, p, q)
    BY <1>1, <1>8 DEF TokenAt
  <2>2. PICK count \in 3 .. 16 : (out[DataOf(p) + 2] % 16) + 1 = count
    BY <2>1, Zenon DEF CodesCopy
  <2>3. CopyCount = count
    BY <1>7, <2>2 DEF CopyCount
  <2>4. QED
    BY <1>1, <2>3
<1>9. Len(back) = Len(input) /\ Read + 2 = Len(out)
  BY <1>5, <1>8, Zenon DEF EndAt
<1>10. back = input /\ Len(out) \in Nat /\ Len(input) \in Nat
  BY <1>6, <1>9, WholeBegin, LenOctets
<1>11. result' = Len(input) /\ from' = Len(out) /\ get' \in 0 .. 7
  BY <1>1, <1>6, <1>9
<1>12. DecoderInv'
  BY <1>1, <1>2, <1>6, <1>7, <1>9, <1>10, <1>11
     DEF DecoderInv, NarrowWindow, Coding
<1>13. TraceInv'
  BY <1>1 DEF TraceInv, Coding
<1>14. QED
  BY <1>12, <1>13 DEF RoundTripInv

\* A buffer that is not compressed has no chain to follow.
LEMMA UnrecognizedRoundTrip ==
    ASSUME RoundTripInv, Unrecognized
    PROVE  RoundTripInv'
<1>1. /\ pc = "abandoned" /\ pc' = "done" /\ header = 0 /\ result' = 0
      /\ UNCHANGED <<window, input, header, out, from, cmd, get, back>>
  BY DEF Unrecognized, GetActualSize, caller, output
<1>2. DecoderInv
  BY DEF RoundTripInv
<1>3. DecoderInv'
  BY <1>1, <1>2 DEF DecoderInv, NarrowWindow, Coding
<1>4. TraceInv'
  BY <1>1 DEF TraceInv, Coding
<1>5. QED
  BY <1>3, <1>4 DEF RoundTripInv

----------------------------------------------------------------------------
(* The theorems *)

\* Every step keeps the invariant of the round trip.
LEMMA NextRoundTrip ==
    CompressInv /\ CompressInv' /\ LongestMatch /\ RoundTripInv /\ [Next]_vars
        => RoundTripInv'
<1> SUFFICES ASSUME CompressInv, CompressInv', LongestMatch, RoundTripInv,
                    [Next]_vars
             PROVE  RoundTripInv'
  OBVIOUS
<1>1. DecoderInv /\ TraceInv /\ NarrowWindow
  BY DEF RoundTripInv, DecoderInv
<1>2. ASSUME NEW w \in WindowSizes, NEW x \in Inputs, NEW a \in Bases,
             Start(w, x, a)
      PROVE  RoundTripInv'
  BY <1>1, <1>2, StartDecoder, StartTrace DEF RoundTripInv
<1>3. CASE Compress
  <2>1. DecoderInv'
    BY <1>1, <1>3, CompressDecoder
  <2>2. TraceInv'
    BY <1>1, <1>3, BeginTokenTrace, SilentTrace, EmitByteTrace, EmitCopyTrace,
       TerminateTrace DEF Compress
  <2>3. QED
    BY <2>1, <2>2 DEF RoundTripInv
<1>4. CASE Uncompress
  BY <1>4, GetByteRoundTrip, GetCopyRoundTrip, GetEndRoundTrip,
     UnrecognizedRoundTrip DEF Uncompress
<1>5. CASE UNCHANGED vars
  <2>1. UNCHANGED <<pc, window, input, ahead, header, out, cmdAt, put, pending,
                    from, cmd, get, back, result>>
    BY <1>5, Zenon DEF vars, caller, output, decoder
  <2>2. DecoderInv'
    BY <1>1, <2>1 DEF DecoderInv, NarrowWindow
  <2>3. TraceInv'
    <3>1. CASE pc \in Coding
      BY <1>1, <2>1, <3>1, SameTrace
    <3>2. CASE pc \notin Coding
      BY <2>1, <3>2 DEF TraceInv
    <3>3. QED
      BY <3>1, <3>2
  <2>4. QED
    BY <2>2, <2>3 DEF RoundTripInv
<1>6. QED
  BY <1>2, <1>3, <1>4, <1>5 DEF Next

\* The bytes Compress has written are a chain of tokens that stand for the input
\* in front of its look-ahead, and Uncompress is always between two of them.
THEOREM LzssRoundTripInvariant == Spec => []RoundTripInv
<1>1. QED
  BY InitRoundTrip, NextRoundTrip, LzssInvariant, LzssLongestMatch, PTL DEF Spec

\* RoundTrip: Uncompress writes a prefix of what Compress was given, in the end
\* all of it, and returns 0 only if Compress gave up.
THEOREM LzssRoundTrip == Spec => []RoundTrip
<1>1. RoundTripInv => RoundTrip
  BY DEF RoundTripInv, DecoderInv, RoundTrip
<1>2. QED
  BY <1>1, LzssRoundTripInvariant, PTL

\* TypeOK: everything written is a byte, the cursors of both directions stay in
\* their buffers, and Uncompress reads nothing behind the output.
THEOREM LzssTypeOK == Spec => []TypeOK
<1>1. CompressInv /\ RoundTripInv => TypeOK
  <2> SUFFICES ASSUME CompressInv, RoundTripInv PROVE TypeOK
    OBVIOUS
  <2>1. Len(input) \in Nat /\ Len(out) \in Nat
    BY LenOctets DEF CompressInv, CallerType, OutputType
  <2>2. /\ pc \in {"idle", "loop", "search", "hash", "uncompress", "abandoned",
                   "done"}
        /\ ahead \in 0 .. Len(input)
        /\ out \in Seq(0 .. 255) /\ cmdAt \in 0 .. Len(out) /\ put \in 0 .. 7
    BY DEF CompressInv, CallerType, OutputType, Octets
  <2>3. /\ node \in 0 .. window - 1 \cup {None}
        /\ encLen \in 0 .. LookAhead /\ encPos \in -1 .. Len(input) - 1
        /\ pending \in 0 .. LookAhead
    BY DEF CompressInv, TokenType, NodeRef
  <2>4. /\ header \in {0, Len(input)}
        /\ from \in 0 .. Len(out) /\ cmd \in 0 .. 255 /\ get \in 0 .. 7
        /\ back \in Seq(0 .. 255)
    BY DEF RoundTripInv, DecoderInv, Octets
  <2>5. result \in -1 .. Len(input)
    BY <2>1 DEF RoundTripInv, DecoderInv
  <2>6. QED
    BY <2>2, <2>3, <2>4, <2>5 DEF TypeOK
<1>2. QED
  BY <1>1, LzssInvariant, LzssRoundTripInvariant, PTL
============================================================================
