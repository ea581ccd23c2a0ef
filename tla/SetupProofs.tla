---------------------------- MODULE SetupProofs ----------------------------
(***************************************************************************)
(* Proofs about Setup, for every machine, every dialogue and every number  *)
(* of starts: whatever is in the file when a process ends, the next one    *)
(* finds the two numbers in their places.                                  *)
(***************************************************************************)
EXTENDS Setup, SequenceTheorems, WellFoundedInduction, TLAPS

----------------------------------------------------------------------------
(* Bytes and delimiters *)

Octets == Seq(0 .. 255)

Below == {ss \in Nat \X Nat : ss[1] < ss[2]}

\* Every nonempty set of naturals has a least element.
LEMMA LeastNatural ==
    ASSUME NEW T, T \subseteq Nat, T # {}
    PROVE  \E x \in T : \A y \in T : x <= y
<1>1. IsWellFoundedOn(Below, Nat)
  BY NatLessThanWellFounded, Zenon DEF OpToRel, Below
<1>2. \A x, y \in Nat : ~(<<x, y>> \in Below) => y <= x
  BY DEF Below
<1>3. PICK x \in T : \A y \in T : ~(<<y, x>> \in Below)
  BY <1>1, WFMin, Zenon
<1>4. ASSUME NEW y \in T
      PROVE  x <= y
  <2>1. x \in Nat /\ y \in Nat
    OBVIOUS
  <2>2. QED
    BY <1>2, <1>3, <2>1, Zenon
<1>5. QED
  BY <1>4

\* A delimiter that is found lies behind the place where the search starts.
LEMMA NextBarFound ==
    ASSUME NEW c, Len(c) \in Nat, NEW i \in Nat, NextBar(c, i) >= 0
    PROVE  NextBar(c, i) \in i .. Len(c) - 1
<1> DEFINE bars == {k \in i .. Len(c) - 1 : c[k + 1] = Bar}
<1>1. bars # {}
  <2>1. bars = {} => NextBar(c, i) = -1
    BY DEF NextBar
  <2>2. QED
    BY <2>1
<1>2. bars \subseteq Nat
  OBVIOUS
<1>3. \E k \in bars : \A j \in bars : k <= j
  BY <1>1, <1>2, LeastNatural, Zenon
<1>4. NextBar(c, i) = CHOOSE k \in bars : \A j \in bars : k <= j
  BY <1>1, Zenon DEF NextBar
<1>5. NextBar(c, i) \in bars
  <2> HIDE DEF bars
  <2>1. QED
    BY <1>3, <1>4, Zenon
<1>6. QED
  BY <1>5

\* The first delimiter is the one that is found.
LEMMA NextBarIs ==
    ASSUME NEW c, Len(c) \in Nat, NEW i \in Nat, NEW m \in i .. Len(c) - 1,
           c[m + 1] = Bar, \A j \in i .. m - 1 : c[j + 1] # Bar
    PROVE  NextBar(c, i) = m
<1> DEFINE bars == {k \in i .. Len(c) - 1 : c[k + 1] = Bar}
           Least(k) == k \in bars /\ \A j \in bars : k <= j
<1>1. m \in bars /\ \A j \in bars : m <= j
  OBVIOUS
<1>2. NextBar(c, i) = CHOOSE k \in bars : \A j \in bars : k <= j
  BY <1>1, Zenon DEF NextBar
<1>3. NextBar(c, i) \in bars /\ \A j \in bars : NextBar(c, i) <= j
  <2> HIDE DEF bars
  <2>1. QED
    BY <1>1, <1>2, Zenon
<1>4. QED
  BY <1>1, <1>3

\* The bytes of a device number.
LEMMA DeviceBytes ==
    ASSUME NEW n \in 1 .. 123
    PROVE  Bytes(n) = <<n, 0, 0, 0>>
<1>1. /\ n % 256 = n /\ (n \div 256) % 256 = 0
      /\ (n \div 65536) % 256 = 0 /\ (n \div 16777216) % 256 = 0
  OBVIOUS
<1>2. QED
  BY <1>1 DEF Bytes

\* The bytes of a port.
LEMMA PortBytes ==
    ASSUME NEW n \in Ports
    PROVE  /\ Bytes(n) = <<n % 256, n \div 256, 0, 0>>
           /\ n % 256 \in 0 .. 255 /\ n \div 256 \in 0 .. 255
           /\ n = (n % 256) + 256 * (n \div 256)
<1>1. /\ n \div 256 \in 0 .. 255 /\ n % 256 \in 0 .. 255
      /\ n = (n % 256) + 256 * (n \div 256)
  BY DEF Ports
<1>2. (n \div 256) % 256 = n \div 256
  BY <1>1
<1>3. n \div 65536 = 0
  BY DEF Ports
<1>4. n \div 16777216 = 0
  <2>1. n \div 16777216 \in Int /\ n \div 16777216 >= 0
    BY DEF Ports
  <2>2. n \div 16777216 < 1
    BY DEF Ports
  <2>3. QED
    BY <2>1, <2>2
<1>5. 0 % 256 = 0
  OBVIOUS
<1>6. QED
  BY <1>1, <1>2, <1>3, <1>4, <1>5 DEF Bytes

\* The ports are the values of an unsigned short.
LEMMA PortsAre == \A n \in Int : n \in Ports <=> 0 <= n /\ n <= 65535
BY DEF Ports

\* An int stored where an unsigned short is declared.
LEMMA CutToPort ==
    ASSUME NEW n \in Int
    PROVE  n % 65536 \in Ports
<1>1. n % 65536 \in Int /\ 0 <= n % 65536 /\ n % 65536 <= 65535
  BY SMT
<1>2. QED
  BY <1>1, PortsAre, SMT

\* Two bytes make a port.
LEMMA TwoBytes ==
    ASSUME NEW x \in 0 .. 255, NEW y \in 0 .. 255
    PROVE  x + 256 * y \in Ports
<1>1. x + 256 * y \in Int /\ 0 <= x + 256 * y /\ x + 256 * y <= 65535
  BY SMT
<1>2. QED
  BY <1>1, PortsAre, SMT

\* A number of two bytes.
LEMMA NumberOf ==
    ASSUME NEW b, b[1] \in Int, b[2] \in Int, b[3] = 0, b[4] = 0
    PROVE  Number(b) = b[1] + 256 * b[2]
BY DEF Number

\* A concatenation and a part of a sequence of bytes, place by place.
LEMMA ConcatOctets ==
    ASSUME NEW s \in Octets, NEW t \in Octets
    PROVE  /\ s \o t \in Octets
           /\ Len(s \o t) = Len(s) + Len(t)
           /\ Len(s) \in Nat /\ Len(t) \in Nat
           /\ \A k \in 1 .. Len(s) : (s \o t)[k] = s[k]
           /\ \A k \in Len(s) + 1 .. Len(s) + Len(t) :
                 (s \o t)[k] = t[k - Len(s)]
<1>1. Len(s) \in Nat /\ Len(t) \in Nat
  BY LenProperties DEF Octets
<1>2. /\ s \o t \in Octets
      /\ Len(s \o t) = Len(s) + Len(t)
      /\ \A i \in 1 .. Len(s) + Len(t) :
            (s \o t)[i] = IF i <= Len(s) THEN s[i] ELSE t[i - Len(s)]
  BY ConcatProperties DEF Octets
<1>3. QED
  BY <1>1, <1>2

\* So is a function on an initial part of the positive numbers.
LEMMA FcnOctets ==
    ASSUME NEW n \in Nat, NEW f \in [1 .. n -> 0 .. 255]
    PROVE  f \in Octets /\ Len(f) = n
BY DEF Octets

\* A part of a string of bytes.
LEMMA PartOfOctets ==
    ASSUME NEW s \in Octets, NEW m \in 1 .. Len(s) + 1, NEW n \in Int,
           n <= Len(s)
    PROVE  /\ SubSeq(s, m, n) \in Octets
           /\ Len(SubSeq(s, m, n)) = IF m <= n THEN n - m + 1 ELSE 0
           /\ \A k \in 1 .. n - m + 1 : SubSeq(s, m, n)[k] = s[m + k - 1]
<1>1. Len(s) \in Nat
  BY LenProperties DEF Octets
<1>2. \A k \in m .. n : s[k] \in 0 .. 255
  <2>1. \A k \in m .. n : k \in 1 .. Len(s)
    BY <1>1
  <2>2. QED
    BY <2>1, ElementOfSeq DEF Octets
<1>3. m \in Int
  BY <1>1
<1>4. QED
  BY <1>2, <1>3, SubSeqProperties DEF Octets

----------------------------------------------------------------------------
(* The invariant *)

\* A configuration with its two numbers: a device that is no '|', a delimiter,
\* and a port of two bytes.
Shape(c) ==
    /\ c \in Octets
    /\ Len(c) >= 9
    /\ c[1] \in 1 .. 123 /\ c[2] = 0 /\ c[3] = 0 /\ c[4] = 0
    /\ c[5] = Bar
    /\ c[8] = 0 /\ c[9] = 0

\* As long as the default one, and without a '|' in the port.
Clean(c) ==
    /\ Shape(c)
    /\ Len(c) = 19
    /\ c[6] # Bar /\ c[7] # Bar
    /\ c[10] = Bar

\* The places behind the dialogue's choice of a device, and behind the write
\* of the port.
HasDevice == {"choosePort", "device", "setPort", "setDevice", "save",
              "listening"}
HasPort == {"setDevice", "save", "listening"}

Holds(c, n) == c[6] = n % 256 /\ c[7] = n \div 256

SessionInv ==
    /\ pc \in {"off", "creating", "ask", "chooseDevice", "choosePort",
               "device", "setPort", "setDevice", "save", "listening", "fault"}
    /\ existed \in BOOLEAN /\ static \in BOOLEAN /\ unread \in BOOLEAN
    /\ lost \in BOOLEAN /\ barred \in BOOLEAN /\ cut \in BOOLEAN
    /\ devs \in DevCounts \cup {0} /\ dev \in Nat /\ port \in Ports

FileInv ==
    /\ file \in {Absent, << >>} \/ Shape(file)
    /\ ~barred => file \in {Absent, << >>} \/ Clean(file)
    /\ file = << >> => cut \/ pc = "creating"

ConfigInv ==
    /\ config = << >> \/ Shape(config)
    /\ ~barred => config = << >> \/ Clean(config)
    /\ config = << >> => cut \/ pc \in {"off", "creating"}
    /\ pc \in HasPort => config # << >>

StoredInv ==
    /\ pc \in HasDevice => dev \in 1 .. 123
    /\ pc \in HasPort /\ ~lost => Holds(config, port)
    /\ pc \in {"save", "listening"} /\ ~lost => config[1] = dev
    /\ pc = "listening" => Shape(file)
    /\ pc = "listening" /\ ~lost => file[1] = dev /\ Holds(file, port)

SetupInv == SessionInv /\ FileInv /\ ConfigInv /\ StoredInv /\ KnownFailures

----------------------------------------------------------------------------
(* What the lookups find, and what an edit leaves *)

\* In a configuration of this shape the lookups of both options end at their
\* values.
LEMMA ShapeLookups ==
    ASSUME NEW c, Shape(c)
    PROVE  /\ Len(c) \in Nat /\ Len(c) >= 9
           /\ \A k \in 1 .. Len(c) : c[k] \in 0 .. 255
           /\ NextBar(c, 0) = 4
           /\ IndexOf(c, DEVICE) = 0 /\ IndexOf(c, PORT) = 5
           /\ Readable(c, DEVICE) /\ Readable(c, PORT)
           /\ Editable(c, DEVICE)
<1>1. c \in Octets /\ Len(c) >= 9 /\ c[5] = Bar
      /\ c[1] \in 1 .. 123 /\ c[2] = 0 /\ c[3] = 0 /\ c[4] = 0
  BY DEF Shape
<1>2. Len(c) \in Nat
  BY <1>1, LenProperties DEF Octets
<1>3. \A k \in 1 .. Len(c) : c[k] \in 0 .. 255
  BY <1>1, ElementOfSeq DEF Octets
<1>4. NextBar(c, 0) = 4
  <2>1. 4 \in 0 .. Len(c) - 1 /\ c[4 + 1] = Bar
    BY <1>1, <1>2
  <2>2. ASSUME NEW j \in 0 .. 4 - 1
        PROVE  c[j + 1] # Bar
    <3>1. j + 1 \in {1, 2, 3, 4}
      BY <2>2
    <3>2. c[1] \in 1 .. 123 /\ c[2] = 0 /\ c[3] = 0 /\ c[4] = 0
      BY <1>1
    <3>3. c[j + 1] \in 0 .. 123
      BY <3>1, <3>2
    <3>4. QED
      BY <3>3 DEF Bar
  <2>3. QED
    BY <1>2, <2>1, <2>2, NextBarIs
<1>5. IndexOf(c, DEVICE) = 0 /\ IndexOf(c, PORT) = 5
  BY <1>4 DEF IndexOf, DEVICE, PORT
<1>6. Readable(c, DEVICE) /\ Readable(c, PORT)
  BY <1>1, <1>2, <1>4, <1>5 DEF Readable, DEVICE, PORT
<1>7. Editable(c, DEVICE)
  BY <1>4, <1>5, <1>6 DEF Editable
<1>8. QED
  BY <1>1, <1>2, <1>3, <1>4, <1>5, <1>6, <1>7

\* The values that are found there.
LEMMA ShapeValues ==
    ASSUME NEW c, Shape(c)
    PROVE  /\ get_config_value(c, DEVICE) = c[1]
           /\ get_config_value(c, PORT) = c[6] + 256 * c[7]
<1>1. c \in Octets /\ Len(c) >= 9
      /\ c[1] \in 1 .. 123 /\ c[2] = 0 /\ c[3] = 0 /\ c[4] = 0
      /\ c[8] = 0 /\ c[9] = 0
  BY DEF Shape
<1>2. Len(c) \in Nat /\ c[6] \in 0 .. 255 /\ c[7] \in 0 .. 255
      /\ IndexOf(c, DEVICE) = 0 /\ IndexOf(c, PORT) = 5
  BY ShapeLookups
<1>3. get_config_value(c, DEVICE) = c[1]
  <2> DEFINE s == SubSeq(c, 1, 4)
  <2>1. \A k \in 1 .. 4 - 1 + 1 : s[k] = c[1 + k - 1]
    BY <1>1, <1>2, PartOfOctets
  <2>2. s[1] = c[1] /\ s[2] = c[2] /\ s[3] = c[3] /\ s[4] = c[4]
    BY <2>1
  <2>3. get_config_value(c, DEVICE) = Number(s)
    BY <1>2 DEF get_config_value
  <2> HIDE DEF s
  <2>4. QED
    <3>1. s[1] \in 1 .. 123 /\ s[2] = 0 /\ s[3] = 0 /\ s[4] = 0
      BY <1>1, <2>2
    <3>2. Number(s) = s[1]
      BY <3>1 DEF Number
    <3>3. QED
      BY <2>2, <2>3, <3>2
<1>4. get_config_value(c, PORT) = c[6] + 256 * c[7]
  <2> DEFINE s == SubSeq(c, 6, 9)
  <2>1. \A k \in 1 .. 9 - 6 + 1 : s[k] = c[6 + k - 1]
    BY <1>1, <1>2, PartOfOctets
  <2>2. s[1] = c[6] /\ s[2] = c[7] /\ s[3] = c[8] /\ s[4] = c[9]
    BY <2>1
  <2>3. get_config_value(c, PORT) = Number(s)
    BY <1>2 DEF get_config_value
  <2> HIDE DEF s
  <2>4. QED
    <3>1. s[1] \in 0 .. 255 /\ s[2] \in 0 .. 255 /\ s[3] = 0 /\ s[4] = 0
      BY <1>1, <1>2, <2>2
    <3>2. Number(s) = s[1] + 256 * s[2]
      <4>1. s[1] \in Int /\ s[2] \in Int
        BY <3>1
      <4>2. QED
        BY <3>1, <4>1, NumberOf
    <3>3. QED
      BY <2>2, <2>3, <3>2
<1>5. QED
  BY <1>3, <1>4

\* Without a '|' in the port the delimiter behind it is the next one.
LEMMA CleanLookups ==
    ASSUME NEW c, Clean(c)
    PROVE  NextBar(c, 5) = 9 /\ Editable(c, PORT)
<1>1. Shape(c) /\ Len(c) = 19 /\ c[6] # Bar /\ c[7] # Bar /\ c[10] = Bar
      /\ c[8] = 0 /\ c[9] = 0
  BY DEF Clean, Shape
<1>2. NextBar(c, 5) = 9
  <2>1. 9 \in 5 .. Len(c) - 1 /\ c[9 + 1] = Bar /\ Len(c) \in Nat
    BY <1>1
  <2>2. ASSUME NEW j \in 5 .. 9 - 1
        PROVE  c[j + 1] # Bar
    <3>1. j + 1 \in {6, 7, 8, 9}
      BY <2>2
    <3>2. c[8] # Bar /\ c[9] # Bar
      BY <1>1 DEF Bar
    <3>3. QED
      BY <1>1, <3>1, <3>2
  <2>3. QED
    BY <2>1, <2>2, NextBarIs
<1>3. Editable(c, PORT)
  BY <1>1, <1>2, ShapeLookups DEF Editable
<1>4. QED
  BY <1>2, <1>3

\* An edit of the port leaves the device and the delimiter, and puts the new
\* bytes behind them, wherever the delimiter behind the old ones was found.
LEMMA EditPort ==
    ASSUME NEW c, Shape(c), Editable(c, PORT),
           NEW block \in Octets, Len(block) = Len(c),
           NEW b \in Octets, Len(b) = 4
    PROVE  LET e == Edited(c, block, PORT, b)
               d == NextBar(c, 5)
           IN  /\ d \in 5 .. Len(c) - 1
               /\ e \in Octets
               /\ Len(e) = 9 + Len(c) - d
               /\ \A k \in 1 .. 5 : e[k] = c[k]
               /\ \A k \in 6 .. 9 : e[k] = b[k - 5]
               /\ \A k \in 10 .. Len(e) :
                     d >= 9 => e[k] = block[k + d - 9]
<1> DEFINE d == NextBar(c, 5)
           written == [k \in 1 .. Len(c) |->
                         IF k \in 5 + 1 .. 5 + 4 THEN b[k - 5] ELSE block[k]]
           front == SubSeq(c, 1, 5)
           back == SubSeq(written, d + 1, Len(c))
           e == front \o b \o back
<1>1. c \in Octets /\ Len(c) \in Nat /\ Len(c) >= 9 /\ IndexOf(c, PORT) = 5
  BY ShapeLookups DEF Shape
<1>2. d \in 5 .. Len(c) - 1
  BY <1>1, NextBarFound DEF Editable
<1>3. Edited(c, block, PORT, b) = e
  BY <1>1 DEF Edited
<1>4. written \in Octets /\ Len(written) = Len(c)
  <2>1. \A k \in 1 .. Len(c) : block[k] \in 0 .. 255
    BY ElementOfSeq DEF Octets
  <2>2. \A k \in 1 .. 4 : b[k] \in 0 .. 255
    BY ElementOfSeq DEF Octets
  <2>3. ASSUME NEW k \in 1 .. Len(c)
        PROVE  written[k] \in 0 .. 255
    <3>1. CASE k \in 5 + 1 .. 5 + 4
      <4>1. k - 5 \in 1 .. 4
        BY <3>1
      <4>2. written[k] = b[k - 5]
        BY <3>1
      <4> HIDE DEF written
      <4>3. QED
        BY <2>2, <4>1, <4>2
    <3>2. CASE k \notin 5 + 1 .. 5 + 4
      BY <2>1, <3>2
    <3>3. QED
      BY <3>1, <3>2
  <2>4. written \in [1 .. Len(c) -> 0 .. 255]
    <3>1. DOMAIN written = 1 .. Len(c)
          /\ written = [k \in DOMAIN written |-> written[k]]
      OBVIOUS
    <3> HIDE DEF written
    <3>2. QED
      BY <2>3, <3>1
  <2> HIDE DEF written
  <2>5. QED
    BY <1>1, <2>4, FcnOctets
<1>5. front \in Octets /\ Len(front) = 5 /\ \A k \in 1 .. 5 : front[k] = c[k]
  <2>1. /\ front \in Octets
        /\ Len(front) = IF 1 <= 5 THEN 5 - 1 + 1 ELSE 0
        /\ \A k \in 1 .. 5 - 1 + 1 : front[k] = c[1 + k - 1]
    BY <1>1, PartOfOctets
  <2> HIDE DEF front
  <2>2. QED
    BY <2>1
<1>6. /\ back \in Octets /\ Len(back) = Len(c) - d
      /\ \A k \in 1 .. Len(c) - d : back[k] = written[d + k]
  <2> DEFINE m == d + 1
             n == Len(c)
  <2>1. m \in 1 .. Len(written) + 1 /\ n \in Int /\ n <= Len(written)
    BY <1>1, <1>2, <1>4
  <2>2. /\ back \in Octets
        /\ Len(back) = IF m <= n THEN n - m + 1 ELSE 0
        /\ \A k \in 1 .. n - m + 1 : back[k] = written[m + k - 1]
    <3> HIDE DEF written, d, m, n
    <3>1. back = SubSeq(written, m, n)
      BY DEF m, n
    <3> DEFINE t == SubSeq(written, m, n)
    <3>2. /\ t \in Octets
          /\ Len(t) = IF m <= n THEN n - m + 1 ELSE 0
          /\ \A k \in 1 .. n - m + 1 : t[k] = written[m + k - 1]
      BY <1>4, <2>1, PartOfOctets
    <3> HIDE DEF back, t
    <3>3. QED
      BY <3>1, <3>2 DEF t
  <2> HIDE DEF back, written, d
  <2>3. m <= n /\ n - m + 1 = Len(c) - d
    BY <1>1, <1>2
  <2>4. ASSUME NEW k \in 1 .. Len(c) - d
        PROVE  back[k] = written[d + k]
    <3>1. m + k - 1 = d + k
      BY <1>1, <1>2
    <3>2. back[k] = written[m + k - 1]
      BY <2>2, <2>3
    <3>3. QED
      BY <3>1, <3>2
  <2>5. QED
    BY <2>2, <2>3, <2>4
<1>7. /\ front \o b \in Octets /\ Len(front \o b) = 9
      /\ \A k \in 1 .. 5 : (front \o b)[k] = c[k]
      /\ \A k \in 6 .. 9 : (front \o b)[k] = b[k - 5]
  <2> HIDE DEF front
  <2>1. /\ front \o b \in Octets /\ Len(front \o b) = Len(front) + Len(b)
        /\ \A k \in 1 .. Len(front) : (front \o b)[k] = front[k]
        /\ \A k \in Len(front) + 1 .. Len(front) + Len(b) :
              (front \o b)[k] = b[k - Len(front)]
    BY <1>5, ConcatOctets
  <2> DEFINE f == front \o b
  <2> HIDE DEF f
  <2>2. /\ f \in Octets /\ Len(f) = 5 + 4
        /\ \A k \in 1 .. 5 : f[k] = front[k]
        /\ \A k \in 5 + 1 .. 5 + 4 : f[k] = b[k - 5]
    BY <1>5, <2>1, Zenon DEF f
  <2>3. /\ f \in Octets /\ Len(f) = 9
        /\ \A k \in 1 .. 5 : f[k] = c[k]
        /\ \A k \in 6 .. 9 : f[k] = b[k - 5]
    BY <1>5, <2>2
  <2>4. QED
    BY <2>3, Zenon DEF f
<1>8. /\ e \in Octets /\ Len(e) = 9 + Len(c) - d
      /\ \A k \in 1 .. 9 : e[k] = (front \o b)[k]
      /\ \A k \in 10 .. Len(e) : e[k] = back[k - 9]
  <2> DEFINE f == front \o b
  <2>1. f \in Octets /\ Len(f) = 9 /\ back \in Octets /\ Len(back) = Len(c) - d
    BY <1>6, <1>7
  <2> HIDE DEF f, back, d
  <2>2. /\ f \o back \in Octets /\ Len(f \o back) = 9 + Len(c) - d
        /\ \A k \in 1 .. 9 : (f \o back)[k] = f[k]
        /\ \A k \in 10 .. 9 + (Len(c) - d) : (f \o back)[k] = back[k - 9]
    <3>1. /\ f \o back \in Octets /\ Len(f \o back) = Len(f) + Len(back)
          /\ \A k \in 1 .. Len(f) : (f \o back)[k] = f[k]
          /\ \A k \in Len(f) + 1 .. Len(f) + Len(back) :
                (f \o back)[k] = back[k - Len(f)]
      BY <2>1, ConcatOctets
    <3>2. QED
      BY <1>1, <1>2, <2>1, <3>1
  <2>3. 9 + (Len(c) - d) = 9 + Len(c) - d
    BY <1>1, <1>2
  <2>4. QED
    BY <2>2, <2>3 DEF f, back
<1>9. ASSUME NEW k \in 10 .. Len(e), d >= 9
      PROVE  e[k] = block[k + d - 9]
  <2> HIDE DEF e, back
  <2>1. e[k] = back[k - 9] /\ k - 9 \in 1 .. Len(c) - d
    BY <1>1, <1>2, <1>8, SMTT(60)
  <2>2. back[k - 9] = written[d + (k - 9)]
    BY <1>6, <2>1
  <2>3. d + (k - 9) = k + d - 9 /\ k + d - 9 \in 10 .. Len(c)
    BY <1>1, <1>2, <1>9, <2>1, SMTT(60)
  <2>4. written[k + d - 9] = block[k + d - 9]
    BY <2>3
  <2>5. QED
    BY <2>1, <2>2, <2>3, <2>4
<1>10. QED
  <2> HIDE DEF e, d
  <2>1. /\ \A k \in 1 .. 5 : e[k] = c[k]
        /\ \A k \in 6 .. 9 : e[k] = b[k - 5]
    BY <1>7, <1>8
  <2>2. QED
    BY <1>2, <1>3, <1>8, <1>9, <2>1 DEF d

\* An edit of the device changes the first four bytes.
LEMMA EditDevice ==
    ASSUME NEW c, Shape(c), NEW block \in Octets, Len(block) = Len(c),
           NEW b \in Octets, Len(b) = 4
    PROVE  LET e == Edited(c, block, DEVICE, b)
           IN  /\ e \in Octets
               /\ Len(e) = Len(c)
               /\ \A k \in 1 .. 4 : e[k] = b[k]
               /\ \A k \in 5 .. Len(c) : e[k] = block[k]
<1> DEFINE written == [k \in 1 .. Len(c) |->
                         IF k \in 0 + 1 .. 0 + 4 THEN b[k - 0] ELSE block[k]]
           front == SubSeq(c, 1, 0)
           back == SubSeq(written, 4 + 1, Len(c))
           e == front \o b \o back
<1>1. /\ c \in Octets /\ Len(c) \in Nat /\ Len(c) >= 9
      /\ IndexOf(c, DEVICE) = 0 /\ NextBar(c, 0) = 4
  BY ShapeLookups DEF Shape
<1>2. Edited(c, block, DEVICE, b) = e
  BY <1>1 DEF Edited
<1>3. written \in Octets /\ Len(written) = Len(c)
      /\ \A k \in 5 .. Len(c) : written[k] = block[k]
  <2>1. \A k \in 1 .. Len(c) : block[k] \in 0 .. 255
    BY ElementOfSeq DEF Octets
  <2>2. \A k \in 1 .. 4 : b[k] \in 0 .. 255
    BY ElementOfSeq DEF Octets
  <2>3. ASSUME NEW k \in 1 .. Len(c)
        PROVE  written[k] \in 0 .. 255
    <3>1. CASE k \in 0 + 1 .. 0 + 4
      <4>1. k - 0 \in 1 .. 4
        BY <3>1
      <4>2. written[k] = b[k - 0]
        BY <3>1
      <4> HIDE DEF written
      <4>3. QED
        BY <2>2, <4>1, <4>2
    <3>2. CASE k \notin 0 + 1 .. 0 + 4
      BY <2>1, <3>2
    <3>3. QED
      BY <3>1, <3>2
  <2>4. written \in [1 .. Len(c) -> 0 .. 255]
    <3>1. DOMAIN written = 1 .. Len(c)
          /\ written = [k \in DOMAIN written |-> written[k]]
      OBVIOUS
    <3> HIDE DEF written
    <3>2. QED
      BY <2>3, <3>1
  <2>5. \A k \in 5 .. Len(c) : written[k] = block[k]
    BY <1>1
  <2> HIDE DEF written
  <2>6. QED
    BY <1>1, <2>4, <2>5, FcnOctets, ZenonT(60)
<1>4. front = << >> /\ << >> \in Octets
  BY SubSeqEmpty, EmptySeq DEF Octets
<1>5. front \o b = b
  <2> HIDE DEF front
  <2>1. QED
    BY <1>4, ConcatEmptySeq DEF Octets
<1>6. /\ back \in Octets /\ Len(back) = Len(c) - 4
      /\ \A k \in 1 .. Len(c) - 4 : back[k] = block[k + 4]
  <2> DEFINE m == 4 + 1
             n == Len(c)
             t == SubSeq(written, m, n)
  <2>1. m \in 1 .. Len(written) + 1 /\ n \in Int /\ n <= Len(written)
    BY <1>1, <1>3
  <2>2. /\ t \in Octets
        /\ Len(t) = IF m <= n THEN n - m + 1 ELSE 0
        /\ \A k \in 1 .. n - m + 1 : t[k] = written[m + k - 1]
    <3> HIDE DEF written, m, n
    <3>1. QED
      BY <1>3, <2>1, PartOfOctets
  <2> HIDE DEF written, t
  <2>3. m <= n /\ n - m + 1 = Len(c) - 4
    BY <1>1
  <2>4. ASSUME NEW k \in 1 .. Len(c) - 4
        PROVE  t[k] = block[k + 4]
    <3>1. m + k - 1 = k + 4 /\ k + 4 \in 5 .. Len(c)
      BY <1>1
    <3>2. t[k] = written[m + k - 1]
      BY <2>2, <2>3
    <3>3. QED
      BY <1>3, <3>1, <3>2
  <2>5. QED
    BY <2>2, <2>3, <2>4 DEF t
<1>7. e = b \o back
  <2> HIDE DEF front, back
  <2>1. QED
    BY <1>5
<1> DEFINE g == b \o back
<1>8. /\ g \in Octets /\ Len(g) = Len(c)
      /\ \A k \in 1 .. 4 : g[k] = b[k]
      /\ \A k \in 5 .. Len(c) : g[k] = block[k]
  <2> HIDE DEF back
  <2>1. /\ g \in Octets /\ Len(g) = Len(b) + Len(back)
        /\ \A k \in 1 .. Len(b) : g[k] = b[k]
        /\ \A k \in Len(b) + 1 .. Len(b) + Len(back) :
              g[k] = back[k - Len(b)]
    BY <1>6, ConcatOctets
  <2> HIDE DEF g
  <2>2. ASSUME NEW k \in 5 .. Len(c)
        PROVE  g[k] = block[k]
    <3>1. k - 4 \in 1 .. Len(c) - 4 /\ (k - 4) + 4 = k
      BY <1>1
    <3>2. g[k] = back[k - 4]
      BY <1>1, <1>6, <2>1
    <3>3. QED
      BY <1>6, <3>1, <3>2
  <2>3. QED
    BY <1>1, <1>6, <2>1, <2>2
<1>9. QED
  <2> HIDE DEF e, g
  <2>1. Edited(c, block, DEVICE, b) = g
    BY <1>2, <1>7 DEF g
  <2>2. QED
    BY <1>8, <2>1

\* The block that a shrinking realloc leaves has the old size, and up to the
\* new one the old bytes.
LEMMA ShrunkBlock ==
    ASSUME NEW c \in Octets, NEW n, NEW block \in Shrunk(c, n)
    PROVE  /\ block \in Octets /\ Len(block) = Len(c)
           /\ \A k \in 1 .. Len(c) : k <= n => block[k] = c[k]
<1>1. Len(c) \in Nat /\ \A k \in 1 .. Len(c) : c[k] \in 0 .. 255
  BY LenProperties, ElementOfSeq DEF Octets
<1>2. CASE block = c
  BY <1>2
<1>3. CASE block = [k \in 1 .. Len(c) |-> IF k <= n THEN c[k] ELSE 0]
  <2>1. block \in [1 .. Len(c) -> 0 .. 255]
    <3>1. ASSUME NEW k \in 1 .. Len(c)
          PROVE  (IF k <= n THEN c[k] ELSE 0) \in 0 .. 255
      <4>1. CASE k <= n
        BY <1>1, <4>1
      <4>2. CASE ~(k <= n)
        BY <4>2
      <4>3. QED
        BY <4>1, <4>2
    <3>2. QED
      BY <1>3, <3>1, Zenon
  <2>2. QED
    BY <1>1, <1>3, <2>1, FcnOctets, ZenonT(60)
<1>4. QED
  BY <1>2, <1>3 DEF Shrunk

\* The block that a realloc has moved has the new size, and up to the smaller
\* one the old bytes: with nine of them it keeps the shape, and with as many
\* as before it is the old one.
LEMMA MovedBlock ==
    ASSUME NEW c, Shape(c), NEW n \in Nat, n >= 9, NEW junk \in {0, Bar}
    PROVE  /\ Shape(Moved(c, n, junk))
           /\ n = Len(c) /\ Clean(c) => Clean(Moved(c, n, junk))
<1> DEFINE t == Moved(c, n, junk)
<1>1. Len(c) \in Nat /\ Len(c) >= 9 /\ \A k \in 1 .. Len(c) : c[k] \in 0 .. 255
  BY ShapeLookups, Zenon
<1>2. junk \in 0 .. 255
  BY DEF Bar
<1>3. ASSUME NEW k \in 1 .. n
      PROVE  (IF k <= Len(c) THEN c[k] ELSE junk) \in 0 .. 255
  <2>1. CASE k <= Len(c)
    <3>1. k \in 1 .. Len(c)
      BY <1>1, <2>1
    <3>2. QED
      BY <1>1, <2>1, <3>1, Zenon
  <2>2. CASE ~(k <= Len(c))
    BY <1>2, <2>2, Zenon
  <2>3. QED
    BY <2>1, <2>2, Zenon
<1>4. t \in [1 .. n -> 0 .. 255]
  BY <1>3, Zenon DEF Moved
<1>5. \A k \in 1 .. n : k <= Len(c) => t[k] = c[k]
  BY Zenon DEF Moved
<1> HIDE DEF t
<1>6. t \in Octets /\ Len(t) = n
  BY <1>4, FcnOctets
<1>7. \A k \in 1 .. 9 : t[k] = c[k]
  BY <1>1, <1>5
<1>8. /\ t[1] = c[1] /\ t[2] = c[2] /\ t[3] = c[3] /\ t[4] = c[4]
      /\ t[5] = c[5] /\ t[6] = c[6] /\ t[7] = c[7] /\ t[8] = c[8]
      /\ t[9] = c[9]
  BY <1>7
<1>9. Shape(t)
  BY <1>6, <1>8, Zenon DEF Shape
<1>10. ASSUME n = Len(c), Clean(c)
       PROVE  Clean(t)
  <2>1. n = 19
    BY <1>10, Zenon DEF Clean
  <2>2. t[10] = c[10]
    BY <1>1, <1>5, <1>10, <2>1
  <2>3. QED
    BY <1>6, <1>8, <1>9, <1>10, <2>2, Zenon DEF Clean
<1>11. QED
  BY <1>9, <1>10, Zenon DEF t

----------------------------------------------------------------------------
(* set_config_value *)

\* The bytes of a port as a sequence.
LEMMA PortOctets ==
    ASSUME NEW n \in Ports
    PROVE  /\ Bytes(n) \in Octets /\ Len(Bytes(n)) = 4
           /\ Bytes(n)[1] = n % 256 /\ Bytes(n)[2] = n \div 256
           /\ Bytes(n)[3] = 0 /\ Bytes(n)[4] = 0
<1> DEFINE x == n % 256
           y == n \div 256
<1>1. Bytes(n) = <<x, y, 0, 0>> /\ x \in 0 .. 255 /\ y \in 0 .. 255
  <2>1. Bytes(n) = <<n % 256, n \div 256, 0, 0>>
    BY PortBytes
  <2>2. n % 256 \in 0 .. 255 /\ n \div 256 \in 0 .. 255
    BY PortBytes
  <2>3. QED
    BY <2>1, <2>2
<1> HIDE DEF x, y
<1>2. <<x, y, 0, 0>> \in Octets /\ Len(<<x, y, 0, 0>>) = 4
  BY <1>1 DEF Octets
<1>3. /\ <<x, y, 0, 0>>[1] = x /\ <<x, y, 0, 0>>[2] = y
      /\ <<x, y, 0, 0>>[3] = 0 /\ <<x, y, 0, 0>>[4] = 0
  OBVIOUS
<1>4. QED
  BY <1>1, <1>2, <1>3, Zenon DEF x, y

\* A port written into a configuration, whatever the block holds behind it.
LEMMA PortEdited ==
    ASSUME NEW c, Shape(c), Editable(c, PORT), NEW n \in Ports,
           NEW block \in Octets, Len(block) = Len(c)
    PROVE  /\ Shape(Edited(c, block, PORT, Bytes(n)))
           /\ Holds(Edited(c, block, PORT, Bytes(n)), n)
           /\ Clean(c) => Len(Edited(c, block, PORT, Bytes(n))) = 19
           /\ Clean(c) => Edited(c, block, PORT, Bytes(n))[10] = block[10]
<1> DEFINE b == Bytes(n)
           e == Edited(c, block, PORT, b)
           d == NextBar(c, 5)
<1>1. b \in Octets /\ Len(b) = 4
      /\ b[1] = n % 256 /\ b[2] = n \div 256 /\ b[3] = 0 /\ b[4] = 0
  BY PortOctets, ZenonT(60)
<1> HIDE DEF b
<1>2. /\ Len(c) \in Nat /\ Len(c) >= 9
      /\ c[1] \in 1 .. 123 /\ c[2] = 0 /\ c[3] = 0 /\ c[4] = 0 /\ c[5] = Bar
  BY ShapeLookups, Zenon DEF Shape
<1>3. /\ d \in 5 .. Len(c) - 1
      /\ e \in Octets
      /\ Len(e) = 9 + Len(c) - d
      /\ \A k \in 1 .. 5 : e[k] = c[k]
      /\ \A k \in 6 .. 9 : e[k] = b[k - 5]
      /\ \A k \in 10 .. Len(e) : d >= 9 => e[k] = block[k + d - 9]
  BY <1>1, EditPort, ZenonT(60)
<1> HIDE DEF e, d
<1>4. /\ e[1] = c[1] /\ e[2] = c[2] /\ e[3] = c[3] /\ e[4] = c[4]
      /\ e[5] = c[5]
  BY <1>3
<1>5. e[6] = b[1] /\ e[7] = b[2] /\ e[8] = b[3] /\ e[9] = b[4]
  <2>1. /\ e[6] = b[6 - 5] /\ e[7] = b[7 - 5] /\ e[8] = b[8 - 5]
        /\ e[9] = b[9 - 5]
    BY <1>3
  <2>2. QED
    BY <2>1
<1>6. Len(e) >= 9
  BY <1>2, <1>3
<1>7. Shape(e)
  BY <1>1, <1>2, <1>3, <1>4, <1>5, <1>6, Zenon DEF Shape
<1>8. Holds(e, n)
  BY <1>1, <1>5, Zenon DEF Holds
<1>9. ASSUME Clean(c)
      PROVE  Len(e) = 19 /\ e[10] = block[10]
  <2>1. d = 9 /\ Len(c) = 19
    BY <1>9, CleanLookups DEF Clean, d
  <2>2. Len(e) = 19 /\ 10 \in 10 .. Len(e) /\ d >= 9
    BY <1>3, <2>1
  <2>3. e[10] = block[10 + d - 9]
    BY <1>3, <2>2
  <2>4. 10 + d - 9 = 10
    BY <2>1
  <2>5. QED
    BY <2>2, <2>3, <2>4
<1>10. QED
  BY <1>7, <1>8, <1>9 DEF e, b

\* After set_config_value of the port: the configuration keeps its shape, the
\* new port is in its place unless the block moved, and a clean configuration
\* stays clean if the new port holds no '|'.
LEMMA SetPortValue ==
    ASSUME Shape(config), Editable(config, PORT), NEW n \in Ports,
           SetValue(PORT, n), lost \in BOOLEAN
    PROVE  /\ Shape(config')
           /\ lost' \in BOOLEAN
           /\ ~lost' => ~lost /\ Holds(config', n)
           /\ Clean(config) /\ n % 256 # Bar /\ n \div 256 # Bar =>
                 Clean(config')
<1> DEFINE new == Edited(config, config, PORT, Bytes(n))
<1>1. config \in Octets /\ Len(config) \in Nat
  BY ShapeLookups, Zenon DEF Shape
<1>2. Shape(new) /\ Holds(new, n) /\ (Clean(config) => Len(new) = 19)
  BY <1>1, PortEdited, Zenon
<1>3. Len(new) \in Nat /\ Len(new) >= 9
  BY <1>2, ShapeLookups, Zenon
<1>4. \/ \E block \in Shrunk(config, Len(new)) :
             config' = Edited(config, block, PORT, Bytes(n)) /\ lost' = lost
      \/ Len(new) > Len(config) /\ config' = new /\ lost' = lost
      \/ /\ lost' = TRUE
         /\ \E junk \in {0, Bar} : config' = Moved(config, Len(new), junk)
  BY Zenon DEF SetValue
<1> HIDE DEF new
<1>5. ASSUME Clean(config)
      PROVE  ~(Len(new) > Len(config))
  <2>1. Len(config) = 19
    BY <1>5, Zenon DEF Clean
  <2>2. Len(new) = 19
    BY <1>2, <1>5, Zenon
  <2>3. QED
    BY <2>1, <2>2
<1>6. ASSUME NEW block \in Shrunk(config, Len(new)),
             config' = Edited(config, block, PORT, Bytes(n)), lost' = lost
      PROVE  /\ Shape(config') /\ Holds(config', n)
             /\ Clean(config) /\ n % 256 # Bar /\ n \div 256 # Bar =>
                   Clean(config')
  <2>1. /\ block \in Octets /\ Len(block) = Len(config)
        /\ \A k \in 1 .. Len(config) : k <= Len(new) => block[k] = config[k]
    BY <1>1, ShrunkBlock, Zenon
  <2>2. /\ Shape(config') /\ Holds(config', n)
        /\ Clean(config) => Len(config') = 19 /\ config'[10] = block[10]
    BY <1>6, <2>1, PortEdited, ZenonT(60)
  <2>3. ASSUME Clean(config), n % 256 # Bar, n \div 256 # Bar
        PROVE  Clean(config')
    <3>1. Len(config) = 19 /\ Len(new) = 19 /\ config[10] = Bar
      BY <1>2, <2>3 DEF Clean
    <3>2. block[10] = Bar
      <4>1. 10 \in 1 .. Len(config) /\ 10 <= Len(new)
        BY <3>1
      <4>2. QED
        BY <2>1, <3>1, <4>1, Zenon
    <3>3. config'[6] # Bar /\ config'[7] # Bar
      BY <2>2, <2>3, Zenon DEF Holds
    <3>4. QED
      BY <2>2, <2>3, <3>2, <3>3, Zenon DEF Clean
  <2>4. QED
    BY <2>2, <2>3
<1>7. ASSUME NEW junk \in {0, Bar}, config' = Moved(config, Len(new), junk)
      PROVE  Shape(config') /\ (Clean(config) => Clean(config'))
  <2>1. Clean(config) => Len(new) = Len(config)
    BY <1>2, Zenon DEF Clean
  <2>2. /\ Shape(Moved(config, Len(new), junk))
        /\ Len(new) = Len(config) /\ Clean(config) =>
              Clean(Moved(config, Len(new), junk))
    BY <1>3, MovedBlock, Zenon
  <2>3. QED
    BY <1>7, <2>1, <2>2, Zenon
<1>8. QED
  <2>1. CASE \E block \in Shrunk(config, Len(new)) :
             config' = Edited(config, block, PORT, Bytes(n)) /\ lost' = lost
    <3>1. PICK block \in Shrunk(config, Len(new)) :
             config' = Edited(config, block, PORT, Bytes(n)) /\ lost' = lost
      BY <2>1, Zenon
    <3>2. /\ Shape(config') /\ Holds(config', n)
          /\ Clean(config) /\ n % 256 # Bar /\ n \div 256 # Bar =>
                Clean(config')
      BY <1>6, <3>1, Zenon
    <3>3. QED
      BY <3>1, <3>2, Zenon
  <2>2. CASE Len(new) > Len(config) /\ config' = new /\ lost' = lost
    BY <1>2, <1>5, <2>2, Zenon
  <2>3. CASE /\ lost' = TRUE
             /\ \E junk \in {0, Bar} : config' = Moved(config, Len(new), junk)
    <3>1. Shape(config') /\ (Clean(config) => Clean(config'))
      BY <1>7, <2>3, Zenon
    <3>2. lost' \in BOOLEAN /\ lost'
      BY <2>3, Zenon
    <3>3. QED
      BY <3>1, <3>2, Zenon
  <2>4. QED
    BY <1>4, <2>1, <2>2, <2>3, Zenon

\* After set_config_value of the device: unless the block moved, its number is
\* in its place and the port has not changed.
LEMMA SetDeviceValue ==
    ASSUME Shape(config), NEW n \in 1 .. 123, SetValue(DEVICE, n),
           lost \in BOOLEAN
    PROVE  /\ Shape(config')
           /\ lost' \in BOOLEAN
           /\ ~lost' => /\ ~lost /\ config'[1] = n
                        /\ config'[6] = config[6] /\ config'[7] = config[7]
           /\ Clean(config) => Clean(config')
<1> DEFINE new == Edited(config, config, DEVICE, Bytes(n))
           E(block) == Edited(config, block, DEVICE, Bytes(n))
<1>1. /\ config \in Octets /\ Len(config) \in Nat /\ Len(config) >= 9
      /\ config[5] = Bar /\ config[8] = 0 /\ config[9] = 0
  BY ShapeLookups, Zenon DEF Shape
<1>2. /\ Bytes(n) \in Octets /\ Len(Bytes(n)) = 4
      /\ Bytes(n)[1] = n /\ Bytes(n)[2] = 0 /\ Bytes(n)[3] = 0
      /\ Bytes(n)[4] = 0
  <2>1. Bytes(n) = <<n, 0, 0, 0>>
    BY DeviceBytes
  <2>2. n \in 0 .. 255
    OBVIOUS
  <2>3. <<n, 0, 0, 0>> \in Octets /\ Len(<<n, 0, 0, 0>>) = 4
    BY <2>2 DEF Octets
  <2>4. QED
    BY <2>1, <2>3
<1>3. ASSUME NEW block \in Octets, Len(block) = Len(config)
      PROVE  /\ E(block) \in Octets
             /\ Len(E(block)) = Len(config)
             /\ \A k \in 1 .. 4 : E(block)[k] = Bytes(n)[k]
             /\ \A k \in 5 .. Len(config) : E(block)[k] = block[k]
  BY <1>2, <1>3, EditDevice
<1>4. Len(new) = Len(config)
  BY <1>1, <1>3, Zenon
<1>5. \/ \E block \in Shrunk(config, Len(new)) :
             config' = Edited(config, block, DEVICE, Bytes(n)) /\ lost' = lost
      \/ Len(new) > Len(config)
      \/ /\ lost' = TRUE
         /\ \E junk \in {0, Bar} : config' = Moved(config, Len(new), junk)
  BY Zenon DEF SetValue
<1> HIDE DEF new
<1>6. ~(Len(new) > Len(config))
  BY <1>1, <1>4
<1>7. ASSUME NEW block \in Shrunk(config, Len(new)),
             config' = Edited(config, block, DEVICE, Bytes(n))
      PROVE  /\ Shape(config') /\ config'[1] = n
             /\ config'[6] = config[6] /\ config'[7] = config[7]
             /\ Clean(config) => Clean(config')
  <2>1. /\ block \in Octets /\ Len(block) = Len(config)
        /\ \A k \in 1 .. Len(config) : k <= Len(new) => block[k] = config[k]
    BY <1>1, ShrunkBlock, Zenon
  <2>2. /\ config' \in Octets /\ Len(config') = Len(config)
        /\ \A k \in 1 .. 4 : config'[k] = Bytes(n)[k]
        /\ \A k \in 5 .. Len(config) : config'[k] = block[k]
    BY <1>3, <1>7, <2>1, Zenon
  <2>3. \A k \in 5 .. Len(config) : config'[k] = config[k]
    <3> SUFFICES ASSUME NEW k \in 5 .. Len(config)
                 PROVE  config'[k] = config[k]
      OBVIOUS
    <3>1. k \in 1 .. Len(config) /\ k <= Len(new)
      BY <1>1, <1>4
    <3>2. QED
      BY <2>1, <2>2, <3>1, Zenon
  <2>4. /\ config'[1] = n /\ config'[2] = 0 /\ config'[3] = 0
        /\ config'[4] = 0
    <3>1. /\ config'[1] = Bytes(n)[1] /\ config'[2] = Bytes(n)[2]
          /\ config'[3] = Bytes(n)[3] /\ config'[4] = Bytes(n)[4]
      BY <2>2
    <3>2. QED
      BY <1>2, <3>1
  <2>5. /\ config'[5] = config[5] /\ config'[6] = config[6]
        /\ config'[7] = config[7] /\ config'[8] = config[8]
        /\ config'[9] = config[9]
    BY <1>1, <2>3
  <2>6. Shape(config')
    BY <1>1, <2>2, <2>4, <2>5, Zenon DEF Shape
  <2>7. ASSUME Clean(config) PROVE Clean(config')
    <3>1. Len(config) = 19
      BY <2>7 DEF Clean
    <3>2. config'[10] = config[10]
      BY <2>3, <3>1
    <3>3. QED
      BY <2>2, <2>5, <2>6, <2>7, <3>2, Zenon DEF Clean
  <2>8. QED
    BY <2>4, <2>5, <2>6, <2>7
<1>8. ASSUME NEW junk \in {0, Bar}, config' = Moved(config, Len(new), junk)
      PROVE  Shape(config') /\ (Clean(config) => Clean(config'))
  <2>1. Len(new) \in Nat /\ Len(new) >= 9
    BY <1>1, <1>4
  <2>2. QED
    BY <1>4, <1>8, <2>1, MovedBlock, Zenon
<1>9. QED
  <2>1. CASE \E block \in Shrunk(config, Len(new)) :
             config' = Edited(config, block, DEVICE, Bytes(n)) /\ lost' = lost
    <3>1. PICK block \in Shrunk(config, Len(new)) :
             config' = Edited(config, block, DEVICE, Bytes(n)) /\ lost' = lost
      BY <2>1, Zenon
    <3>2. /\ Shape(config') /\ config'[1] = n
          /\ config'[6] = config[6] /\ config'[7] = config[7]
          /\ Clean(config) => Clean(config')
      BY <1>7, <3>1, Zenon
    <3>3. QED
      BY <3>1, <3>2, Zenon
  <2>2. CASE /\ lost' = TRUE
             /\ \E junk \in {0, Bar} : config' = Moved(config, Len(new), junk)
    BY <1>8, <2>2, Zenon
  <2>3. QED
    BY <1>5, <1>6, <2>1, <2>2, Zenon

----------------------------------------------------------------------------
(* The file *)

\* Absent stands for no sequence of bytes.
LEMMA AbsentIs ==
    /\ Len(Absent) = 1
    /\ \A c \in Octets : c # Absent
    /\ Absent # << >> /\ Len(<< >>) = 0 /\ << >> \in Octets
<1>1. Len(Absent) = 1 /\ Absent[1] = -1
  BY DEF Absent
<1>2. ASSUME NEW c \in Octets, c = Absent
      PROVE  FALSE
  <2>1. 1 \in 1 .. Len(c)
    BY <1>1, <1>2
  <2>2. c[1] \in 0 .. 255
    BY <2>1, ElementOfSeq, Zenon DEF Octets
  <2>3. c[1] = -1
    BY <1>1, <1>2
  <2>4. QED
    BY <2>2, <2>3
<1>3. << >> \in Octets /\ Len(<< >>) = 0
  BY DEF Octets
<1>4. QED
  BY <1>1, <1>2, <1>3

\* The configuration a new file gets.
LEMMA DefaultClean == Clean(g_default_config)
<1> DEFINE a == Bytes(2)
           b == <<Bar>>
           p == Bytes(27015)
           ab == a \o b
           abp == ab \o p
           as == [k \in 1 .. 7 |-> 97]
           z == <<Bar, 0>>
           bas == b \o as
           t == bas \o z
           g == abp \o t
<1>1. a \in Octets /\ Len(a) = 4 /\ a[1] = 2 /\ a[2] = 0 /\ a[3] = 0 /\ a[4] = 0
  <2>1. a = <<2, 0, 0, 0>>
    BY DeviceBytes
  <2>2. <<2, 0, 0, 0>> \in Octets
    BY DEF Octets
  <2>3. QED
    BY <2>1, <2>2
<1>2. b \in Octets /\ Len(b) = 1 /\ b[1] = Bar
  BY DEF Octets, Bar
<1>3. p \in Octets /\ Len(p) = 4 /\ p[1] = 135 /\ p[2] = 105
      /\ p[3] = 0 /\ p[4] = 0
  <2>1. 27015 \in Ports /\ 27015 % 256 = 135 /\ 27015 \div 256 = 105
    BY SMT DEF Ports
  <2>2. QED
    BY <2>1, PortOctets, SMT
<1>4. as \in Octets /\ Len(as) = 7
  <2>1. as \in [1 .. 7 -> 0 .. 255]
    OBVIOUS
  <2> HIDE DEF as
  <2>2. QED
    BY <2>1, FcnOctets
<1>5. z \in Octets /\ Len(z) = 2
  BY DEF Octets, Bar
<1> HIDE DEF a, b, p, as, z
<1>6. /\ ab \in Octets /\ Len(ab) = 5
      /\ ab[1] = 2 /\ ab[2] = 0 /\ ab[3] = 0 /\ ab[4] = 0 /\ ab[5] = Bar
  <2>1. /\ ab \in Octets /\ Len(ab) = Len(a) + Len(b)
        /\ \A k \in 1 .. Len(a) : ab[k] = a[k]
        /\ \A k \in Len(a) + 1 .. Len(a) + Len(b) : ab[k] = b[k - Len(a)]
    BY <1>1, <1>2, ConcatOctets
  <2> HIDE DEF ab
  <2>2. ab[5] = b[5 - 4]
    BY <1>1, <1>2, <2>1
  <2>3. QED
    BY <1>1, <1>2, <2>1, <2>2
<1> HIDE DEF ab
<1>7. /\ abp \in Octets /\ Len(abp) = 9
      /\ abp[1] = 2 /\ abp[2] = 0 /\ abp[3] = 0 /\ abp[4] = 0 /\ abp[5] = Bar
      /\ abp[6] = 135 /\ abp[7] = 105 /\ abp[8] = 0 /\ abp[9] = 0
  <2>1. /\ abp \in Octets /\ Len(abp) = Len(ab) + Len(p)
        /\ \A k \in 1 .. Len(ab) : abp[k] = ab[k]
        /\ \A k \in Len(ab) + 1 .. Len(ab) + Len(p) : abp[k] = p[k - Len(ab)]
    <3>1. ab \in Octets /\ p \in Octets
      BY <1>3, <1>6, Zenon
    <3>2. QED
      BY <3>1, ConcatOctets, Zenon
  <2> HIDE DEF abp
  <2>2. /\ abp[6] = p[6 - 5] /\ abp[7] = p[7 - 5] /\ abp[8] = p[8 - 5]
        /\ abp[9] = p[9 - 5]
    BY <1>3, <1>6, <2>1
  <2>3. /\ abp[1] = ab[1] /\ abp[2] = ab[2] /\ abp[3] = ab[3]
        /\ abp[4] = ab[4] /\ abp[5] = ab[5]
    BY <1>3, <1>6, <2>1
  <2>4. QED
    BY <1>3, <1>6, <2>1, <2>2, <2>3
<1> HIDE DEF abp
<1>8. bas \in Octets /\ Len(bas) = 8 /\ bas[1] = Bar
  <2>1. /\ bas \in Octets /\ Len(bas) = Len(b) + Len(as)
        /\ \A k \in 1 .. Len(b) : bas[k] = b[k]
    BY <1>2, <1>4, ConcatOctets
  <2> HIDE DEF bas
  <2>2. QED
    BY <1>2, <1>4, <2>1
<1> HIDE DEF bas
<1>9. t \in Octets /\ Len(t) = 10 /\ t[1] = Bar
  <2>1. /\ t \in Octets /\ Len(t) = Len(bas) + Len(z)
        /\ \A k \in 1 .. Len(bas) : t[k] = bas[k]
    BY <1>5, <1>8, ConcatOctets
  <2> HIDE DEF t
  <2>2. QED
    BY <1>5, <1>8, <2>1
<1> HIDE DEF t
<1>10. /\ g \in Octets /\ Len(g) = 19 /\ g[10] = t[10 - 9]
       /\ \A k \in 1 .. 9 : g[k] = abp[k]
  <2>1. /\ g \in Octets /\ Len(g) = Len(abp) + Len(t)
        /\ \A k \in 1 .. Len(abp) : g[k] = abp[k]
        /\ \A k \in Len(abp) + 1 .. Len(abp) + Len(t) :
              g[k] = t[k - Len(abp)]
    <3>1. abp \in Octets /\ t \in Octets
      BY <1>7, <1>9, Zenon
    <3>2. QED
      BY <3>1, ConcatOctets, Zenon
  <2> HIDE DEF g
  <2>2. QED
    BY <1>7, <1>9, <2>1
<1> HIDE DEF g
<1>11. /\ g[1] = 2 /\ g[2] = 0 /\ g[3] = 0 /\ g[4] = 0 /\ g[5] = Bar
       /\ g[6] = 135 /\ g[7] = 105 /\ g[8] = 0 /\ g[9] = 0 /\ g[10] = Bar
  BY <1>7, <1>9, <1>10
<1>12. Clean(g)
  <2>1. g[1] \in 1 .. 123 /\ Len(g) >= 9 /\ g[6] # Bar /\ g[7] # Bar
    BY <1>10, <1>11 DEF Bar
  <2>2. QED
    BY <1>10, <1>11, <2>1, Zenon DEF Clean, Shape
<1>13. g_default_config = g
  BY DEF g_default_config, Text, g, abp, ab, a, b, p, t, bas, as, z
<1>14. QED
  BY <1>12, <1>13, Zenon

\* The configuration written over the start of a file.
LEMMA SavedFile ==
    ASSUME NEW c, Shape(c), NEW f, f \in {Absent, << >>} \/ Shape(f)
    PROVE  LET g == c \o SubSeq(f, Len(c) + 1, Len(f))
           IN  /\ Shape(g)
               /\ g[1] = c[1] /\ g[6] = c[6] /\ g[7] = c[7]
               /\ Clean(c) /\ (f \in {Absent, << >>} \/ Clean(f)) => Clean(g)
<1> DEFINE r == SubSeq(f, Len(c) + 1, Len(f))
           g == c \o r
<1>1. c \in Octets /\ Len(c) \in Nat /\ Len(c) >= 9
  BY ShapeLookups, Zenon DEF Shape
<1>2. Len(f) \in Nat
  <2>1. CASE f \in {Absent, << >>}
    BY <2>1, AbsentIs
  <2>2. CASE Shape(f)
    BY <2>2, ShapeLookups, Zenon
  <2>3. QED
    BY <2>1, <2>2
<1>3. CASE Len(f) <= Len(c)
  <2>1. r = << >>
    BY <1>1, <1>2, <1>3, SubSeqEmpty
  <2> HIDE DEF r
  <2>2. g = c
    BY <1>1, <2>1, ConcatEmptySeq DEF Octets
  <2> HIDE DEF g
  <2>3. QED
    BY <2>2, Zenon DEF g, r
<1>4. CASE Len(c) < Len(f)
  <2>1. f \notin {Absent, << >>} /\ Shape(f)
    BY <1>1, <1>2, <1>4, AbsentIs
  <2>2. f \in Octets
    BY <2>1, Zenon DEF Shape
  <2>3. ~Clean(c) \/ ~Clean(f)
    <3>1. Clean(c) => Len(c) = 19
      BY Zenon DEF Clean
    <3>2. Clean(f) => Len(f) = 19
      BY Zenon DEF Clean
    <3>3. QED
      BY <1>4, <3>1, <3>2
  <2>4. r \in Octets
    <3>1. Len(c) + 1 \in 1 .. Len(f) + 1 /\ Len(f) \in Int /\ Len(f) <= Len(f)
      BY <1>1, <1>2, <1>4
    <3>2. QED
      BY <2>2, <3>1, PartOfOctets
  <2> HIDE DEF r
  <2>5. /\ g \in Octets /\ Len(g) = Len(c) + Len(r) /\ Len(r) \in Nat
        /\ \A k \in 1 .. Len(c) : g[k] = c[k]
    BY <1>1, <2>4, ConcatOctets
  <2> HIDE DEF g
  <2>6. /\ g[1] = c[1] /\ g[2] = c[2] /\ g[3] = c[3] /\ g[4] = c[4]
        /\ g[5] = c[5] /\ g[6] = c[6] /\ g[7] = c[7] /\ g[8] = c[8]
        /\ g[9] = c[9] /\ Len(g) >= 9
    BY <1>1, <2>5
  <2>7. Shape(g)
    BY <2>5, <2>6, Zenon DEF Shape
  <2>8. QED
    BY <2>1, <2>3, <2>6, <2>7, Zenon DEF g, r
<1>5. QED
  BY <1>1, <1>2, <1>3, <1>4

\* A configuration with its two numbers is not empty, and nothing can be looked
\* up in an empty one.
LEMMA NotEmpty ==
    /\ \A c : Shape(c) => c # << >> /\ c # Absent
    /\ ~Readable(<< >>, DEVICE) /\ ~Editable(<< >>, PORT)
<1>1. ASSUME NEW c, Shape(c)
      PROVE  c # << >> /\ c # Absent
  <2>1. c \in Octets /\ Len(c) \in Nat /\ Len(c) >= 9
    BY <1>1, ShapeLookups, Zenon DEF Shape
  <2>2. QED
    BY <2>1, AbsentIs
<1>2. ~Readable(<< >>, DEVICE)
  BY AbsentIs DEF Readable, IndexOf
<1>3. ASSUME Editable(<< >>, PORT)
      PROVE  FALSE
  <2>1. NextBar(<< >>, 0) >= 0
    BY <1>3 DEF Editable, Readable
  <2>2. NextBar(<< >>, 0) \in 0 .. Len(<< >>) - 1
    BY <2>1, NextBarFound, AbsentIs
  <2>3. QED
    BY <2>2, AbsentIs
<1>4. QED
  BY <1>1, <1>2, <1>3

----------------------------------------------------------------------------
(* The invariant holds of every reachable state *)

\* What is assumed of the machine, in the terms of the invariant.
LEMMA ConstantsBounded ==
    /\ StackPorts \subseteq Ports
    /\ DevCounts \cup {0} \subseteq 0 .. 123
<1>1. DevCounts \subseteq 0 .. 123 /\ StackPorts \subseteq Ports
  BY SetupAssumption, Zenon
<1>2. 0 \in 0 .. 123
  OBVIOUS
<1>3. QED
  BY <1>1, <1>2, Zenon

\* At the first start of the program there is no file, or a default one.
LEMMA InitSetup == Init => SetupInv
<1> SUFFICES ASSUME Init PROVE SetupInv
  OBVIOUS
<1>1. SessionInv
  <2>1. 0 \in Ports /\ 0 \in Nat
    BY DEF Ports
  <2>2. QED
    BY <2>1, Zenon DEF Init, SessionInv
<1>2. FileInv
  BY DefaultClean, AbsentIs, NotEmpty, Zenon DEF Init, FileInv, Clean
<1>3. ConfigInv
  BY DEF Init, ConfigInv, HasPort
<1>4. StoredInv
  BY DEF Init, StoredInv, HasPort, HasDevice
<1>5. KnownFailures
  BY DEF Init, KnownFailures
<1>6. QED
  BY <1>1, <1>2, <1>3, <1>4, <1>5 DEF SetupInv

\* fopen of a file that is not there.
LEMMA CreateFileSetup ==
    ASSUME SetupInv, CreateFile
    PROVE  SetupInv'
<1> USE DEF CreateFile, session, history, SetupInv
<1>1. SessionInv'
  BY DEF SessionInv
<1>2. FileInv'
  BY DEF FileInv
<1>3. ConfigInv'
  BY DEF ConfigInv, HasPort
<1>4. StoredInv'
  BY DEF StoredInv, HasPort, HasDevice
<1>5. KnownFailures'
  BY DEF KnownFailures
<1>6. QED
  BY <1>1, <1>2, <1>3, <1>4, <1>5

\* fclose of the file that was created.
LEMMA WriteDefaultSetup ==
    ASSUME SetupInv, WriteDefault
    PROVE  SetupInv'
<1> USE DEF WriteDefault, history, SetupInv
<1>1. Clean(g_default_config) /\ Shape(g_default_config)
      /\ g_default_config # << >>
  BY DefaultClean, NotEmpty, Zenon DEF Clean
<1>2. SessionInv'
  BY DEF SessionInv
<1>3. FileInv'
  BY <1>1, Zenon DEF FileInv
<1>4. ConfigInv'
  BY <1>1 DEF ConfigInv, HasPort
<1>5. StoredInv'
  BY DEF StoredInv, HasPort, HasDevice
<1>6. KnownFailures'
  BY DEF KnownFailures
<1>7. QED
  BY <1>2, <1>3, <1>4, <1>5, <1>6

\* A start that finds a file, perhaps one that an earlier start left empty.
LEMMA LoadFileSetup ==
    ASSUME SetupInv, LoadFile
    PROVE  SetupInv'
<1> USE DEF LoadFile, history, SetupInv
<1>1. SessionInv'
  BY DEF SessionInv
<1>2. FileInv'
  BY DEF FileInv
<1>3. ConfigInv'
  BY DEF ConfigInv, FileInv, HasPort
<1>4. StoredInv'
  BY DEF StoredInv, HasPort, HasDevice
<1>5. KnownFailures'
  BY DEF KnownFailures
<1>6. QED
  BY <1>1, <1>2, <1>3, <1>4, <1>5

\* The stored values are used, or the configuration is too short for them.
LEMMA KeepConfigSetup ==
    ASSUME SetupInv, KeepConfig
    PROVE  SetupInv'
<1> USE DEF SetupInv
<1>1. /\ pc = "ask" /\ UNCHANGED <<file, existed, config, static, unread>>
      /\ UNCHANGED history
  BY DEF KeepConfig
<1>2. UNCHANGED <<lost, barred, cut>>
  BY <1>1 DEF history
<1>3. FileInv'
  BY <1>1, <1>2 DEF FileInv
<1>4. CASE Readable(config, DEVICE) /\ Readable(config, PORT)
  <2>1. /\ dev' = get_config_value(config, DEVICE)
        /\ port' = get_config_value(config, PORT)
        /\ devs' \in DevCounts /\ pc' = "device"
    BY <1>4, Zenon DEF KeepConfig
  <2>2. Shape(config)
    BY <1>4, NotEmpty, Zenon DEF ConfigInv
  <2>3. dev' = config[1] /\ port' = config[6] + 256 * config[7]
    BY <2>1, <2>2, ShapeValues, Zenon
  <2>4. config[1] \in 1 .. 123
    BY <2>2, Zenon DEF Shape
  <2>5. config[6] \in 0 .. 255 /\ config[7] \in 0 .. 255
    <3>1. /\ Len(config) \in Nat /\ Len(config) >= 9
          /\ \A k \in 1 .. Len(config) : config[k] \in 0 .. 255
      BY <2>2, ShapeLookups, Zenon
    <3>2. QED
      BY <3>1
  <2>6. dev' \in 1 .. 123 /\ port' \in Ports
    BY <2>3, <2>4, <2>5, TwoBytes, Zenon
  <2>7. dev' \in Nat
    BY <2>6
  <2>8. SessionInv'
    BY <1>1, <1>2, <2>1, <2>6, <2>7, Zenon DEF SessionInv
  <2>9. ConfigInv'
    BY <1>1, <1>2, <2>1 DEF ConfigInv, HasPort
  <2>10. StoredInv'
    BY <2>1, <2>6 DEF StoredInv, HasPort
  <2>11. KnownFailures'
    BY <2>1 DEF KnownFailures
  <2>12. QED
    BY <1>3, <2>8, <2>9, <2>10, <2>11
<1>5. CASE ~(Readable(config, DEVICE) /\ Readable(config, PORT))
  <2>1. pc' = "fault" /\ UNCHANGED <<dev, port, devs>>
    BY <1>5, Zenon DEF KeepConfig
  <2>2. config = << >>
    BY <1>5, ShapeLookups, Zenon DEF ConfigInv
  <2>3. cut'
    BY <1>1, <1>2, <2>2 DEF ConfigInv
  <2>4. SessionInv'
    BY <1>1, <1>2, <2>1 DEF SessionInv
  <2>5. ConfigInv'
    BY <1>1, <1>2, <2>1, <2>3 DEF ConfigInv, HasPort
  <2>6. StoredInv'
    BY <2>1 DEF StoredInv, HasPort, HasDevice
  <2>7. KnownFailures'
    BY <2>3 DEF KnownFailures
  <2>8. QED
    BY <1>3, <2>4, <2>5, <2>6, <2>7
<1>6. QED
  BY <1>4, <1>5

\* The user wants to choose.
LEMMA ChooseSetup ==
    ASSUME SetupInv, Choose
    PROVE  SetupInv'
<1> USE DEF Choose, history, SetupInv
<1>1. SessionInv'
  BY Zenon DEF SessionInv
<1>2. FileInv'
  BY DEF FileInv
<1>3. ConfigInv'
  BY DEF ConfigInv, HasPort
<1>4. StoredInv'
  BY DEF StoredInv, HasPort, HasDevice
<1>5. KnownFailures'
  BY DEF KnownFailures
<1>6. QED
  BY <1>1, <1>2, <1>3, <1>4, <1>5

\* A line that is not a number, and a number that is refused, change only
\* what is left on stdin.
LEMMA TypeSetup ==
    ASSUME SetupInv, NEW n, TypeText \/ RefuseDevice(n)
    PROVE  SetupInv'
<1> USE DEF SetupInv
<1>1. /\ unread' \in BOOLEAN /\ pc \in Prompts
      /\ UNCHANGED <<pc, file, existed, config, static, devs, dev, port>>
      /\ UNCHANGED <<lost, barred, cut>>
  <2>1. CASE TypeText
    BY <2>1, Zenon DEF TypeText, history
  <2>2. CASE RefuseDevice(n)
    BY <2>2, Zenon DEF RefuseDevice, history, Prompts
  <2>3. QED
    BY <2>1, <2>2
<1>2. SessionInv'
  BY <1>1, Zenon DEF SessionInv
<1>3. FileInv'
  BY <1>1 DEF FileInv
<1>4. ConfigInv'
  BY <1>1 DEF ConfigInv
<1>5. StoredInv'
  BY <1>1, Zenon DEF StoredInv, Holds
<1>6. KnownFailures'
  BY <1>1 DEF KnownFailures
<1>7. QED
  BY <1>2, <1>3, <1>4, <1>5, <1>6

\* A device of the list: its number is one byte and no '|'.
LEMMA ChooseDeviceSetup ==
    ASSUME SetupInv, NEW n \in DevInputs, ChooseDevice(n)
    PROVE  SetupInv'
<1> USE DEF SetupInv
<1>1. /\ pc = "chooseDevice" /\ n \in 1 .. devs /\ dev' = n
      /\ port' \in StackPorts /\ unread' \in BOOLEAN /\ pc' = "choosePort"
      /\ UNCHANGED <<file, existed, config, static, devs>>
      /\ UNCHANGED <<lost, barred, cut>>
  BY Zenon DEF ChooseDevice, history
<1>2. devs \in 0 .. 123
  BY ConstantsBounded, Zenon DEF SessionInv
<1>3. dev' \in 1 .. 123 /\ dev' \in Nat
  BY <1>1, <1>2
<1>4. port' \in Ports
  BY <1>1, ConstantsBounded, Zenon
<1>5. SessionInv'
  BY <1>1, <1>3, <1>4, Zenon DEF SessionInv
<1>6. FileInv'
  BY <1>1 DEF FileInv
<1>7. ConfigInv'
  BY <1>1 DEF ConfigInv, HasPort
<1>8. StoredInv'
  BY <1>1, <1>3 DEF StoredInv, HasPort
<1>9. KnownFailures'
  BY <1>1 DEF KnownFailures
<1>10. QED
  BY <1>5, <1>6, <1>7, <1>8, <1>9

\* A port, or what the variable held when the answer was no number.
LEMMA ChoosePortSetup ==
    ASSUME SetupInv, NEW n \in Int, ChoosePort(n) \/ PortUnset
    PROVE  SetupInv'
<1> USE DEF SetupInv
<1>1. /\ pc = "choosePort" /\ pc' \in {"choosePort", "device"}
      /\ unread' \in BOOLEAN
      /\ UNCHANGED <<file, existed, config, static, devs, dev>>
      /\ UNCHANGED <<lost, barred, cut>>
  <2>1. CASE ChoosePort(n)
    <3>1. \/ pc' = "device" /\ unread' = FALSE
          \/ pc' = "choosePort" /\ unread' \in BOOLEAN
      BY <2>1, SMT DEF ChoosePort
    <3>2. /\ pc = "choosePort"
          /\ UNCHANGED <<file, existed, config, static, devs, dev>>
          /\ UNCHANGED <<lost, barred, cut>>
      BY <2>1, SMT DEF ChoosePort, history
    <3>3. QED
      BY <3>1, <3>2, Zenon
  <2>2. CASE PortUnset
    BY <2>2 DEF PortUnset, history
  <2>3. QED
    BY <2>1, <2>2
<1>2. port' \in Ports
  <2>1. CASE ChoosePort(n)
    <3>1. port' = n % 65536
      BY <2>1, SMT DEF ChoosePort
    <3>2. n % 65536 \in Ports
      BY CutToPort, SMT
    <3>3. QED
      BY <3>1, <3>2, SMT
  <2>2. CASE PortUnset
    BY <2>2, Zenon DEF PortUnset, SessionInv
  <2>3. QED
    BY <2>1, <2>2
<1>3. SessionInv'
  BY <1>1, <1>2, Zenon DEF SessionInv
<1>4. FileInv'
  BY <1>1 DEF FileInv
<1>5. ConfigInv'
  BY <1>1 DEF ConfigInv, HasPort
<1>6. StoredInv'
  BY <1>1 DEF StoredInv, HasPort, HasDevice
<1>7. KnownFailures'
  BY <1>1 DEF KnownFailures
<1>8. QED
  BY <1>3, <1>4, <1>5, <1>6, <1>7

\* The process ends and forgets everything but the file.
LEMMA NoSessionSetup ==
    ASSUME SetupInv, NoSession, pc' = "off", UNCHANGED <<file, lost, barred>>,
           cut' = (cut \/ pc = "creating")
    PROVE  SetupInv'
<1> USE DEF SetupInv
<1>1. SessionInv'
  <2>1. 0 \in Ports /\ 0 \in Nat
    BY DEF Ports
  <2>2. QED
    BY <2>1, Zenon DEF NoSession, SessionInv
<1>2. FileInv'
  BY DEF FileInv
<1>3. ConfigInv'
  BY DEF NoSession, ConfigInv, HasPort
<1>4. StoredInv'
  BY DEF StoredInv, HasPort, HasDevice
<1>5. KnownFailures'
  BY DEF KnownFailures
<1>6. QED
  BY <1>1, <1>2, <1>3, <1>4, <1>5

\* A failure leaves everything but the place; it has to be a known one.
LEMMA FaultSetup ==
    ASSUME SetupInv, pc' = "fault", UNCHANGED <<file, session, history>>,
           pc \notin {"off", "creating"},
           static \/ cut \/ barred \/ dev > devs
    PROVE  SetupInv'
<1> USE DEF SetupInv, session, history
<1>1. SessionInv'
  BY DEF SessionInv
<1>2. FileInv'
  BY DEF FileInv
<1>3. ConfigInv'
  BY DEF ConfigInv, HasPort
<1>4. StoredInv'
  BY DEF StoredInv, HasPort, HasDevice
<1>5. KnownFailures'
  BY DEF KnownFailures
<1>6. QED
  BY <1>1, <1>2, <1>3, <1>4, <1>5

\* devList[dev - 1], in the list or behind it.
LEMMA PickDeviceSetup ==
    ASSUME SetupInv, PickDevice
    PROVE  SetupInv'
<1> USE DEF SetupInv
<1>1. /\ pc = "device" /\ pc' \in {"setPort", "off", "fault"}
      /\ pc' = "fault" => dev \notin 1 .. devs
      /\ pc' = "off" => NoSession
      /\ pc' # "off" => UNCHANGED session
      /\ UNCHANGED file /\ UNCHANGED history
  BY DEF PickDevice
<1>2. CASE pc' = "off"
  <2>1. cut' = (cut \/ pc = "creating")
    <3>1. cut \in BOOLEAN /\ cut' = cut /\ pc # "creating"
      BY <1>1 DEF SessionInv, history
    <3>2. QED
      BY <3>1, Zenon
  <2>2. UNCHANGED <<file, lost, barred>>
    BY <1>1 DEF history
  <2>3. QED
    BY <1>1, <1>2, <2>1, <2>2, NoSessionSetup
<1>3. CASE pc' = "fault"
  <2>1. dev > devs
    <3>1. dev \in 1 .. 123
      BY <1>1 DEF StoredInv, HasDevice
    <3>2. devs \in 0 .. 123
      BY ConstantsBounded, Zenon DEF SessionInv
    <3>3. QED
      BY <1>1, <1>3, <3>1, <3>2
  <2>2. QED
    BY <1>1, <1>3, <2>1, FaultSetup
<1>4. CASE pc' = "setPort"
  <2>1. UNCHANGED <<existed, config, static, devs, dev, port, unread>>
        /\ UNCHANGED <<lost, barred, cut>>
    BY <1>1, <1>4 DEF session, history
  <2>2. SessionInv'
    BY <1>4, <2>1 DEF SessionInv
  <2>3. FileInv'
    BY <1>1, <1>4, <2>1 DEF FileInv
  <2>4. ConfigInv'
    BY <1>1, <1>4, <2>1 DEF ConfigInv, HasPort
  <2>5. StoredInv'
    BY <1>1, <1>4, <2>1 DEF StoredInv, HasPort, HasDevice
  <2>6. KnownFailures'
    BY <1>4 DEF KnownFailures
  <2>7. QED
    BY <2>2, <2>3, <2>4, <2>5, <2>6
<1>5. QED
  BY <1>1, <1>2, <1>3, <1>4

\* The port is written into the configuration.
LEMMA SetPortSetup ==
    ASSUME SetupInv, SetPort
    PROVE  SetupInv'
<1> USE DEF SetupInv
<1>1. pc = "setPort"
  BY DEF SetPort
<1>2. CASE SetFails(PORT)
  <2>1. /\ static \/ ~Editable(config, PORT)
        /\ pc' = "fault" /\ UNCHANGED <<file, session, history>>
    BY <1>2, Zenon DEF SetFails
  <2>2. static \/ cut \/ barred
    BY <1>1, <2>1, CleanLookups DEF ConfigInv
  <2>3. QED
    BY <1>1, <2>1, <2>2, FaultSetup
<1>3. CASE ~SetFails(PORT)
  <2>1. /\ Editable(config, PORT) /\ SetValue(PORT, port)
        /\ barred' = (barred \/ \E k \in 1 .. 4 : Bytes(port)[k] = Bar)
        /\ pc' = "setDevice"
        /\ UNCHANGED <<file, existed, static, devs, dev, port, unread, cut>>
    BY <1>3, Zenon DEF SetPort
  <2>2. Shape(config) /\ port \in Ports /\ lost \in BOOLEAN
    BY <2>1, NotEmpty, Zenon DEF ConfigInv, SessionInv
  <2>3. /\ Shape(config') /\ lost' \in BOOLEAN
        /\ ~lost' => Holds(config', port)
        /\ Clean(config) /\ port % 256 # Bar /\ port \div 256 # Bar =>
              Clean(config')
    BY <2>1, <2>2, SetPortValue, Zenon
  <2>4. config' # << >>
    BY <2>3, NotEmpty, Zenon
  <2>5. barred' \in BOOLEAN /\ (~barred' => ~barred)
    BY <2>1, Zenon DEF SessionInv
  <2>6. ASSUME ~barred'
        PROVE  Clean(config')
    <3>1. Clean(config)
      BY <2>2, <2>5, <2>6, NotEmpty, Zenon DEF ConfigInv
    <3>2. Bytes(port)[1] # Bar /\ Bytes(port)[2] # Bar
      <4>1. 1 \in 1 .. 4 /\ 2 \in 1 .. 4
        OBVIOUS
      <4>2. QED
        BY <2>1, <2>6, <4>1, Zenon
    <3>3. port % 256 # Bar /\ port \div 256 # Bar
      BY <2>2, <3>2, PortOctets, Zenon
    <3>4. QED
      BY <2>3, <3>1, <3>3, Zenon
  <2>7. SessionInv'
    BY <2>1, <2>3, <2>5, Zenon DEF SessionInv
  <2>8. FileInv'
    BY <1>1, <2>1, <2>5 DEF FileInv
  <2>9. ConfigInv'
    BY <2>3, <2>4, <2>6, Zenon DEF ConfigInv
  <2>10. StoredInv'
    <3>1. dev' \in 1 .. 123
      BY <1>1, <2>1 DEF StoredInv, HasDevice
    <3>2. ~lost' => Holds(config', port')
      BY <2>1, <2>3, Zenon
    <3> HIDE DEF SetupInv
    <3>3. QED
      BY <2>1, <3>1, <3>2 DEF StoredInv
  <2>11. KnownFailures'
    BY <2>1 DEF KnownFailures
  <2>12. QED
    BY <2>7, <2>8, <2>9, <2>10, <2>11
<1>4. QED
  BY <1>2, <1>3

\* The device is written into the configuration.
LEMMA SetDeviceSetup ==
    ASSUME SetupInv, SetDevice
    PROVE  SetupInv'
<1> USE DEF SetupInv
<1>1. pc = "setDevice"
  BY DEF SetDevice
<1>2. Shape(config)
  BY <1>1 DEF ConfigInv, HasPort
<1>3. CASE SetFails(DEVICE)
  <2>1. /\ static \/ ~Editable(config, DEVICE)
        /\ pc' = "fault" /\ UNCHANGED <<file, session, history>>
    BY <1>3, Zenon DEF SetFails
  <2>2. static
    BY <1>2, <2>1, ShapeLookups, Zenon
  <2>3. QED
    BY <1>1, <2>1, <2>2, FaultSetup
<1>4. CASE ~SetFails(DEVICE)
  <2>1. /\ SetValue(DEVICE, dev) /\ pc' = "save"
        /\ UNCHANGED <<file, existed, static, devs, dev, port, unread, barred,
                       cut>>
    BY <1>4, Zenon DEF SetDevice
  <2>2. dev \in 1 .. 123 /\ (~lost => Holds(config, port)) /\ lost \in BOOLEAN
    BY <1>1 DEF StoredInv, HasDevice, HasPort, SessionInv
  <2>3. /\ Shape(config') /\ lost' \in BOOLEAN
        /\ ~lost' => /\ ~lost /\ config'[1] = dev
                     /\ config'[6] = config[6] /\ config'[7] = config[7]
        /\ Clean(config) => Clean(config')
    BY <1>2, <2>1, <2>2, SetDeviceValue, Zenon
  <2>4. config' # << >> /\ config # << >>
    BY <1>2, <2>3, NotEmpty, Zenon
  <2>5. SessionInv'
    BY <2>1, <2>3, Zenon DEF SessionInv
  <2>6. FileInv'
    BY <1>1, <2>1 DEF FileInv
  <2>7. ConfigInv'
    BY <2>1, <2>3, <2>4, Zenon DEF ConfigInv
  <2>8. StoredInv'
    <3>1. ~lost' => Holds(config', port')
      BY <2>1, <2>2, <2>3, Zenon DEF Holds
    <3> HIDE DEF SetupInv
    <3>2. QED
      BY <2>1, <2>2, <2>3, <3>1 DEF StoredInv
  <2>9. KnownFailures'
    BY <2>1 DEF KnownFailures
  <2>10. QED
    BY <2>5, <2>6, <2>7, <2>8, <2>9
<1>5. QED
  BY <1>3, <1>4

\* The configuration is written over the start of the file.
LEMMA SaveSetup ==
    ASSUME SetupInv, Save
    PROVE  SetupInv'
<1> USE DEF SetupInv
<1>1. /\ pc = "save" /\ pc' = "listening"
      /\ file' = config \o SubSeq(file, Len(config) + 1, Len(file))
      /\ UNCHANGED <<existed, config, static, devs, dev, port, unread>>
      /\ UNCHANGED <<lost, barred, cut>>
  BY Zenon DEF Save, session, history
<1>2. Shape(config) /\ config # << >>
  BY <1>1 DEF ConfigInv, HasPort
<1>3. file \in {Absent, << >>} \/ Shape(file)
  BY Zenon DEF FileInv
<1>4. /\ Shape(file')
      /\ file'[1] = config[1] /\ file'[6] = config[6] /\ file'[7] = config[7]
      /\ Clean(config) /\ (file \in {Absent, << >>} \/ Clean(file)) =>
            Clean(file')
  BY <1>1, <1>2, <1>3, SavedFile, Zenon
<1>5. file' # << >>
  BY <1>4, NotEmpty, Zenon
<1>6. SessionInv'
  BY <1>1 DEF SessionInv
<1>7. FileInv'
  BY <1>1, <1>2, <1>4, <1>5, Zenon DEF FileInv, ConfigInv
<1>8. ConfigInv'
  BY <1>1, <1>2 DEF ConfigInv
<1>9. StoredInv'
  <2>1. /\ dev \in 1 .. 123
        /\ ~lost => Holds(config, port) /\ config[1] = dev
    BY <1>1 DEF StoredInv, HasDevice, HasPort
  <2>2. /\ ~lost' => /\ Holds(config', port') /\ Holds(file', port')
                     /\ config'[1] = dev' /\ file'[1] = dev'
        /\ dev' \in 1 .. 123
    BY <1>1, <1>4, <2>1, Zenon DEF Holds
  <2> HIDE DEF SetupInv
  <2>3. QED
    BY <1>4, <2>2 DEF StoredInv
<1>10. KnownFailures'
  BY <1>1 DEF KnownFailures
<1>11. QED
  BY <1>6, <1>7, <1>8, <1>9, <1>10

\* Every step preserves the invariant.
LEMMA NextSetup == SetupInv /\ [Next]_vars => SetupInv'
<1> SUFFICES ASSUME SetupInv, [Next]_vars PROVE SetupInv'
  OBVIOUS
<1>1. CASE CreateFile
  BY <1>1, CreateFileSetup, Zenon
<1>2. CASE WriteDefault
  BY <1>2, WriteDefaultSetup, Zenon
<1>3. CASE LoadFile
  BY <1>3, LoadFileSetup, Zenon
<1>4. CASE KeepConfig
  BY <1>4, KeepConfigSetup, Zenon
<1>5. CASE Choose
  BY <1>5, ChooseSetup, Zenon
<1>6. CASE TypeText
  BY <1>6, TypeSetup, Zenon
<1>7. CASE PortUnset
  <2>1. 0 \in Int
    OBVIOUS
  <2>2. QED
    BY <1>7, <2>1, ChoosePortSetup, Zenon
<1>8. ASSUME NEW n \in DevInputs, ChooseDevice(n) \/ RefuseDevice(n)
      PROVE  SetupInv'
  BY <1>8, ChooseDeviceSetup, TypeSetup, Zenon
<1>9. ASSUME NEW n \in PortInputs, ChoosePort(n)
      PROVE  SetupInv'
  <2>1. n \in Int
    BY SetupAssumption, Zenon
  <2>2. QED
    BY <1>9, <2>1, ChoosePortSetup, Zenon
<1>10. CASE PickDevice
  BY <1>10, PickDeviceSetup, Zenon
<1>11. CASE SetPort
  BY <1>11, SetPortSetup, Zenon
<1>12. CASE SetDevice
  BY <1>12, SetDeviceSetup, Zenon
<1>13. CASE Save
  BY <1>13, SaveSetup, Zenon
<1>14. CASE End
  BY <1>14, NoSessionSetup, Zenon DEF End
<1>15. CASE UNCHANGED vars
  <2>1. UNCHANGED <<pc, file, existed, config, static, devs, dev, port, unread,
                    lost, barred, cut>>
    BY <1>15, Zenon DEF vars, session, history
  <2>2. SessionInv' /\ FileInv' /\ ConfigInv' /\ KnownFailures'
    BY <2>1 DEF SetupInv, SessionInv, FileInv, ConfigInv, KnownFailures
  <2>3. StoredInv'
    BY <2>1, Zenon DEF SetupInv, StoredInv, Holds
  <2>4. QED
    BY <2>2, <2>3 DEF SetupInv
<1>16. QED
  BY <1>1, <1>2, <1>3, <1>4, <1>5, <1>6, <1>7, <1>8, <1>9, <1>10, <1>11,
     <1>12, <1>13, <1>14, <1>15, Zenon DEF Next

----------------------------------------------------------------------------
(* What the program promises of its configuration *)

\* What is stored, wherever the processes before this one ended: a
\* configuration has a device below 124, a delimiter and a port of two bytes,
\* and the sniffer's device and port are the ones in it unless realloc moved
\* the block.
THEOREM SetupInvariant == Spec => []SetupInv
<1>1. QED
  BY InitSetup, NextSetup, PTL DEF Spec

\* TypeOK: a port is what an unsigned short holds, also when it was put
\* together from the bytes of a file (get_config_value).
THEOREM SetupTypeOK == Spec => []TypeOK
<1>1. SetupInv => TypeOK
  <2> SUFFICES ASSUME SetupInv PROVE TypeOK
    OBVIOUS
  <2>1. SessionInv /\ FileInv /\ ConfigInv
    BY DEF SetupInv
  <2>2. config \in Octets
    BY <2>1, AbsentIs, Zenon DEF ConfigInv, Shape
  <2>3. file \in Seq(-1 .. 255)
    <3>1. 0 .. 255 \subseteq -1 .. 255
      OBVIOUS
    <3>2. Octets \subseteq Seq(-1 .. 255)
      <4> DEFINE S == 0 .. 255
                 T == -1 .. 255
      <4>1. S \subseteq T
        BY <3>1
      <4> HIDE DEF S, T
      <4>2. \A c \in Seq(S) : c \in Seq(T)
        BY <4>1, SeqMonotonic, Zenon
      <4>3. QED
        BY <4>2, Zenon DEF S, T, Octets
    <3>3. Absent \in Seq(-1 .. 255)
      BY DEF Absent
    <3>4. QED
      BY <2>1, <3>2, <3>3, AbsentIs, Zenon DEF FileInv, Shape
  <2>4. {existed, static, unread, lost, barred, cut} \subseteq BOOLEAN
    BY <2>1, Zenon DEF SessionInv
  <2>5. /\ pc \in {"off", "creating", "ask", "chooseDevice", "choosePort",
                   "device", "setPort", "setDevice", "save", "listening",
                   "fault"}
        /\ devs \in DevCounts \cup {0} /\ dev \in Nat /\ port \in Ports
    BY <2>1, Zenon DEF SessionInv
  <2>6. QED
    BY <2>2, <2>3, <2>4, <2>5, Zenon DEF TypeOK, Octets
<1>2. QED
  BY <1>1, SetupInvariant, PTL

\* StoredIsUsed: what save_config leaves in the file are the device and the
\* port the sniffer listens on, for every sequence of starts, choices and
\* ends, whatever '|' there are in the ports, unless realloc moved the block.
THEOREM SetupStoredIsUsed == Spec => []StoredIsUsed
<1>1. SetupInv => StoredIsUsed
  <2> SUFFICES ASSUME SetupInv, pc = "listening", ~lost
               PROVE  /\ Readable(file, DEVICE) /\ Readable(file, PORT)
                      /\ get_config_value(file, DEVICE) = dev
                      /\ get_config_value(file, PORT) = port
    BY Zenon DEF StoredIsUsed
  <2>1. Shape(file) /\ file[1] = dev /\ Holds(file, port) /\ port \in Ports
    BY Zenon DEF SetupInv, StoredInv, SessionInv
  <2>2. Readable(file, DEVICE) /\ Readable(file, PORT)
    BY <2>1, ShapeLookups, Zenon
  <2>3. get_config_value(file, DEVICE) = dev
    BY <2>1, ShapeValues, Zenon
  <2>4. get_config_value(file, PORT) = (port % 256) + 256 * (port \div 256)
    BY <2>1, ShapeValues, ZenonT(60) DEF Holds
  <2>5. port = (port % 256) + 256 * (port \div 256)
    BY <2>1, PortBytes, ZenonT(60)
  <2>6. QED
    BY <2>2, <2>3, <2>4, <2>5, Zenon
<1>2. QED
  BY <1>1, SetupInvariant, PTL

\* FileKeepsItsSize: as long as no port held a '|', set_config_value and
\* save_config leave the file as long as the default one.
THEOREM SetupFileKeepsItsSize == Spec => []FileKeepsItsSize
<1>1. SetupInv => FileKeepsItsSize
  <2> SUFFICES ASSUME SetupInv, ~barred, file # Absent
               PROVE  Len(file) \in {0, Len(g_default_config)}
    BY Zenon DEF FileKeepsItsSize
  <2>1. file = << >> \/ Clean(file)
    BY Zenon DEF SetupInv, FileInv
  <2>2. Len(g_default_config) = 19
    BY DefaultClean, Zenon DEF Clean
  <2>3. QED
    BY <2>1, <2>2, AbsentIs, Zenon DEF Clean
<1>2. QED
  BY <1>1, SetupInvariant, PTL

\* KnownFailures: a start that finds a written file without a '|' in its port
\* fails only for a device that is not there any more.
THEOREM SetupKnownFailures == Spec => []KnownFailures
<1>1. SetupInv => KnownFailures
  BY DEF SetupInv
<1>2. QED
  BY <1>1, SetupInvariant, PTL
============================================================================
