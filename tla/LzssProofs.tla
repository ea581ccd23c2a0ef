----------------------------- MODULE LzssProofs -----------------------------
(***************************************************************************)
(* Proofs about Lzss, for every input, every address and every size of the *)
(* window: the output stays in the buffer it is written to, the hash lists *)
(* hold the window, and the search finds the longest match in it.          *)
(***************************************************************************)
EXTENDS Lzss, SequenceTheorems, WellFoundedInduction, TLAPS

----------------------------------------------------------------------------
(* Numbers, bytes and sequences *)

Octets == Seq(0 .. 255)

Below == {ss \in Nat \X Nat : ss[1] < ss[2]}

\* Every nonempty set of naturals has a least element.
LEMMA LeastNatural ==
    ASSUME NEW T, T \subseteq Nat, T # {}
    PROVE  \E x \in T : \A y \in T : x <= y
<1>1. IsWellFoundedOn(Below, Nat)
  BY NatLessThanWellFounded, Zenon DEF OpToRel, Below
<1>2. \A x, y \in Nat : ~(<<x, y>> \in Below) => y <= x
  BY DEF Below
<1>3. PICK x \in T : \A y \in T : ~(<<y, x>> \in Below)
  BY <1>1, WFMin, Zenon
<1>4. ASSUME NEW y \in T
      PROVE  x <= y
  <2>1. x \in Nat /\ y \in Nat
    OBVIOUS
  <2>2. QED
    BY <1>2, <1>3, <2>1, Zenon
<1>5. QED
  BY <1>4

\* Two sequences of bytes put together, one that a byte is appended to, and
\* one of whose bytes is replaced.
LEMMA ConcatOctets ==
    ASSUME NEW s \in Octets, NEW t \in Octets
    PROVE  s \o t \in Octets /\ Len(s \o t) = Len(s) + Len(t)
BY ConcatProperties DEF Octets

\* A byte appended to bytes.
LEMMA AppendOctets ==
    ASSUME NEW s \in Octets, NEW x \in 0 .. 255
    PROVE  Append(s, x) \in Octets /\ Len(Append(s, x)) = Len(s) + 1
BY AppendProperties DEF Octets

\* A byte of bytes replaced.
LEMMA ReplaceOctets ==
    ASSUME NEW s \in Octets, NEW k \in 1 .. Len(s), NEW x \in 0 .. 255
    PROVE  [s EXCEPT ![k] = x] \in Octets /\ Len([s EXCEPT ![k] = x]) = Len(s)
BY ExceptSeq DEF Octets

\* Bytes are bytes, and finitely many.
LEMMA LenOctets ==
    ASSUME NEW s \in Octets
    PROVE  Len(s) \in Nat /\ \A k \in 1 .. Len(s) : s[k] \in 0 .. 255
BY LenProperties, ElementOfSeq DEF Octets

\* What the shifts of a command byte leave are bytes.
LEMMA ShiftedByte ==
    ASSUME NEW x \in 0 .. 255
    PROVE  x \div 2 \in 0 .. 127 /\ (x \div 2) + 128 \in 0 .. 255
OBVIOUS

\* The two bytes of a copy.
LEMMA CopyBytes ==
    ASSUME NEW d \in Int, NEW n \in 1 .. 16
    PROVE  /\ (d \div 16) % 256 \in 0 .. 255
           /\ ((d * 16) % 256) + n - 1 \in 0 .. 255
<1>1. (d \div 16) % 256 \in 0 .. 255
  OBVIOUS
<1>2. (d * 16) % 256 \in 0 .. 240
  OBVIOUS
<1>3. QED
  BY <1>1, <1>2

----------------------------------------------------------------------------
(* The invariant of Compress *)

NodeRef == (0 .. window - 1) \cup {None}

ListType == [start : NodeRef, end : NodeRef]

NodeType ==
    [data : (0 .. Len(input) - 1) \cup {None}, prev : NodeRef, next : NodeRef]

CallerType ==
    /\ pc \in {"idle", "loop", "search", "hash", "uncompress", "abandoned",
               "done"}
    /\ window \in Nat /\ window >= 1
    /\ input \in Octets /\ base \in Nat
    /\ ahead \in 0 .. Len(input)

OutputType == out \in Octets /\ cmdAt \in 0 .. Len(out) /\ put \in 0 .. 7

HashType ==
    /\ table \in [0 .. 255 -> ListType]
    /\ pc = "idle" => ahead = 0 /\ table = [b \in 0 .. 255 |-> EmptyList]
    /\ pc # "idle" => target \in [0 .. window - 1 -> NodeType]

\* While there is input left the bytes of a token are among it, and the
\* command byte of the token is in the output.
TokenType ==
    /\ node \in NodeRef
    /\ encLen \in 0 .. LookAhead /\ encPos \in -1 .. Len(input) - 1
    /\ pending \in 0 .. LookAhead
    /\ pc = "idle" => node = None /\ encPos = None /\ out = << >>
    /\ pc = "search" => encLen <= LookAheadLength /\ inputLength > 0
    /\ pc = "hash" => pending <= inputLength
    /\ pc \in {"search", "hash"} \/ put # 0 => cmdAt > 0

\* How much of the buffer is left, behind the header.
Room ==
    /\ pc = "loop" => Len(out) <= Len(input) - 17
    /\ pc = "search" => Len(out) <= Len(input) - 16
    /\ pc = "hash" => Len(out) <= Len(input) - 14
    /\ Len(out) = 0 \/ Len(out) <= Len(input) - 8

CompressInv == CallerType /\ OutputType /\ HashType /\ TokenType /\ Room

----------------------------------------------------------------------------
(* Operators of Compress *)

\* How far the look-ahead reaches.
LEMMA LookAheadLengthType ==
    ASSUME CallerType
    PROVE  /\ Len(input) \in Nat /\ inputLength \in 0 .. Len(input)
           /\ LookAheadLength \in 0 .. LookAhead
           /\ LookAheadLength <= inputLength
           /\ inputLength > 0 => LookAheadLength > 0
<1>1. Len(input) \in Nat
  BY LenOctets DEF CallerType
<1>2. inputLength \in 0 .. Len(input)
  BY <1>1 DEF CallerType, inputLength
<1>3. QED
  BY <1>1, <1>2 DEF LookAheadLength, LookAhead

\* The comparison of two places ends at the first difference.
LEMMA MatchLengthIs ==
    ASSUME CallerType, NEW p
    PROVE  /\ MatchLength(p) \in 0 .. LookAheadLength
           /\ \A j \in 0 .. MatchLength(p) - 1 :
                 InputAt(p + j) = InputAt(ahead + j)
           /\ \/ MatchLength(p) = LookAheadLength
              \/ InputAt(p + MatchLength(p)) # InputAt(ahead + MatchLength(p))
<1> DEFINE Ends(m) ==
             m = LookAheadLength \/ InputAt(p + m) # InputAt(ahead + m)
           T == {m \in 0 .. LookAheadLength : Ends(m)}
           Good(m) == /\ \A j \in 0 .. m - 1 : InputAt(p + j) = InputAt(ahead + j)
                      /\ Ends(m)
<1>1. LookAheadLength \in Nat
  BY LookAheadLengthType DEF LookAhead
<1>2. LookAheadLength \in T /\ T \subseteq Nat
  BY <1>1
<1>3. PICK m \in T : \A y \in T : m <= y
  BY <1>2, LeastNatural, Zenon
<1>4. m \in 0 .. LookAheadLength /\ Ends(m)
  BY <1>3
<1>5. ASSUME NEW j \in 0 .. m - 1
      PROVE  InputAt(p + j) = InputAt(ahead + j)
  <2>1. j \in 0 .. LookAheadLength /\ ~(m <= j)
    BY <1>1, <1>4
  <2>2. j \notin T
    BY <1>3, <2>1, Zenon
  <2>3. QED
    BY <2>1, <2>2, Zenon
<1>6. \E x \in 0 .. LookAheadLength : Good(x)
  BY <1>4, <1>5, Zenon
<1>7. MatchLength(p) = CHOOSE x \in 0 .. LookAheadLength : Good(x)
  BY Zenon DEF MatchLength
<1> HIDE DEF Good
<1>8. MatchLength(p) \in 0 .. LookAheadLength /\ Good(MatchLength(p))
  BY <1>6, <1>7, Zenon
<1>9. QED
  BY <1>8, Zenon DEF Good

\* A byte of the input, a node of the window.
LEMMA InputAtType ==
    ASSUME CallerType, NEW p \in 0 .. Len(input) - 1
    PROVE  InputAt(p) \in 0 .. 255
<1>1. p + 1 \in 1 .. Len(input)
  BY LookAheadLengthType
<1>2. QED
  BY <1>1, LenOctets, Zenon DEF InputAt, CallerType

\* A slot is one of the window.
LEMMA SlotType ==
    ASSUME CallerType, NEW p \in Nat
    PROVE  Slot(p) \in 0 .. window - 1
<1>1. base + p \in Nat /\ window \in Nat /\ window >= 1
  BY DEF CallerType
<1>2. QED
  BY <1>1 DEF Slot

\* The command byte of a token that is put into the output.
LEMMA PowersOfTwo ==
    ASSUME NEW k \in 0 .. 6
    PROVE  2 ^ k \in 1 .. 64
<1> DEFINE P(j) == 2 ^ j
<1>1. /\ P(0) = 1 /\ P(1) = 2 /\ P(2) = 4 /\ P(3) = 8 /\ P(4) = 16
      /\ P(5) = 32 /\ P(6) = 64
  OBVIOUS
<1> HIDE DEF P
<1>2. k \in {0, 1, 2, 3, 4, 5, 6}
  OBVIOUS
<1>3. P(k) \in 1 .. 64
  BY <1>1, <1>2
<1>4. QED
  BY <1>3, Zenon DEF P

\* The open command byte is a byte of the output.
LEMMA LastCommandType ==
    ASSUME OutputType, put # 0, cmdAt > 0
    PROVE  LastCommand \in 0 .. 255
<1> DEFINE x == (out[cmdAt] \div 2) + 128
           d == 2 ^ (7 - put)
<1>1. x \in 0 .. 255
  <2>1. out[cmdAt] \in 0 .. 255
    BY LenOctets DEF OutputType
  <2>2. QED
    BY <2>1, ShiftedByte
<1>2. d \in 1 .. 64
  <2>1. 7 - put \in 0 .. 6
    BY DEF OutputType
  <2>2. QED
    BY <2>1, PowersOfTwo
<1>3. LastCommand = x \div d
  BY DEF LastCommand
<1> HIDE DEF x, d
<1>4. x \div d \in 0 .. 255
  BY <1>1, <1>2
<1>5. QED
  BY <1>3, <1>4

----------------------------------------------------------------------------
(* The invariant of Compress is one *)

\* The invariant of the compression holds before the first call.
LEMMA InitCompress == Init => CompressInv
<1> SUFFICES ASSUME Init PROVE CompressInv
  OBVIOUS
<1>1. << >> \in Octets /\ Len(<< >>) = 0
  BY DEF Octets
<1>2. CallerType
  BY <1>1 DEF Init, CallerType
<1>3. OutputType
  BY <1>1 DEF Init, OutputType
<1>4. HashType
  BY DEF Init, HashType, ListType, NodeRef, EmptyList
<1>5. TokenType
  BY <1>1 DEF Init, TokenType, NodeRef, None, LookAhead
<1>6. Room
  BY <1>1 DEF Init, Room
<1>7. QED
  BY <1>2, <1>3, <1>4, <1>5, <1>6 DEF CompressInv

\* A call of Compress, with a window of any size.
LEMMA StartCompress ==
    ASSUME CompressInv, NEW w \in WindowSizes, NEW x \in Inputs,
           NEW a \in Bases, Start(w, x, a)
    PROVE  CompressInv'
<1>1. w \in Nat /\ w >= 1 /\ x \in Octets /\ a \in Nat
  BY LzssAssumption DEF Octets
<1>2. /\ pc = "idle" /\ window' = w /\ input' = x /\ base' = a
      /\ target' = [s \in 0 .. w - 1 |-> EmptyNode]
      /\ pc' \in {"abandoned", "loop"}
      /\ pc' = "loop" => ~(Len(x) <= HeaderSize + 8)
      /\ UNCHANGED <<ahead, out, cmdAt, put, node, encLen, encPos, pending,
                     table>>
  BY DEF Start, output, match
<1>3. ahead = 0 /\ table = [b \in 0 .. 255 |-> EmptyList] /\ node = None
      /\ encPos = None /\ out = << >> /\ OutputType
      /\ encLen \in 0 .. LookAhead /\ pending \in 0 .. LookAhead
      /\ (put # 0 => cmdAt > 0)
  BY <1>2 DEF CompressInv, HashType, TokenType
<1>4. Len(x) \in Nat /\ Len(<< >>) = 0
  BY <1>1, LenOctets, Zenon
<1>5. CallerType'
  BY <1>1, <1>2, <1>3, <1>4 DEF CallerType
<1>6. OutputType'
  BY <1>2, <1>3 DEF OutputType
<1>7. HashType'
  <2>1. EmptyList \in ListType' /\ EmptyNode \in NodeType'
    BY DEF EmptyList, EmptyNode, ListType, NodeType, NodeRef
  <2>2. table' = [b \in 0 .. 255 |-> EmptyList] /\ pc' # "idle"
    BY <1>2, <1>3
  <2>3. table' \in [0 .. 255 -> ListType']
    BY <2>1, <2>2, Zenon
  <2>4. target' \in [0 .. window' - 1 -> NodeType']
    BY <1>2, <2>1, Zenon
  <2>5. QED
    BY <2>2, <2>3, <2>4, Zenon DEF HashType
<1>8. TokenType'
  <2>1. /\ node' = None /\ encPos' = None /\ out' = << >>
        /\ encLen' \in 0 .. LookAhead /\ pending' \in 0 .. LookAhead
        /\ (put' # 0 => cmdAt' > 0) /\ Len(input') \in Nat
    BY <1>2, <1>3, <1>4
  <2>2. encPos' \in -1 .. Len(input') - 1 /\ node' \in NodeRef'
    BY <2>1 DEF NodeRef, None
  <2>3. pc' \in {"abandoned", "loop"}
    BY <1>2
  <2>4. QED
    BY <2>1, <2>2, <2>3 DEF TokenType
<1>9. Room'
  <2>1. Len(out') = 0 /\ Len(input') \in Nat
    BY <1>2, <1>3, <1>4
  <2>2. pc' = "loop" => Len(input') > 16
    BY <1>2, <1>4 DEF HeaderSize
  <2>3. QED
    BY <1>2, <2>1, <2>2 DEF Room
<1>10. QED
  BY <1>5, <1>6, <1>7, <1>8, <1>9 DEF CompressInv

\* A command byte is opened.
LEMMA BeginTokenCompress ==
    ASSUME CompressInv, BeginToken
    PROVE  CompressInv'
<1> USE DEF CompressInv
<1>1. /\ pc = "loop" /\ pc' = "search" /\ inputLength > 0
      /\ put' = (put + 1) % 8 /\ encLen' = 0
      /\ node' = table[InputAt(ahead)].start
      /\ UNCHANGED <<window, input, base, ahead, header, encPos, pending,
                     table, target>>
  BY DEF BeginToken, caller, hash
<1>2. IF put = 0 THEN out' = Append(out, 0) /\ cmdAt' = Len(out) + 1
                 ELSE out' = out /\ cmdAt' = cmdAt
  BY DEF BeginToken
<1>3. /\ Len(input) \in Nat /\ inputLength \in 0 .. Len(input)
      /\ LookAheadLength \in 0 .. LookAhead
  BY LookAheadLengthType
<1>4. CallerType'
  BY <1>1 DEF CallerType
<1>5. out \in Octets /\ Len(out) \in Nat
  BY LenOctets DEF OutputType
<1>6. /\ out' \in Octets /\ cmdAt' \in 1 .. Len(out')
      /\ Len(out') <= Len(out) + 1 /\ Len(out') \in Nat
  <2>1. CASE put = 0
    <3>1. 0 \in 0 .. 255
      OBVIOUS
    <3>2. out' \in Octets /\ Len(out') = Len(out) + 1
      BY <1>2, <1>5, <2>1, <3>1, AppendOctets
    <3>3. QED
      BY <1>2, <1>5, <2>1, <3>2
  <2>2. CASE put # 0
    BY <1>2, <1>5, <2>2 DEF OutputType, TokenType
  <2>3. QED
    BY <2>1, <2>2
<1>7. OutputType'
  BY <1>1, <1>6 DEF OutputType
<1>8. HashType'
  BY <1>1 DEF HashType, ListType, NodeType, NodeRef
<1>9. TokenType'
  <2>1. InputAt(ahead) \in 0 .. 255
    <3>1. ahead \in 0 .. Len(input) - 1
      BY <1>1, <1>3 DEF CallerType, inputLength
    <3>2. QED
      BY <3>1, InputAtType
  <2>2. node' \in NodeRef
    BY <1>1, <2>1 DEF HashType, ListType
  <2>3. node' \in NodeRef' /\ UNCHANGED <<inputLength, LookAheadLength>>
    BY <1>1, <2>2 DEF NodeRef, inputLength, LookAheadLength
  <2>4. encLen' \in 0 .. LookAhead
    BY <1>1 DEF LookAhead
  <2>5. QED
    BY <1>1, <1>3, <1>6, <2>3, <2>4 DEF TokenType
<1>10. Room'
  BY <1>1, <1>3, <1>5, <1>6 DEF Room
<1>11. QED
  BY <1>4, <1>7, <1>8, <1>9, <1>10

\* One node of the list is compared.
LEMMA SearchCompress ==
    ASSUME CompressInv, Search
    PROVE  CompressInv'
<1> USE DEF CompressInv
<1> DEFINE m == MatchLength(target[node].data)
<1>1. /\ pc = "search" /\ pc' = pc /\ node # None
      /\ node' \in {None, target[node].next}
      /\ \/ encLen' = m /\ encPos' = target[node].data
         \/ UNCHANGED <<encLen, encPos>>
      /\ UNCHANGED <<window, input, base, ahead, header, out, cmdAt, put,
                     pending, table, target>>
  BY DEF Search, caller, hash, output
<1>2. target[node] \in NodeType
  BY <1>1 DEF HashType, TokenType, NodeRef
<1>3. /\ target[node].data \in (0 .. Len(input) - 1) \cup {None}
      /\ target[node].next \in NodeRef
  BY <1>2 DEF NodeType
<1>4. /\ Len(input) \in Nat /\ LookAheadLength \in 0 .. LookAhead
  BY LookAheadLengthType
<1>5. m \in 0 .. LookAheadLength
  BY MatchLengthIs
<1> HIDE DEF m
<1>6. /\ encLen' \in 0 .. LookAhead /\ encLen' <= LookAheadLength
      /\ encPos' \in -1 .. Len(input) - 1
  <2>1. CASE encLen' = m /\ encPos' = target[node].data
    BY <1>3, <1>4, <1>5, <2>1 DEF None, LookAhead
  <2>2. CASE UNCHANGED <<encLen, encPos>>
    BY <1>1, <2>2 DEF TokenType
  <2>3. QED
    BY <1>1, <2>1, <2>2
<1>7. CallerType' /\ OutputType' /\ Room'
  BY <1>1 DEF CallerType, OutputType, Room
<1>8. HashType'
  BY <1>1 DEF HashType, ListType, NodeType, NodeRef
<1>9. TokenType'
  <2>1. node' \in NodeRef' /\ UNCHANGED <<inputLength, LookAheadLength>>
    BY <1>1, <1>3 DEF NodeRef, inputLength, LookAheadLength
  <2>2. QED
    BY <1>1, <1>6, <2>1 DEF TokenType
<1>10. QED
  BY <1>7, <1>8, <1>9

\* The end of an iteration, and of the call.
LEMMA EndTokenCompress ==
    ASSUME CompressInv, EndToken
    PROVE  CompressInv'
<1> USE DEF CompressInv
<1>1. /\ pc = "hash" /\ pending = 0 /\ pc' \in {"abandoned", "loop"}
      /\ pc' = "loop" => ~Full(out)
      /\ UNCHANGED <<window, input, base, ahead, out, cmdAt, put, node, encLen,
                     encPos, pending, table, target>>
  BY DEF EndToken, caller, hash, output, match
<1>2. CallerType' /\ OutputType'
  BY <1>1 DEF CallerType, OutputType
<1>3. HashType'
  BY <1>1 DEF HashType, ListType, NodeType, NodeRef
<1>4. TokenType'
  BY <1>1 DEF TokenType, NodeRef
<1>5. Room'
  <2>1. Len(input) \in Nat /\ Len(out) \in Nat
    BY LenOctets DEF CallerType, OutputType
  <2>2. QED
    BY <1>1, <2>1 DEF Room, Full, HeaderSize
<1>6. QED
  BY <1>2, <1>3, <1>4, <1>5

\* A token of two bytes, or of one, and its bit in the command byte.
LEMMA EmitCompress ==
    ASSUME CompressInv, EmitCopy \/ EmitByte
    PROVE  CompressInv'
<1> USE DEF CompressInv
<1>1. /\ pc = "search" /\ pc' = "hash" /\ inputLength > 0
      /\ UNCHANGED <<window, input, base, ahead, cmdAt, put, node, encPos,
                     table, target>>
  BY DEF EmitCopy, EmitByte, caller, hash, match, TokenType
<1>2. /\ Len(input) \in Nat /\ inputLength \in 0 .. Len(input)
      /\ LookAheadLength \in 0 .. LookAhead /\ LookAheadLength <= inputLength
  BY LookAheadLengthType
<1>3. /\ out \in Octets /\ Len(out) \in Nat /\ cmdAt \in 1 .. Len(out)
      /\ out[cmdAt] \in 0 .. 255
  <2>1. out \in Octets /\ Len(out) \in Nat /\ cmdAt \in 1 .. Len(out)
    BY <1>1, LenOctets DEF OutputType, TokenType
  <2>2. QED
    BY <2>1, LenOctets
<1>4. /\ encLen' \in 0 .. LookAhead /\ pending' \in 0 .. LookAhead
      /\ pending' <= inputLength
  <2>1. CASE EmitCopy
    <3>1. encLen' = encLen /\ pending' = encLen
      BY <2>1 DEF EmitCopy, match
    <3>2. QED
      BY <1>1, <1>2, <3>1 DEF TokenType, LookAhead
  <2>2. CASE EmitByte
    <3>1. encLen' = 1 /\ pending' = 1
      BY <2>2 DEF EmitByte
    <3>2. QED
      BY <1>1, <1>2, <3>1 DEF LookAhead
  <2>3. QED
    BY <2>1, <2>2
<1>5. out' \in Octets /\ Len(out') \in Nat /\ Len(out) <= Len(out')
      /\ Len(out') <= Len(out) + 2
  <2>1. CASE EmitCopy
    <3> DEFINE c == (out[cmdAt] \div 2) + 128
               x == (Position \div 16) % 256
               y == ((Position * 16) % 256) + encLen - 1
               e == [out EXCEPT ![cmdAt] = c]
               t == <<x, y>>
    <3>1. out' = e \o t
      BY <2>1 DEF EmitCopy
    <3>2. c \in 0 .. 255
      BY <1>3, ShiftedByte
    <3>3. Position \in Int /\ encLen \in 1 .. 16
      <4>1. ahead \in Int /\ encPos \in Int
        BY <1>2 DEF CallerType, TokenType
      <4>2. encLen \in 0 .. LookAhead /\ encLen >= 3
        BY <2>1 DEF EmitCopy, TokenType
      <4>3. QED
        BY <4>1, <4>2 DEF Position, LookAhead
    <3>4. x \in 0 .. 255 /\ y \in 0 .. 255
      BY <3>3, CopyBytes
    <3> HIDE DEF c, x, y
    <3>5. e \in Octets /\ Len(e) = Len(out)
      BY <1>3, <3>2, ReplaceOctets
    <3>6. t \in Octets /\ Len(t) = 2
      BY <3>4 DEF Octets
    <3> HIDE DEF e, t
    <3>7. out' \in Octets /\ Len(out') = Len(e) + Len(t)
      BY <3>1, <3>5, <3>6, ConcatOctets
    <3>8. QED
      BY <1>3, <3>5, <3>6, <3>7
  <2>2. CASE EmitByte
    <3> DEFINE c == out[cmdAt] \div 2
               x == InputAt(ahead)
               e == [out EXCEPT ![cmdAt] = c]
    <3>1. out' = Append(e, x)
      BY <2>2 DEF EmitByte
    <3>2. c \in 0 .. 255
      <4>1. c \in 0 .. 127
        BY <1>3, ShiftedByte
      <4> HIDE DEF c
      <4>2. QED
        BY <4>1
    <3>3. x \in 0 .. 255
      <4>1. ahead \in 0 .. Len(input) - 1
        BY <1>1, <1>2 DEF CallerType, inputLength
      <4>2. QED
        BY <4>1, InputAtType
    <3> HIDE DEF c, x
    <3>4. e \in Octets /\ Len(e) = Len(out)
      BY <1>3, <3>2, ReplaceOctets
    <3> HIDE DEF e
    <3>5. out' \in Octets /\ Len(out') = Len(e) + 1
      BY <3>1, <3>3, <3>4, AppendOctets
    <3>6. QED
      BY <1>3, <3>4, <3>5
  <2>3. QED
    BY <2>1, <2>2
<1>6. CallerType'
  BY <1>1 DEF CallerType
<1>7. OutputType'
  BY <1>1, <1>3, <1>5 DEF OutputType
<1>8. HashType'
  BY <1>1 DEF HashType, ListType, NodeType, NodeRef
<1>9. TokenType'
  <2>1. node' \in NodeRef' /\ UNCHANGED <<inputLength, LookAheadLength>>
    BY <1>1 DEF NodeRef, inputLength, LookAheadLength, TokenType
  <2>2. cmdAt' > 0
    BY <1>1, <1>3
  <2>3. encPos' \in -1 .. Len(input') - 1
    BY <1>1 DEF TokenType
  <2>4. QED
    BY <1>1, <1>4, <2>1, <2>2, <2>3 DEF TokenType
<1>10. Room'
  BY <1>1, <1>2, <1>3, <1>5 DEF Room
<1>11. QED
  BY <1>6, <1>7, <1>8, <1>9, <1>10

\* The end mark.
LEMMA TerminateCompress ==
    ASSUME CompressInv, Terminate
    PROVE  CompressInv'
<1> USE DEF CompressInv
<1>1. /\ pc = "loop" /\ pc' = "uncompress"
      /\ cmdAt' = IF put = 0 THEN Len(out) + 1 ELSE cmdAt
      /\ UNCHANGED <<window, input, base, ahead, put, node, encLen, encPos,
                     pending, table, target>>
  BY DEF Terminate, caller, hash, match
<1>2. Len(input) \in Nat /\ out \in Octets /\ Len(out) \in Nat
      /\ <<0, 0>> \in Octets /\ Len(<<0, 0>>) = 2
  <2>1. <<0, 0>> \in Octets /\ Len(<<0, 0>>) = 2
    BY DEF Octets
  <2>2. QED
    BY <2>1, LenOctets DEF CallerType, OutputType
<1>3. /\ out' \in Octets /\ Len(out') \in Nat
      /\ Len(out') <= Len(out) + 3 /\ cmdAt' \in 0 .. Len(out')
      /\ (put' # 0 => cmdAt' > 0)
  <2>1. CASE put = 0
    <3> DEFINE e == Append(out, 1)
    <3>1. out' = e \o <<0, 0>>
      BY <2>1 DEF Terminate
    <3>2. 1 \in 0 .. 255
      OBVIOUS
    <3>3. e \in Octets /\ Len(e) = Len(out) + 1
      BY <1>2, <3>2, AppendOctets
    <3> HIDE DEF e
    <3>4. out' \in Octets /\ Len(out') = Len(e) + Len(<<0, 0>>)
      BY <1>2, <3>1, <3>3, ConcatOctets
    <3>5. QED
      BY <1>1, <1>2, <2>1, <3>3, <3>4
  <2>2. CASE put # 0
    <3> DEFINE c == LastCommand
               e == [out EXCEPT ![cmdAt] = c]
    <3>1. out' = e \o <<0, 0>>
      BY <2>2 DEF Terminate
    <3>2. cmdAt > 0 /\ cmdAt \in 1 .. Len(out)
      BY <1>2, <2>2 DEF TokenType, OutputType
    <3>3. c \in 0 .. 255
      BY <2>2, <3>2, LastCommandType
    <3> HIDE DEF c
    <3>4. e \in Octets /\ Len(e) = Len(out)
      BY <1>2, <3>2, <3>3, ReplaceOctets
    <3> HIDE DEF e
    <3>5. out' \in Octets /\ Len(out') = Len(e) + Len(<<0, 0>>)
      BY <1>2, <3>1, <3>4, ConcatOctets
    <3>6. QED
      BY <1>1, <1>2, <2>2, <3>2, <3>4, <3>5
  <2>3. QED
    BY <2>1, <2>2
<1>4. CallerType' /\ OutputType'
  BY <1>1, <1>3 DEF CallerType, OutputType
<1>5. HashType'
  BY <1>1 DEF HashType, ListType, NodeType, NodeRef
<1>6. TokenType'
  BY <1>1, <1>3 DEF TokenType, NodeRef
<1>7. Room'
  BY <1>1, <1>2, <1>3 DEF Room
<1>8. QED
  BY <1>4, <1>5, <1>6, <1>7

\* A node that is recycled leaves lists and nodes of their types.
LEMMA WithoutType ==
    ASSUME CompressInv, pc # "idle", NEW t \in NodeType
    PROVE  /\ TableWithout(t) \in [0 .. 255 -> ListType]
           /\ TargetWithout(t) \in [0 .. window - 1 -> NodeType]
<1> USE DEF CompressInv
<1>1. /\ table \in [0 .. 255 -> ListType]
      /\ target \in [0 .. window - 1 -> NodeType]
  BY DEF HashType
<1>2. /\ t.data \in (0 .. Len(input) - 1) \cup {None}
      /\ t.prev \in NodeRef /\ None \in NodeRef
  BY DEF NodeType, NodeRef
<1>3. TableWithout(t) \in [0 .. 255 -> ListType]
  <2>1. CASE t.data = None
    BY <1>1, <2>1 DEF TableWithout
  <2>2. CASE t.data # None
    <3> DEFINE b == InputAt(t.data)
    <3>1. b \in 0 .. 255
      BY <1>2, <2>2, InputAtType
    <3> HIDE DEF b
    <3>2. [table EXCEPT ![b] = EmptyList] \in [0 .. 255 -> ListType]
      BY <1>1, <1>2, <3>1 DEF EmptyList, ListType
    <3>3. [table EXCEPT ![b].end = t.prev] \in [0 .. 255 -> ListType]
      <4> DEFINE v == t.prev
                 l == [table[b] EXCEPT !.end = v]
      <4>1. v \in NodeRef
        BY <1>2
      <4> HIDE DEF v
      <4>2. table[b] \in ListType
        BY <1>1, <3>1
      <4>3. l \in ListType
        BY <4>1, <4>2 DEF ListType
      <4> HIDE DEF l
      <4>4. [table EXCEPT ![b] = l] \in [0 .. 255 -> ListType]
        BY <1>1, <3>1, <4>3
      <4>5. QED
        BY <4>4 DEF l, v
    <3>4. QED
      BY <2>2, <3>2, <3>3, Zenon DEF TableWithout, b
  <2>3. QED
    BY <2>1, <2>2
<1>4. TargetWithout(t) \in [0 .. window - 1 -> NodeType]
  <2>1. CASE t.data # None /\ t.prev # None
    <3>1. t.prev \in 0 .. window - 1
      BY <1>2, <2>1 DEF NodeRef
    <3>2. [target EXCEPT ![t.prev].next = None] \in [0 .. window - 1 -> NodeType]
      <4> DEFINE x == t.prev
                 v == [target[x] EXCEPT !.next = None]
      <4>1. x \in 0 .. window - 1 /\ target[x] \in NodeType
        BY <1>1, <3>1
      <4>2. v \in NodeType
        BY <4>1 DEF NodeType, NodeRef
      <4> HIDE DEF x, v
      <4>3. [target EXCEPT ![x] = v] \in [0 .. window - 1 -> NodeType]
        BY <1>1, <4>1, <4>2
      <4>4. QED
        BY <4>3 DEF x, v
    <3>3. QED
      BY <2>1, <3>2, Zenon DEF TargetWithout
  <2>2. CASE ~(t.data # None /\ t.prev # None)
    BY <1>1, <2>2, Zenon DEF TargetWithout
  <2>3. QED
    BY <2>1, <2>2
<1>5. QED
  BY <1>3, <1>4

\* A byte of the token is entered.
LEMMA HashByteCompress ==
    ASSUME CompressInv, HashByte
    PROVE  CompressInv'
<1> USE DEF CompressInv
<1> DEFINE slot == Slot(ahead)
           b == InputAt(ahead)
           lists == TableWithout(target[slot])
           nodes == TargetWithout(target[slot])
           first == lists[b].start
           new == [data |-> ahead, prev |-> None, next |-> first]
           added == [nodes EXCEPT ![slot] = new]
           range == [0 .. window - 1 -> NodeType]
<1>1. /\ pc = "hash" /\ pc' = "hash" /\ pending > 0
      /\ ahead' = ahead + 1 /\ pending' = pending - 1
      /\ UNCHANGED <<window, input, base, header, out, cmdAt, put, node, encLen,
                     encPos>>
  BY DEF HashByte, caller, output, match
<1>2. /\ table' = [lists EXCEPT ![b] =
                     [start |-> slot,
                      end   |-> IF first = None THEN slot ELSE @.end]]
      /\ target' = IF first = None THEN added
                   ELSE [added EXCEPT ![first].prev = slot]
  BY Zenon DEF HashByte, BuildHash
<1>3. Len(input) \in Nat /\ ahead \in 0 .. Len(input) - 1
  <2>1. Len(input) \in Nat /\ ahead \in 0 .. Len(input)
    BY LookAheadLengthType DEF CallerType
  <2>2. pending <= Len(input) - ahead /\ pending \in Int
    BY <1>1 DEF TokenType, inputLength
  <2>3. QED
    BY <1>1, <2>1, <2>2
<1>4. slot \in 0 .. window - 1 /\ b \in 0 .. 255
  BY <1>3, SlotType, InputAtType, SMTT(60)
<1>5. target[slot] \in NodeType
  BY <1>1, <1>4 DEF HashType
<1>6. lists \in [0 .. 255 -> ListType] /\ nodes \in range
  BY <1>1, <1>5, WithoutType
<1>7. first \in NodeRef /\ slot \in NodeRef /\ None \in NodeRef
      /\ lists[b].end \in NodeRef
  <2> HIDE DEF lists, b, slot
  <2>1. QED
    BY <1>4, <1>6 DEF ListType, NodeRef
<1> HIDE DEF lists, b, slot, nodes, first
<1>8. table' \in [0 .. 255 -> ListType]
  BY <1>2, <1>4, <1>6, <1>7 DEF ListType
<1>9. target' \in range
  <2>1. new \in NodeType
    BY <1>3, <1>7 DEF NodeType
  <2>2. added \in range
    <3> HIDE DEF new
    <3>1. QED
      BY <1>4, <1>6, <2>1
  <2>3. CASE first = None
    BY <1>2, <2>2, <2>3
  <2>4. CASE first # None
    <3>1. first \in 0 .. window - 1
      BY <1>7, <2>4 DEF NodeRef
    <3> HIDE DEF added
    <3>2. [added EXCEPT ![first].prev = slot] \in range
      BY <1>7, <2>2, <3>1 DEF NodeType
    <3>3. QED
      BY <1>2, <2>4, <3>2, Zenon
  <2>5. QED
    BY <2>3, <2>4
<1>10. UNCHANGED <<NodeRef, ListType, NodeType>>
  BY <1>1 DEF NodeRef, ListType, NodeType
<1>11. CallerType'
  BY <1>1, <1>3 DEF CallerType
<1>12. OutputType' /\ Room'
  BY <1>1 DEF OutputType, Room
<1>13. HashType'
  BY <1>1, <1>8, <1>9, <1>10 DEF HashType
<1>14. TokenType'
  <2>1. pending' \in 0 .. LookAhead /\ pending' <= inputLength'
    BY <1>1, <1>3 DEF TokenType, inputLength, LookAhead
  <2>2. QED
    BY <1>1, <1>10, <2>1 DEF TokenType
<1>15. QED
  BY <1>11, <1>12, <1>13, <1>14

\* Uncompress reads what Compress has written.
LEMMA UncompressCompress ==
    ASSUME CompressInv, Uncompress
    PROVE  CompressInv'
<1> USE DEF CompressInv
<1>1. /\ pc \in {"abandoned", "uncompress"}
      /\ pc' \in {"abandoned", "uncompress", "done"}
      /\ UNCHANGED <<window, input, base, ahead, header, out, cmdAt, put, node,
                     encLen, encPos, pending, table, target>>
  BY DEF Uncompress, Unrecognized, GetByte, GetCopy, GetEnd, caller, output,
         match, hash
<1>2. CallerType' /\ OutputType' /\ Room'
  BY <1>1 DEF CallerType, OutputType, Room
<1>3. HashType'
  BY <1>1 DEF HashType, ListType, NodeType, NodeRef
<1>4. TokenType'
  BY <1>1 DEF TokenType, NodeRef
<1>5. QED
  BY <1>2, <1>3, <1>4

\* Every step keeps the invariant of the compression.
LEMMA NextCompress == CompressInv /\ [Next]_vars => CompressInv'
<1> SUFFICES ASSUME CompressInv, [Next]_vars PROVE CompressInv'
  OBVIOUS
<1>1. ASSUME NEW w \in WindowSizes, NEW x \in Inputs, NEW a \in Bases,
             Start(w, x, a)
      PROVE  CompressInv'
  BY <1>1, StartCompress
<1>2. CASE Compress
  BY <1>2, BeginTokenCompress, SearchCompress, EmitCompress, HashByteCompress,
     EndTokenCompress, TerminateCompress DEF Compress
<1>3. CASE Uncompress
  BY <1>3, UncompressCompress
<1>4. CASE UNCHANGED vars
  <2>1. UNCHANGED <<pc, window, input, base, ahead, out, cmdAt, put, node,
                    encLen, encPos, pending, table, target>>
    BY <1>4, Zenon DEF vars, caller, output, match, hash
  <2>2. CallerType' /\ OutputType' /\ Room'
    BY <2>1 DEF CompressInv, CallerType, OutputType, Room
  <2>3. HashType'
    BY <2>1 DEF CompressInv, HashType, ListType, NodeType, NodeRef
  <2>4. TokenType'
    BY <2>1 DEF CompressInv, TokenType, NodeRef, inputLength, LookAheadLength
  <2>5. QED
    BY <2>2, <2>3, <2>4 DEF CompressInv
<1>5. QED
  BY <1>1, <1>2, <1>3, <1>4 DEF Next

\* Compress writes bytes only, into the buffer, reads nothing behind its input,
\* and uses no node outside its array.
THEOREM LzssInvariant == Spec => []CompressInv
<1>1. QED
  BY InitCompress, NextCompress, PTL DEF Spec

\* OutputFits: CompressNoAlloc writes nothing behind a buffer as long as its
\* input, although it tests the limit after each token only.
THEOREM LzssOutputFits == Spec => []OutputFits
<1>1. CompressInv => OutputFits
  <2> SUFFICES ASSUME CompressInv PROVE OutputFits
    OBVIOUS
  <2>1. Len(input) \in Nat /\ Len(out) \in Nat
    BY LenOctets DEF CompressInv, CallerType, OutputType
  <2>2. Len(out) = 0 \/ Len(out) <= Len(input) - 8
    BY DEF CompressInv, Room
  <2>3. QED
    BY <2>1, <2>2 DEF OutputFits, HeaderSize
<1>2. QED
  BY <1>1, LzssInvariant, PTL

----------------------------------------------------------------------------
(* Slots, and the first and the last of a set of positions *)

\* Positions less than a window apart have nodes of their own, and the node of
\* a position is the one of the position a window before it.
LEMMA SlotsDiffer ==
    ASSUME CallerType, NEW p \in Nat, NEW q \in Nat, p < q, q < p + window
    PROVE  Slot(p) # Slot(q)
<1> DEFINE w == window
           x == base + p
           y == base + q
           i == x \div w
           j == y \div w
<1>1. w \in Nat /\ w >= 1 /\ x \in Nat /\ y \in Nat /\ x < y /\ y < x + w
  BY DEF CallerType
<1>2. Slot(p) = x % w /\ Slot(q) = y % w
  BY DEF Slot
<1> HIDE DEF w, x, y
<1>3. i \in Int /\ j \in Int /\ x = w * i + (x % w) /\ y = w * j + (y % w)
      /\ x % w \in Int /\ y % w \in Int
  BY <1>1
<1> HIDE DEF i, j
<1>4. ASSUME x % w = y % w
      PROVE  FALSE
  <2> DEFINE k == j - i
  <2>1. k \in Int /\ y - x = w * k
    BY <1>1, <1>3, <1>4
  <2> HIDE DEF k
  <2>2. CASE k <= 0
    <3>1. w * k <= 0
      BY <1>1, <2>1, <2>2
    <3>2. QED
      BY <1>1, <2>1, <3>1
  <2>3. CASE k >= 1
    <3>1. w * k >= w
      BY <1>1, <2>1, <2>3
    <3>2. QED
      BY <1>1, <2>1, <3>1
  <2>4. QED
    BY <2>1, <2>2, <2>3
<1>5. QED
  BY <1>2, <1>4

\* A remainder repeats after a divisor.
LEMMA ModRepeats ==
    ASSUME NEW x \in Nat, NEW w \in Nat, w >= 1
    PROVE  (x + w) % w = x % w
<1> DEFINE i == x \div w
           j == (x + w) \div w
           u == x % w
           v == (x + w) % w
           k == j - (i + 1)
<1>1. /\ i \in Int /\ j \in Int /\ u \in 0 .. w - 1 /\ v \in 0 .. w - 1
      /\ x = w * i + u /\ x + w = w * j + v
  <2>1. x + w \in Nat
    OBVIOUS
  <2>2. QED
    BY <2>1
<1> HIDE DEF i, j, u, v
<1>2. k \in Int /\ w * k = u - v
  BY <1>1
<1> HIDE DEF k
<1>3. ~(k >= 1)
  <2>1. k >= 1 => w * k >= w
    BY <1>2
  <2>2. QED
    BY <1>1, <1>2, <2>1
<1>4. ~(k <= -1)
  <2>1. k <= -1 => w * k <= -w
    BY <1>2
  <2>2. QED
    BY <1>1, <1>2, <2>1
<1>5. k = 0
  BY <1>2, <1>3, <1>4
<1>6. u = v
  BY <1>1, <1>2, <1>5
<1>7. QED
  BY <1>6 DEF u, v

\* Positions a window apart share a slot.
LEMMA SlotRepeats ==
    ASSUME CallerType, NEW p \in Nat
    PROVE  Slot(p + window) = Slot(p)
<1> DEFINE w == window
           x == base + p
<1>1. w \in Nat /\ w >= 1 /\ x \in Nat /\ base + (p + w) = x + w
  BY DEF CallerType
<1>2. Slot(p) = x % w /\ Slot(p + window) = (x + w) % w
  BY <1>1 DEF Slot
<1> HIDE DEF w, x
<1>3. (x + w) % w = x % w
  BY <1>1, ModRepeats, Zenon
<1>4. QED
  BY <1>2, <1>3

\* SlotOfMax and SlotOfMin of a set whose last or first position is known.
LEMMA MaxIs ==
    ASSUME NEW S, S \subseteq Int, NEW m \in S, \A q \in S : q <= m
    PROVE  SlotOfMax(S) = Slot(m)
<1> DEFINE c == CHOOSE p \in S : \A q \in S : q <= p
<1>1. c \in S /\ \A q \in S : q <= c
  BY Zenon
<1>2. SlotOfMax(S) = Slot(c)
  BY Zenon DEF SlotOfMax
<1> HIDE DEF c
<1>3. c = m
  BY <1>1
<1>4. QED
  BY <1>2, <1>3

\* The slot of the least position.
LEMMA MinIs ==
    ASSUME NEW S, S \subseteq Int, NEW m \in S, \A q \in S : m <= q
    PROVE  SlotOfMin(S) = Slot(m)
<1> DEFINE c == CHOOSE p \in S : \A q \in S : p <= q
<1>1. c \in S /\ \A q \in S : c <= q
  BY Zenon
<1>2. SlotOfMin(S) = Slot(c)
  BY Zenon DEF SlotOfMin
<1> HIDE DEF c
<1>3. c = m
  BY <1>1
<1>4. QED
  BY <1>2, <1>3

\* No position has no slot.
LEMMA NoSlot == SlotOfMax({}) = None /\ SlotOfMin({}) = None
BY DEF SlotOfMax, SlotOfMin

\* Finitely many positions have a last one.
LEMMA HasMax ==
    ASSUME NEW n \in Nat, NEW S, S \subseteq 0 .. n, S # {}
    PROVE  \E m \in S : \A q \in S : q <= m
<1> DEFINE T == {n - q : q \in S}
<1>1. T \subseteq Nat /\ T # {}
  <2>1. \A q \in S : n - q \in Nat
    OBVIOUS
  <2>2. QED
    BY <2>1, Zenon
<1>2. PICK x \in T : \A y \in T : x <= y
  BY <1>1, LeastNatural, Zenon
<1>3. PICK m \in S : x = n - m
  BY <1>2
<1>4. ASSUME NEW q \in S
      PROVE  q <= m
  <2>1. n - q \in T
    BY Zenon
  <2>2. n - m <= n - q
    BY <1>2, <1>3, <2>1, Zenon
  <2>3. q \in Int /\ m \in Int
    OBVIOUS
  <2>4. QED
    BY <2>2, <2>3
<1>5. QED
  BY <1>4

\* Finitely many positions have a first one.
LEMMA HasMin ==
    ASSUME NEW n \in Nat, NEW S, S \subseteq 0 .. n, S # {}
    PROVE  \E m \in S : \A q \in S : m <= q
<1>1. S \subseteq Nat
  OBVIOUS
<1>2. QED
  BY <1>1, LeastNatural, Zenon

----------------------------------------------------------------------------
(* The lists of a set of positions *)

In(W, b) == {p \in W : InputAt(p) = b}

Later(W, p) == {q \in In(W, InputAt(p)) : q > p}

Earlier(W, p) == {q \in In(W, InputAt(p)) : q < p}

NodeOf(W, p) ==
    [data |-> p, prev |-> SlotOfMin(Later(W, p)),
     next |-> SlotOfMax(Earlier(W, p))]

ListOf(W, b) == [start |-> SlotOfMax(In(W, b)), end |-> SlotOfMin(In(W, b))]

\* The nodes and the lists are those of the positions in W, which are less
\* than a window apart.
Hold(nodes, lists, W) ==
    /\ \A p \in W : nodes[Slot(p)] = NodeOf(W, p)
    /\ \A b \in 0 .. 255 : lists[b] = ListOf(W, b)

Positions(W) ==
    /\ W \subseteq 0 .. Len(input) - 1
    /\ \A p, q \in W : p < q => q < p + window

\* The nodes of other positions have not been used.
Fresh(nodes, W) ==
    \A s \in 0 .. window - 1 : (\A p \in W : Slot(p) # s) => nodes[s] = EmptyNode

HashInv ==
    /\ Hold(target, table, Window)
    /\ pc # "idle" => Fresh(target, Window)

\* Positions less than a window apart have different nodes.
LEMMA PositionFacts ==
    ASSUME CallerType, NEW W, Positions(W)
    PROVE  /\ Len(input) \in Nat
           /\ W \subseteq Int /\ W \subseteq Nat
           /\ W \subseteq 0 .. Len(input)
           /\ \A p \in W : Slot(p) \in 0 .. window - 1 /\ Slot(p) # None
           /\ \A p \in W : InputAt(p) \in 0 .. 255
           /\ \A p, q \in W : p # q => Slot(p) # Slot(q)
<1>1. Len(input) \in Nat /\ W \subseteq 0 .. Len(input) - 1
  BY LookAheadLengthType DEF Positions
<1>2. W \subseteq Int /\ W \subseteq Nat /\ W \subseteq 0 .. Len(input)
  BY <1>1
<1>3. ASSUME NEW p \in W
      PROVE  Slot(p) \in 0 .. window - 1 /\ Slot(p) # None
  <2>1. Slot(p) \in 0 .. window - 1
    BY <1>2, SlotType
  <2>2. QED
    BY <2>1 DEF None, CallerType
<1>4. ASSUME NEW p \in W
      PROVE  InputAt(p) \in 0 .. 255
  BY <1>1, InputAtType
<1>5. ASSUME NEW p \in W, NEW q \in W, p # q
      PROVE  Slot(p) # Slot(q)
  <2>1. p \in Nat /\ q \in Nat
    BY <1>2
  <2>2. CASE p < q
    BY <2>1, <2>2, SlotsDiffer DEF Positions
  <2>3. CASE q < p
    BY <2>1, <2>3, SlotsDiffer DEF Positions
  <2>4. QED
    BY <1>5, <2>1, <2>2, <2>3
<1>6. QED
  BY <1>1, <1>2, <1>3, <1>4, <1>5

\* A recycled node was the last one of its list: what is left are the lists of
\* the other positions.
LEMMA RecycledNode ==
    ASSUME CompressInv, pc # "idle", NEW W, Positions(W),
           Hold(target, table, W),
           NEW o \in W, \A p \in W : o <= p
    PROVE  Hold(TargetWithout(target[Slot(o)]), TableWithout(target[Slot(o)]),
                W \ {o})
<1> DEFINE V == W \ {o}
           t == target[Slot(o)]
           b == InputAt(o)
           S == In(W, b)
           R == In(V, b)
           nodes == TargetWithout(t)
           lists == TableWithout(t)
<1>1. CallerType /\ table \in [0 .. 255 -> ListType]
      /\ target \in [0 .. window - 1 -> NodeType]
  BY DEF CompressInv, HashType
<1>2. /\ Len(input) \in Nat
      /\ W \subseteq Int /\ W \subseteq Nat
      /\ W \subseteq 0 .. Len(input)
      /\ \A p \in W : Slot(p) \in 0 .. window - 1 /\ Slot(p) # None
      /\ \A p \in W : InputAt(p) \in 0 .. 255
      /\ \A p, q \in W : p # q => Slot(p) # Slot(q)
  BY <1>1, PositionFacts, Zenon
<1>3. /\ \A p \in W : target[Slot(p)] = NodeOf(W, p)
      /\ \A c \in 0 .. 255 : table[c] = ListOf(W, c)
  BY Zenon DEF Hold
<1>4. \A c : c # b => In(V, c) = In(W, c)
  BY DEF In
<1>5. Later(W, o) = R
  <2>1. \A q \in W : q > o <=> q # o
    BY <1>2
  <2>2. QED
    BY <2>1 DEF Later, In
<1>6. t = NodeOf(W, o)
  BY <1>3
<1>7. t.data = o /\ t.prev = SlotOfMin(R) /\ t.data # None
  <2>1. t.data = o /\ t.prev = SlotOfMin(R)
    BY <1>5, <1>6 DEF NodeOf
  <2>2. o # None
    BY <1>2 DEF None
  <2>3. QED
    BY <2>1, <2>2
<1>8. \A p \in V : Later(V, p) = Later(W, p)
  <2>1. \A p, q \in W : q > p => q # o
    BY <1>2
  <2>2. QED
    BY <2>1, Zenon DEF Later, In
<1>9. \A p \in V : InputAt(p) # b => Earlier(V, p) = Earlier(W, p)
  <2>1. \A p \in V : InputAt(p) # b => In(V, InputAt(p)) = In(W, InputAt(p))
    BY <1>4, Zenon
  <2>2. QED
    BY <2>1, Zenon DEF Earlier
<1>10. CASE R = {}
  <2>1. t.prev = None
    BY <1>7, <1>10, NoSlot, Zenon
  <2>2. nodes = target /\ lists = [table EXCEPT ![b] = EmptyList]
    BY <1>7, <2>1, Zenon DEF TargetWithout, TableWithout
  <2>3. \A p \in V : InputAt(p) # b
    BY <1>10, Zenon DEF In
  <2>4. \A p \in V : nodes[Slot(p)] = NodeOf(V, p)
    BY <1>3, <1>8, <1>9, <2>2, <2>3, Zenon DEF NodeOf
  <2>5. ASSUME NEW c \in 0 .. 255
        PROVE  lists[c] = ListOf(V, c)
    <3>1. CASE c = b
      <4>1. lists[c] = EmptyList
        BY <1>1, <2>2, <3>1
      <4>2. ListOf(V, c) = [start |-> None, end |-> None]
        BY <1>10, <3>1, NoSlot, Zenon DEF ListOf
      <4>3. QED
        BY <4>1, <4>2, Zenon DEF EmptyList
    <3>2. CASE c # b
      <4>1. lists[c] = table[c]
        BY <1>1, <2>2, <3>2
      <4>2. QED
        BY <1>3, <1>4, <3>2, <4>1, Zenon DEF ListOf
    <3>3. QED
      BY <3>1, <3>2
  <2>6. QED
    BY <2>4, <2>5, Zenon DEF Hold
<1>11. CASE R # {}
  <2>1. R \subseteq W /\ R \subseteq S /\ S \subseteq W
    BY Zenon DEF In
  <2>2. R \subseteq 0 .. Len(input)
    BY <1>2, <2>1, Zenon
  <2>3. PICK m \in R : \A q \in R : m <= q
    BY <1>2, <1>11, <2>2, HasMin, Zenon
  <2>4. m \in W /\ m # o /\ InputAt(m) = b /\ o < m /\ m \in Int /\ o \in Int
    BY <1>2, <2>1 DEF In
  <2>5. t.prev = Slot(m) /\ t.prev # None /\ Slot(m) \in 0 .. window - 1
    <3>1. R \subseteq Int
      BY <1>2, <2>1, Zenon
    <3>2. SlotOfMin(R) = Slot(m)
      BY <2>3, <3>1, MinIs, Zenon
    <3>3. QED
      BY <1>2, <1>7, <2>4, <3>2, Zenon
  <2>6. /\ nodes = [target EXCEPT ![Slot(m)].next = None]
        /\ lists = [table EXCEPT ![b].end = Slot(m)]
    BY <1>7, <2>5, Zenon DEF TargetWithout, TableWithout
  <2>7. \A X : X \subseteq W /\ m \in X => SlotOfMax(X \ {o}) = SlotOfMax(X)
    <3> SUFFICES ASSUME NEW X, X \subseteq W, m \in X
                 PROVE  SlotOfMax(X \ {o}) = SlotOfMax(X)
      BY Zenon
    <3>1. X \subseteq 0 .. Len(input) /\ X # {} /\ X \subseteq Int
          /\ X \ {o} \subseteq Int
      BY <1>2, Zenon
    <3>2. PICK x \in X : \A q \in X : q <= x
      BY <1>2, <3>1, HasMax, Zenon
    <3>3. m <= x /\ x \in Int
      BY <3>1, <3>2, Zenon
    <3>4. x # o
      BY <2>4, <3>3
    <3>5. SlotOfMax(X) = Slot(x)
      BY <3>1, <3>2, MaxIs, Zenon
    <3>6. SlotOfMax(X \ {o}) = Slot(x)
      <4>1. x \in X \ {o} /\ \A q \in X \ {o} : q <= x
        BY <3>2, <3>4, Zenon
      <4>2. QED
        BY <3>1, <4>1, MaxIs, Zenon
    <3>7. QED
      BY <3>5, <3>6, Zenon
  <2>8. ASSUME NEW p \in V
        PROVE  nodes[Slot(p)] = NodeOf(V, p)
    <3>0. p \in W /\ p # o /\ target[Slot(p)] = NodeOf(W, p)
          /\ Later(V, p) = Later(W, p) /\ Slot(p) \in 0 .. window - 1
          /\ p \in Int
      BY <1>2, <1>3, <1>8, Zenon
    <3>1. CASE p = m
      <4>1. Earlier(V, p) = {}
        <5>1. \A q \in R : ~(q < m)
          BY <1>2, <2>1, <2>3, <2>4
        <5>2. QED
          BY <2>4, <3>1, <5>1, Zenon DEF Earlier
      <4>2. nodes[Slot(p)] = [target[Slot(p)] EXCEPT !.next = None]
        BY <1>1, <2>6, <3>0, <3>1
      <4>3. [NodeOf(W, p) EXCEPT !.next = None] = NodeOf(V, p)
        <5> DEFINE x == SlotOfMin(Later(W, p))
                   y == SlotOfMax(Earlier(W, p))
        <5>1. NodeOf(W, p) = [data |-> p, prev |-> x, next |-> y]
          BY Zenon DEF NodeOf
        <5>2. NodeOf(V, p) = [data |-> p, prev |-> x, next |-> None]
          BY <3>0, <4>1, NoSlot, Zenon DEF NodeOf
        <5> HIDE DEF x, y
        <5>3. QED
          BY <5>1, <5>2
      <4>4. QED
        BY <3>0, <4>2, <4>3, Zenon
    <3>2. CASE p # m
      <4>1. Slot(p) # Slot(m)
        BY <1>2, <2>4, <3>0, <3>2, Zenon
      <4>2. nodes[Slot(p)] = target[Slot(p)]
        BY <1>1, <2>6, <3>0, <4>1
      <4>3. SlotOfMax(Earlier(V, p)) = SlotOfMax(Earlier(W, p))
        <5>1. CASE InputAt(p) # b
          BY <1>9, <5>1, Zenon
        <5>2. CASE InputAt(p) = b
          <6>1. p \in R
            BY <5>2, Zenon DEF In
          <6>2. m < p
            BY <2>3, <2>4, <3>0, <3>2, <6>1
          <6>3. m \in Earlier(W, p) /\ Earlier(W, p) \subseteq W
            BY <2>4, <5>2, <6>2, Zenon DEF Earlier, In
          <6>4. Earlier(V, p) = Earlier(W, p) \ {o}
            BY Zenon DEF Earlier, In
          <6>5. QED
            BY <2>7, <6>3, <6>4, Zenon
        <5>3. QED
          BY <5>1, <5>2
      <4>4. QED
        BY <3>0, <4>2, <4>3, Zenon DEF NodeOf
    <3>3. QED
      BY <3>1, <3>2
  <2>9. ASSUME NEW c \in 0 .. 255
        PROVE  lists[c] = ListOf(V, c)
    <3>1. CASE c = b
      <4>1. lists[c] = [table[c] EXCEPT !.end = Slot(m)]
        BY <1>1, <2>6, <3>1
      <4>2. table[c] = ListOf(W, c)
        BY <1>3
      <4>3. SlotOfMax(R) = SlotOfMax(S)
        <5>1. R = S \ {o} /\ m \in S
          BY <2>1, Zenon DEF In
        <5>2. QED
          BY <2>1, <2>7, <5>1, Zenon
      <4>4. SlotOfMin(R) = Slot(m)
        BY <1>7, <2>5, Zenon
      <4>5. [ListOf(W, c) EXCEPT !.end = Slot(m)] = ListOf(V, c)
        BY <3>1, <4>3, <4>4 DEF ListOf
      <4>6. QED
        BY <4>1, <4>2, <4>5, Zenon
    <3>2. CASE c # b
      <4>1. lists[c] = table[c]
        BY <1>1, <2>6, <3>2
      <4>2. QED
        BY <1>3, <1>4, <3>2, <4>1, Zenon DEF ListOf
    <3>3. QED
      BY <3>1, <3>2
  <2>10. QED
    BY <2>8, <2>9, Zenon DEF Hold
<1>12. QED
  BY <1>10, <1>11

\* What BuildHash makes of the lists without the recycled node.
Entered(nodes, lists, p) ==
    LET first == lists[InputAt(p)].start
        added == [nodes EXCEPT ![Slot(p)] =
                    [data |-> p, prev |-> None, next |-> first]]
    IN  IF first = None THEN added ELSE [added EXCEPT ![first].prev = Slot(p)]

Started(lists, p) ==
    [lists EXCEPT ![InputAt(p)] =
       [start |-> Slot(p),
        end   |-> IF lists[InputAt(p)].start = None THEN Slot(p) ELSE @.end]]

\* The nodes of other positions than those in W are what they were.
Untouched(after, before, W) ==
    \A s \in 0 .. window - 1 :
        (\A q \in W : Slot(q) # s) => after[s] = before[s]

\* The link of a node to the one in front of it.
WithPrev(t, z) == [t EXCEPT !.prev = z]

Linked(d, x, y) == [data |-> d, prev |-> x, next |-> y]

\* A node of which only the previous one changes.
LEMMA SetPrev ==
    ASSUME NEW d, NEW x, NEW y, NEW z
    PROVE  WithPrev(Linked(d, x, y), z) = Linked(d, z, y)
BY DEF WithPrev, Linked

\* The last position is not among those before it.
LEMMA Behind ==
    ASSUME NEW V, NEW p \in Int, V \subseteq Int, \A q \in V : q < p
    PROVE  /\ p \notin V
           /\ \A q \in V : q <= p /\ ~(q > p) /\ ~(p < q)
           /\ p <= p /\ ~(p > p) /\ ~(p < p)
OBVIOUS

\* The new position is in front of its list, and the position that was there
\* is linked to it.
LEMMA EnteredNode ==
    ASSUME CompressInv,
           NEW nodes \in [0 .. window - 1 -> NodeType],
           NEW lists \in [0 .. 255 -> ListType],
           NEW V, NEW p, Positions(V \cup {p}), \A q \in V : q < p,
           Hold(nodes, lists, V)
    PROVE  /\ Hold(Entered(nodes, lists, p), Started(lists, p), V \cup {p})
           /\ Untouched(Entered(nodes, lists, p), nodes, V \cup {p})
<1> DEFINE W == V \cup {p}
           b == InputAt(p)
           S == In(V, b)
           first == lists[b].start
           new == [data |-> p, prev |-> None, next |-> first]
           added == [nodes EXCEPT ![Slot(p)] = new]
           after == Entered(nodes, lists, p)
           heads == Started(lists, p)
<1>1. CallerType
  BY DEF CompressInv
<1>2. /\ Len(input) \in Nat
      /\ W \subseteq Int /\ W \subseteq Nat
      /\ W \subseteq 0 .. Len(input)
      /\ \A q \in W : Slot(q) \in 0 .. window - 1 /\ Slot(q) # None
      /\ \A q \in W : InputAt(q) \in 0 .. 255
      /\ \A x, y \in W : x # y => Slot(x) # Slot(y)
  BY <1>1, PositionFacts, ZenonT(60)
<1>3. p \in W /\ p \in Int /\ b \in 0 .. 255 /\ Slot(p) \in 0 .. window - 1
      /\ V \subseteq W /\ V \subseteq Int
  BY <1>2, Zenon
<1> DEFINE NotBefore(q) == q <= p /\ ~(q > p) /\ ~(p < q)
<1>0. /\ p \notin V /\ NotBefore(p) /\ ~(p < p)
      /\ \A q \in V : NotBefore(q) /\ q < p
  BY <1>3, Behind, ZenonT(60)
<1>4. /\ \A q \in V : nodes[Slot(q)] = NodeOf(V, q)
      /\ \A c \in 0 .. 255 : lists[c] = ListOf(V, c)
  BY Zenon DEF Hold
<1>5. \A c : c # b => In(W, c) = In(V, c)
  BY DEF In
<1>6. In(W, b) = S \cup {p} /\ S \subseteq V /\ p \notin V
  BY <1>0, Zenon DEF In
<1>7. first = SlotOfMax(S) /\ lists[b].end = SlotOfMin(S)
  <2>1. lists[b] = ListOf(V, b)
    BY <1>3, <1>4, Zenon
  <2>2. QED
    BY <2>1 DEF ListOf
<1>8. S \cup {p} \subseteq Int /\ S \subseteq Int /\ S \subseteq 0 .. Len(input)
      /\ \A q \in S \cup {p} : q <= p
  <2>1. S \cup {p} \subseteq W
    BY <1>6, Zenon
  <2>2. \A q \in W : q <= p
    BY <1>0, Zenon
  <2>3. QED
    BY <1>2, <2>1, <2>2, Zenon
<1>9. SlotOfMax(S \cup {p}) = Slot(p)
  <2>1. p \in S \cup {p}
    OBVIOUS
  <2>2. QED
    BY <1>8, <2>1, MaxIs, Zenon
<1>10. \A q \in V : Slot(q) # Slot(p) /\ Slot(q) \in 0 .. window - 1
  BY <1>2, <1>3, <1>6, Zenon
<1>11. Later(W, p) = {} /\ Earlier(W, p) = S
  <2>1. \A q \in S \cup {p} : ~(q > p)
    BY <1>0, <1>6, Zenon
  <2>2. \A q \in S \cup {p} : q < p <=> q \in S
    BY <1>0, <1>6, Zenon
  <2>3. QED
    BY <1>6, <2>1, <2>2, Zenon DEF Later, Earlier
<1>12. NodeOf(W, p) = new
  BY <1>7, <1>11, NoSlot, Zenon DEF NodeOf
<1>13. \A q \in V : Earlier(W, q) = Earlier(V, q)
  <2>1. \A q \in V : ~(p < q)
    BY <1>0, Zenon
  <2>2. QED
    BY <2>1, Zenon DEF Earlier, In
<1>14. \A q \in V : InputAt(q) # b => Later(W, q) = Later(V, q)
  <2>1. \A q \in V : InputAt(q) # b => In(W, InputAt(q)) = In(V, InputAt(q))
    BY <1>5, Zenon
  <2>2. QED
    BY <2>1, Zenon DEF Later
<1>15. /\ \A q \in V : added[Slot(q)] = NodeOf(V, q)
       /\ added[Slot(p)] = new
       /\ \A s \in 0 .. window - 1 : s # Slot(p) => added[s] = nodes[s]
       /\ DOMAIN added = 0 .. window - 1
  <2> HIDE DEF new
  <2>1. /\ \A s \in 0 .. window - 1 : s # Slot(p) => added[s] = nodes[s]
        /\ added[Slot(p)] = new /\ DOMAIN added = 0 .. window - 1
    BY <1>3
  <2>2. QED
    BY <1>4, <1>10, <2>1, Zenon
<1> HIDE DEF added
<1>16. ASSUME NEW c \in 0 .. 255, c # b
       PROVE  heads[c] = ListOf(W, c)
  <2>1. heads[c] = lists[c]
    BY <1>16 DEF Started
  <2>2. QED
    BY <1>4, <1>5, <1>16, <2>1, Zenon DEF ListOf
<1>17. heads[b] = [start |-> Slot(p),
                   end |-> IF first = None THEN Slot(p) ELSE lists[b].end]
  BY <1>3 DEF Started
<1>18. CASE S = {}
  <2>1. first = None
    BY <1>7, <1>18, NoSlot, Zenon
  <2>2. after = added
    BY <2>1, Zenon DEF Entered, added
  <2>3. \A q \in V : InputAt(q) # b
    BY <1>18, Zenon DEF In
  <2>4. \A q \in V : NodeOf(W, q) = NodeOf(V, q)
    BY <1>13, <1>14, <2>3, Zenon DEF NodeOf
  <2>5. \A q \in W : after[Slot(q)] = NodeOf(W, q)
    BY <1>12, <1>15, <2>2, <2>4, Zenon
  <2>6. heads[b] = ListOf(W, b)
    <3>1. SlotOfMin(S \cup {p}) = Slot(p)
      <4>1. p \in S \cup {p} /\ \A q \in S \cup {p} : p <= q
        BY <1>3, <1>18
      <4>2. QED
        BY <1>8, <4>1, MinIs, Zenon
    <3>2. heads[b] = [start |-> Slot(p), end |-> Slot(p)]
      BY <1>17, <2>1, Zenon
    <3>3. QED
      BY <1>6, <1>9, <3>1, <3>2, Zenon DEF ListOf
  <2>7. \A s \in 0 .. window - 1 :
           (\A q \in W : Slot(q) # s) => after[s] = nodes[s]
    BY <1>3, <1>15, <2>2, Zenon
  <2>8. Hold(after, heads, W)
    BY <1>16, <2>5, <2>6, Zenon DEF Hold
  <2>9. QED
    BY <2>7, <2>8, Zenon DEF Untouched
<1>19. CASE S # {}
  <2>1. PICK m \in S : \A q \in S : q <= m
    BY <1>2, <1>8, <1>19, HasMax, Zenon
  <2>2. m \in V /\ m \in W /\ InputAt(m) = b /\ m \in Int
    BY <1>2, <1>3, <1>6, Zenon DEF In
  <2>3. first = Slot(m)
    BY <1>7, <1>8, <2>1, MaxIs, Zenon
  <2>4. first # None /\ first \in 0 .. window - 1 /\ first # Slot(p)
    BY <1>2, <1>10, <2>2, <2>3, ZenonT(60)
  <2>5. after = [added EXCEPT ![first].prev = Slot(p)]
    BY <2>4, Zenon DEF Entered, added
  <2>6. /\ after[first] = WithPrev(added[first], Slot(p))
        /\ \A s \in 0 .. window - 1 : s # first => after[s] = added[s]
    <3> HIDE DEF first
    <3>1. QED
      BY <1>15, <2>4, <2>5 DEF WithPrev
  <2>7. ASSUME NEW q \in V
        PROVE  after[Slot(q)] = NodeOf(W, q)
    <3>1. CASE q = m
      <4> DEFINE x == SlotOfMin(Later(V, q))
                 y == SlotOfMax(Earlier(V, q))
      <4>1. NodeOf(V, q) = Linked(q, x, y)
        BY Zenon DEF NodeOf, Linked
      <4>2. Later(W, q) = {p}
        <5>1. \A j \in S : ~(j > m)
          BY <1>8, <2>1, <2>2
        <5>2. p > m
          BY <1>3, <2>2
        <5>3. Later(W, q) = {j \in S \cup {p} : j > m}
          BY <1>6, <2>2, <3>1, Zenon DEF Later
        <5>4. QED
          BY <5>1, <5>2, <5>3, Zenon
      <4>3. SlotOfMin({p}) = Slot(p)
        <5> DEFINE X == {p}
        <5>1. p <= p
          BY <1>3
        <5>2. p \in X /\ X \subseteq Int /\ \A j \in X : p <= j
          BY <1>3, <5>1, Zenon
        <5> HIDE DEF X
        <5>3. SlotOfMin(X) = Slot(p)
          BY <5>2, MinIs, Zenon
        <5>4. QED
          BY <5>3 DEF X
      <4>4. NodeOf(W, q) = Linked(q, Slot(p), y)
        BY <1>13, <4>2, <4>3, Zenon DEF NodeOf, Linked
      <4>5. added[first] = NodeOf(V, q) /\ Slot(q) = first
        BY <1>15, <2>3, <3>1, Zenon
      <4> HIDE DEF x, y
      <4>6. WithPrev(NodeOf(V, q), Slot(p)) = NodeOf(W, q)
        <5>1. WithPrev(Linked(q, x, y), Slot(p)) = Linked(q, Slot(p), y)
          BY SetPrev
        <5>2. QED
          BY <4>1, <4>4, <5>1
      <4>7. QED
        BY <2>6, <4>5, <4>6, Zenon
    <3>2. CASE q # m
      <4>1. Slot(q) # first /\ Slot(q) \in 0 .. window - 1
        BY <1>2, <1>10, <2>2, <2>3, <3>2, Zenon
      <4>2. after[Slot(q)] = NodeOf(V, q)
        BY <1>15, <2>6, <4>1, Zenon
      <4>3. SlotOfMin(Later(W, q)) = SlotOfMin(Later(V, q))
        <5>1. CASE InputAt(q) # b
          BY <1>14, <5>1, Zenon
        <5>2. CASE InputAt(q) = b
          <6> DEFINE L == {j \in S : j > q}
          <6>1. q \in S /\ q \in Int
            BY <1>2, <1>3, <5>2, Zenon DEF In
          <6>2. m > q /\ p > q
            BY <1>3, <2>1, <2>2, <3>2, <6>1
          <6>3. Later(V, q) = L
            BY <5>2, Zenon DEF Later
          <6>4. Later(W, q) = L \cup {p}
            BY <1>6, <5>2, <6>2, Zenon DEF Later
          <6>5. m \in L /\ L \subseteq 0 .. Len(input) /\ L \subseteq Int
                /\ L \cup {p} \subseteq Int
            BY <1>3, <1>8, <6>2, Zenon
          <6>6. PICK l \in L : \A j \in L : l <= j
            BY <1>2, <6>5, HasMin, Zenon
          <6>7. l <= p
            BY <1>3, <1>8, <6>6
          <6> HIDE DEF L
          <6>8. SlotOfMin(L) = Slot(l)
            BY <6>5, <6>6, MinIs, Zenon
          <6>9. SlotOfMin(L \cup {p}) = Slot(l)
            <7>1. l \in L \cup {p} /\ \A j \in L \cup {p} : l <= j
              BY <6>6, <6>7, Zenon
            <7>2. QED
              BY <6>5, <7>1, MinIs, Zenon
          <6>10. QED
            BY <6>3, <6>4, <6>8, <6>9, Zenon
        <5>3. QED
          BY <5>1, <5>2
      <4>4. QED
        BY <1>13, <4>2, <4>3, Zenon DEF NodeOf
    <3>3. QED
      BY <3>1, <3>2
  <2>8. after[Slot(p)] = NodeOf(W, p)
    BY <1>3, <1>12, <1>15, <2>4, <2>6, Zenon
  <2>9. heads[b] = ListOf(W, b)
    <3>1. PICK l \in S : \A q \in S : l <= q
      BY <1>2, <1>8, <1>19, HasMin, Zenon
    <3>2. SlotOfMin(S) = Slot(l)
      BY <1>8, <3>1, MinIs, Zenon
    <3>3. SlotOfMin(S \cup {p}) = Slot(l)
      <4>1. l \in S \cup {p} /\ \A q \in S \cup {p} : l <= q
        BY <1>8, <3>1, Zenon
      <4>2. QED
        BY <1>8, <4>1, MinIs, Zenon
    <3>4. heads[b] = [start |-> Slot(p), end |-> lists[b].end]
      BY <1>17, <2>4, Zenon
    <3>5. QED
      BY <1>6, <1>7, <1>9, <3>2, <3>3, <3>4, Zenon DEF ListOf
  <2>10. \A s \in 0 .. window - 1 :
            (\A q \in W : Slot(q) # s) => after[s] = nodes[s]
    BY <1>3, <1>15, <2>2, <2>3, <2>6, Zenon
  <2>11. Hold(after, heads, W)
    BY <1>16, <2>7, <2>8, <2>9, Zenon DEF Hold
  <2>12. QED
    BY <2>10, <2>11, Zenon DEF Untouched
<1>20. QED
  BY <1>18, <1>19

----------------------------------------------------------------------------
(* The hash lists hold the window *)

\* While a call runs, its input, its address and its window stay the same, and
\* with them what the lists of a set of positions are.
LEMMA SameCaller ==
    ASSUME UNCHANGED <<window, input, base>>
    PROVE  /\ \A p : InputAt(p)' = InputAt(p) /\ Slot(p)' = Slot(p)
           /\ \A S : SlotOfMax(S)' = SlotOfMax(S)
           /\ \A S : SlotOfMin(S)' = SlotOfMin(S)
BY DEF InputAt, Slot, SlotOfMax, SlotOfMin

\* What the nodes have to be depends on the window and the input only.
LEMMA SameNodes ==
    ASSUME UNCHANGED <<window, input, base>>
    PROVE  /\ \A W, b : In(W, b)' = In(W, b)
           /\ \A W, p : NodeOf(W, p)' = NodeOf(W, p)
           /\ \A W, b : ListOf(W, b)' = ListOf(W, b)
<1>1. /\ \A p : InputAt(p)' = InputAt(p) /\ Slot(p)' = Slot(p)
      /\ \A S : SlotOfMax(S)' = SlotOfMax(S)
      /\ \A S : SlotOfMin(S)' = SlotOfMin(S)
  BY SameCaller
<1>2. \A W, b : In(W, b)' = In(W, b)
  BY <1>1 DEF In
<1>3. /\ \A W, p : Later(W, p)' = Later(W, p)
      /\ \A W, p : Earlier(W, p)' = Earlier(W, p)
  BY <1>1, <1>2, Zenon DEF Later, Earlier
<1>4. QED
  BY <1>1, <1>2, <1>3, Zenon DEF NodeOf, ListOf

\* So does whether they are it.
LEMMA SameHold ==
    ASSUME UNCHANGED <<window, input, base>>
    PROVE  /\ \A n, l, W : Hold(n, l, W)' <=> Hold(n, l, W)
           /\ \A n, W : Fresh(n, W)' <=> Fresh(n, W)
<1>1. /\ \A p : InputAt(p)' = InputAt(p) /\ Slot(p)' = Slot(p)
      /\ \A W, p : NodeOf(W, p)' = NodeOf(W, p)
      /\ \A W, b : ListOf(W, b)' = ListOf(W, b)
  BY SameCaller, SameNodes
<1>2. QED
  BY <1>1, ZenonT(60) DEF Hold, Fresh

\* The window is a set of positions less than its size apart.
LEMMA WindowPositions ==
    ASSUME CallerType
    PROVE  Positions(Window)
<1>1. Len(input) \in Nat /\ ahead \in 0 .. Len(input) /\ window \in Nat
  BY LookAheadLengthType DEF CallerType
<1>2. QED
  BY <1>1 DEF Positions, Window

\* The window moves on by one position.
LEMMA WindowMoves ==
    ASSUME CallerType, ahead < Len(input), window' = window, ahead' = ahead + 1
    PROVE  /\ \A q \in Window : q < ahead
           /\ ahead < window => Window' = Window \cup {ahead}
           /\ ahead >= window =>
                 /\ ahead - window \in Window
                 /\ \A q \in Window : ahead - window <= q
                 /\ Window' = (Window \ {ahead - window}) \cup {ahead}
           /\ Positions(Window \cup {ahead}) \/ ahead >= window
           /\ Positions((Window \ {ahead - window}) \cup {ahead})
<1>1. Len(input) \in Nat /\ ahead \in 0 .. Len(input) - 1 /\ window \in Nat
      /\ window >= 1
  BY LookAheadLengthType DEF CallerType
<1>2. \A q \in Window : q < ahead /\ q \in Int /\ ahead - window <= q
  BY <1>1 DEF Window
<1>3. ahead < window => Window' = Window \cup {ahead}
  BY <1>1 DEF Window
<1>4. ahead >= window => ahead - window \in Window
  BY <1>1 DEF Window
<1>5. ahead >= window => Window' = (Window \ {ahead - window}) \cup {ahead}
  BY <1>1 DEF Window
<1>6. Positions(Window \cup {ahead}) \/ ahead >= window
  BY <1>1 DEF Positions, Window
<1>7. Positions((Window \ {ahead - window}) \cup {ahead})
  BY <1>1 DEF Positions, Window
<1>8. QED
  BY <1>2, <1>3, <1>4, <1>5, <1>6, <1>7

\* BuildHash recycles the node of the position that leaves the window.
LEMMA HashByteHash ==
    ASSUME CompressInv, HashInv, HashByte
    PROVE  HashInv'
<1> DEFINE p == ahead
           t == target[Slot(p)]
           nodes == TargetWithout(t)
           lists == TableWithout(t)
<1>1. /\ pc = "hash" /\ pending > 0 /\ ahead' = ahead + 1
      /\ UNCHANGED <<window, input, base>> /\ pc' = pc
  BY DEF HashByte, caller
<1>2. target' = Entered(nodes, lists, p) /\ table' = Started(lists, p)
  BY Zenon DEF HashByte, BuildHash, Entered, Started
<1>3. /\ CallerType /\ Len(input) \in Nat /\ p < Len(input) /\ p \in Nat
      /\ window \in Nat
  <2>1. CallerType /\ Len(input) \in Nat /\ ahead \in 0 .. Len(input)
    BY LookAheadLengthType DEF CompressInv, CallerType
  <2>2. pending <= Len(input) - ahead /\ pending \in Int
    BY <1>1 DEF CompressInv, TokenType, inputLength
  <2>3. QED
    BY <1>1, <2>1, <2>2 DEF CallerType
<1>4. Slot(p) \in 0 .. window - 1 /\ t \in NodeType
  <2>1. Slot(p) \in 0 .. window - 1
    BY <1>3, SlotType
  <2>2. QED
    BY <1>1, <2>1 DEF CompressInv, HashType
<1>5. /\ lists \in [0 .. 255 -> ListType]
      /\ nodes \in [0 .. window - 1 -> NodeType]
  BY <1>1, <1>4, WithoutType, Zenon
<1>6. Hold(target, table, Window) /\ Fresh(target, Window) /\ Positions(Window)
  BY <1>1, <1>3, WindowPositions, Zenon DEF HashInv
<1>7. /\ \A q \in Window : q < p
      /\ p < window => Window' = Window \cup {p}
      /\ p >= window =>
            /\ p - window \in Window
            /\ \A q \in Window : p - window <= q
            /\ Window' = (Window \ {p - window}) \cup {p}
      /\ Positions(Window \cup {p}) \/ p >= window
      /\ Positions((Window \ {p - window}) \cup {p})
  BY <1>1, <1>3, WindowMoves
<1>8. SUFFICES Hold(target', table', Window') /\ Fresh(target', Window')
  BY <1>1, SameHold, Zenon DEF HashInv
<1>9. CASE p < window
  <2>1. Window' = Window \cup {p} /\ Positions(Window \cup {p})
    <3>1. ~(p >= window)
      BY <1>3, <1>9
    <3>2. QED
      BY <1>7, <1>9, <3>1, Zenon
  <2>2. \A q \in Window : Slot(q) # Slot(p)
    <3>1. \A x, y \in Window \cup {p} : x # y => Slot(x) # Slot(y)
      BY <1>3, <2>1, PositionFacts, Zenon
    <3>2. \A q \in Window : q # p
      BY <1>3, <1>7
    <3>3. QED
      BY <3>1, <3>2, Zenon
  <2>3. t = EmptyNode
    BY <1>4, <1>6, <2>2, Zenon DEF Fresh
  <2>4. t.data = None
    BY <2>3 DEF EmptyNode
  <2>5. nodes = target /\ lists = table
    BY <2>4, Zenon DEF TargetWithout, TableWithout
  <2>6. /\ Hold(target', table', Window \cup {p})
        /\ Untouched(target', nodes, Window \cup {p})
    <3> DEFINE V == Window
    <3>1. Hold(nodes, lists, V)
      BY <1>6, <2>5, Zenon
    <3>2. Positions(V \cup {p}) /\ \A q \in V : q < p
      BY <1>7, <2>1, Zenon
    <3> HIDE DEF nodes, lists, p, V
    <3>3. /\ Hold(Entered(nodes, lists, p), Started(lists, p), V \cup {p})
          /\ Untouched(Entered(nodes, lists, p), nodes, V \cup {p})
      BY <1>5, <3>1, <3>2, EnteredNode, Zenon
    <3>4. QED
      BY <1>2, <3>3, Zenon DEF V
  <2>7. Fresh(target', Window')
    <3>1. \A s \in 0 .. window - 1 :
             (\A q \in Window \cup {p} : Slot(q) # s) => nodes[s] = EmptyNode
      BY <1>6, <2>5, Zenon DEF Fresh
    <3>2. QED
      BY <2>1, <2>6, <3>1, Zenon DEF Fresh, Untouched
  <2>8. QED
    BY <2>1, <2>6, <2>7, Zenon
<1>10. CASE p >= window
  <2> DEFINE o == p - window
             V == Window \ {o}
  <2>1. /\ o \in Window /\ Window' = V \cup {p} /\ Positions(V \cup {p})
        /\ \A q \in Window : o <= q
    BY <1>7, <1>10, Zenon
  <2>2. Slot(p) = Slot(o)
    <3>1. o \in Nat /\ o + window = p
      BY <1>3, <1>10
    <3> HIDE DEF o, p
    <3>2. Slot(o + window) = Slot(o)
      BY <1>3, <3>1, SlotRepeats, Zenon
    <3>3. QED
      BY <3>1, <3>2
  <2>3. t = target[Slot(o)]
    BY <2>2
  <2> HIDE DEF o, p
  <2>4. Hold(nodes, lists, V)
    <3>1. Hold(TargetWithout(target[Slot(o)]), TableWithout(target[Slot(o)]),
               Window \ {o})
      <4>1. pc # "idle"
        BY <1>1
      <4>2. QED
        BY <1>6, <2>1, <4>1, RecycledNode, Zenon
    <3>2. QED
      BY <2>3, <3>1, Zenon
  <2>5. \A q \in V : q < p
    BY <1>7, Zenon
  <2> DEFINE after == Entered(nodes, lists, p)
  <2>6. /\ Hold(target', table', V \cup {p})
        /\ Untouched(target', nodes, V \cup {p})
    <3>1. Positions(V \cup {p})
      BY <2>1, Zenon
    <3> HIDE DEF nodes, lists, V
    <3>2. /\ Hold(Entered(nodes, lists, p), Started(lists, p), V \cup {p})
          /\ Untouched(Entered(nodes, lists, p), nodes, V \cup {p})
      BY <1>5, <2>4, <2>5, <3>1, EnteredNode, Zenon
    <3>3. QED
      BY <1>2, <3>2, Zenon
  <2>7. Fresh(target', Window')
    <3> SUFFICES ASSUME NEW s \in 0 .. window - 1,
                        \A q \in V \cup {p} : Slot(q) # s
                 PROVE  target'[s] = EmptyNode
      BY <2>1, Zenon DEF Fresh
    <3>1. \A q \in Window : Slot(q) # s
      BY <2>2, Zenon
    <3>2. target[s] = EmptyNode
      BY <1>6, <3>1, Zenon DEF Fresh
    <3>3. nodes[s] = target[s]
      <4>1. CASE t.data # None /\ t.prev # None
        <5>1. nodes = [target EXCEPT ![t.prev].next = None]
          BY <4>1, Zenon DEF TargetWithout
        <5>2. t = NodeOf(Window, o)
          BY <1>6, <2>1, <2>3, Zenon DEF Hold
        <5>3. t.prev = SlotOfMin(Later(Window, o))
          BY <5>2 DEF NodeOf
        <5>4. \E m \in Window : t.prev = Slot(m)
          <6> DEFINE L == Later(Window, o)
          <6>1. L # {}
            BY <4>1, <5>3, NoSlot, Zenon
          <6>2. L \subseteq Window
            BY Zenon DEF Later, In
          <6>3. Window \subseteq 0 .. Len(input) /\ Window \subseteq Int
            BY <1>3, <1>6, PositionFacts, Zenon
          <6>4. L \subseteq 0 .. Len(input) /\ L \subseteq Int
            BY <6>2, <6>3, Zenon
          <6> HIDE DEF L
          <6>5. PICK m \in L : \A q \in L : m <= q
            BY <1>3, <6>1, <6>4, HasMin, Zenon
          <6>6. SlotOfMin(L) = Slot(m)
            BY <6>4, <6>5, MinIs, Zenon
          <6>7. QED
            BY <5>3, <6>2, <6>6, Zenon DEF L
        <5>5. t.prev # s
          BY <3>1, <5>4, Zenon
        <5>6. target \in [0 .. window - 1 -> NodeType]
          BY <1>1 DEF CompressInv, HashType
        <5> DEFINE v == t.prev
        <5>7. nodes = [target EXCEPT ![v].next = None] /\ v # s
          BY <5>1, <5>5, Zenon
        <5> HIDE DEF v, nodes
        <5>8. QED
          BY <5>6, <5>7
      <4>2. CASE ~(t.data # None /\ t.prev # None)
        BY <4>2, Zenon DEF TargetWithout
      <4>3. QED
        BY <4>1, <4>2
    <3>4. QED
      BY <2>6, <3>2, <3>3, Zenon DEF Untouched
  <2>8. QED
    BY <2>1, <2>6, <2>7, Zenon
<1>11. QED
  BY <1>3, <1>9, <1>10

\* Nothing is entered before the first byte.
LEMMA EmptyLists ==
    ASSUME NEW n, NEW l, l = [b \in 0 .. 255 |-> EmptyList]
    PROVE  Hold(n, l, {})
<1>1. \A b : ListOf({}, b) = EmptyList
  <2>1. \A b : In({}, b) = {}
    BY DEF In
  <2>2. QED
    BY <2>1, NoSlot, Zenon DEF ListOf, EmptyList
<1>2. QED
  BY <1>1 DEF Hold

\* The invariant of the hash chains holds before the first call.
LEMMA InitHash == Init => HashInv
<1> SUFFICES ASSUME Init PROVE HashInv
  OBVIOUS
<1>1. Window = {} /\ table = [b \in 0 .. 255 |-> EmptyList] /\ pc = "idle"
  BY DEF Init, Window
<1>2. QED
  BY <1>1, EmptyLists, Zenon DEF HashInv

\* A new compression starts with empty chains.
LEMMA StartHash ==
    ASSUME CompressInv, NEW w \in WindowSizes, NEW x \in Inputs,
           NEW a \in Bases, Start(w, x, a)
    PROVE  HashInv'
<1>1. /\ pc = "idle" /\ target' = [s \in 0 .. w - 1 |-> EmptyNode]
      /\ window' = w /\ UNCHANGED <<ahead, table>>
  BY DEF Start
<1>2. ahead' = 0 /\ table' = [b \in 0 .. 255 |-> EmptyList]
  BY <1>1 DEF CompressInv, HashType
<1>3. Window' = {}
  BY <1>2 DEF Window
<1>4. Hold(target, table, Window)'
  <2>1. \A b \in 0 .. 255 : (In({}, b) = {})'
    BY DEF In
  <2>2. (SlotOfMax({}) = None /\ SlotOfMin({}) = None)'
    BY DEF SlotOfMax, SlotOfMin, None
  <2>3. \A b \in 0 .. 255 : ListOf({}, b)' = EmptyList
    BY <2>1, <2>2, Zenon DEF ListOf, EmptyList
  <2>4. \A b \in 0 .. 255 : table'[b] = EmptyList
    BY <1>2, Zenon
  <2>5. QED
    BY <1>3, <2>3, <2>4, Zenon DEF Hold
<1>5. Fresh(target, Window)'
  BY <1>1, Zenon DEF Fresh
<1>6. QED
  BY <1>4, <1>5 DEF HashInv

\* The other steps leave the lists alone.
LEMMA NextHash == CompressInv /\ HashInv /\ [Next]_vars => HashInv'
<1> SUFFICES ASSUME CompressInv, HashInv, [Next]_vars PROVE HashInv'
  OBVIOUS
<1>1. ASSUME NEW w \in WindowSizes, NEW x \in Inputs, NEW a \in Bases,
             Start(w, x, a)
      PROVE  HashInv'
  BY <1>1, StartHash
<1>2. CASE HashByte
  BY <1>2, HashByteHash
<1>3. ASSUME UNCHANGED <<window, input, base, ahead, table, target>>,
             pc' = "idle" => pc = "idle", pc = "idle" => pc' = "idle"
      PROVE  HashInv'
  <2>1. Window' = Window
    BY <1>3 DEF Window
  <2>2. /\ Hold(target', table', Window')
        /\ pc' # "idle" => Fresh(target', Window')
    BY <1>3, <2>1 DEF HashInv
  <2>3. QED
    BY <1>3, <2>2, SameHold, Zenon DEF HashInv
<1>4. CASE BeginToken \/ Search \/ EmitCopy \/ EmitByte \/ EndToken \/ Terminate
  <2>1. /\ UNCHANGED <<window, input, base, ahead, table, target>>
        /\ pc # "idle" /\ pc' # "idle"
    BY <1>4 DEF BeginToken, Search, EmitCopy, EmitByte, EndToken, Terminate,
                caller, hash
  <2>2. QED
    BY <1>3, <2>1
<1>5. CASE Uncompress
  <2>1. /\ UNCHANGED <<window, input, base, ahead, table, target>>
        /\ pc # "idle" /\ pc' # "idle"
    BY <1>5 DEF Uncompress, Unrecognized, GetByte, GetCopy, GetEnd, caller, hash
  <2>2. QED
    BY <1>3, <2>1
<1>6. CASE UNCHANGED vars
  <2>1. UNCHANGED <<pc, window, input, base, ahead, table, target>>
    BY <1>6, Zenon DEF vars, caller, hash
  <2>2. QED
    BY <1>3, <2>1
<1>7. QED
  BY <1>1, <1>2, <1>4, <1>5, <1>6 DEF Next, Compress

\* The lists hold the window, and the nodes that are not in use are empty.
THEOREM LzssHashInvariant == Spec => []HashInv
<1>1. QED
  BY InitCompress, NextCompress, InitHash, NextHash, PTL DEF Spec

\* HashLists: although BuildHash unlinks a node without looking for its place,
\* the list of each byte holds the positions in the window, linked both ways.
THEOREM LzssHashLists == Spec => []HashLists
<1>1. HashInv => HashLists
  <2> SUFFICES ASSUME HashInv PROVE HashLists
    OBVIOUS
  <2>1. /\ \A p \in Window : target[Slot(p)] = NodeOf(Window, p)
        /\ \A b \in 0 .. 255 : table[b] = ListOf(Window, b)
    BY Zenon DEF HashInv, Hold
  <2>2. \A b : In(Window, b) = At(b)
    BY Zenon DEF In, At
  <2>3. ASSUME NEW p \in Window
        PROVE  target[Slot(p)] =
                 [data |-> p,
                  prev |-> SlotOfMin({q \in At(InputAt(p)) : q > p}),
                  next |-> SlotOfMax({q \in At(InputAt(p)) : q < p})]
    BY <2>1, <2>2, Zenon DEF NodeOf, Later, Earlier
  <2>4. ASSUME NEW b \in 0 .. 255
        PROVE  table[b] = IF b \notin {InputAt(p) : p \in 0 .. ahead - 1}
                            THEN EmptyList
                            ELSE [start |-> SlotOfMax(At(b)),
                                  end   |-> SlotOfMin(At(b))]
    <3>1. table[b] = [start |-> SlotOfMax(At(b)), end |-> SlotOfMin(At(b))]
      BY <2>1, <2>2, Zenon DEF ListOf
    <3>2. CASE b \notin {InputAt(p) : p \in 0 .. ahead - 1}
      <4>1. At(b) = {}
        BY <3>2, Zenon DEF At, Window
      <4>2. table[b] = EmptyList
        BY <3>1, <4>1, NoSlot, Zenon DEF EmptyList
      <4>3. QED
        BY <3>2, <4>2, Zenon
    <3>3. CASE b \in {InputAt(p) : p \in 0 .. ahead - 1}
      BY <3>1, <3>3, Zenon
    <3>4. QED
      BY <3>2, <3>3, Zenon
  <2>5. QED
    BY <2>3, <2>4, Zenon DEF HashLists
<1>2. QED
  BY <1>1, LzssHashInvariant, PTL

----------------------------------------------------------------------------
(* The search finds the longest match *)

\* The length of a match depends on the input and the look-ahead only.
LEMMA SameMatch ==
    ASSUME UNCHANGED <<input, ahead>>
    PROVE  /\ \A p : MatchLength(p)' = MatchLength(p)
           /\ LookAheadLength' = LookAheadLength
BY DEF MatchLength, InputAt, LookAheadLength, inputLength

\* pos is where the best match among the positions E is, the last one of
\* those as long, and n its length; n is 0 if there is none.
Best(E, n, pos) ==
    /\ \A q \in E : MatchLength(q) <= n
    /\ n = 0 => E = {}
    /\ n > 0 =>
          /\ pos \in E
          /\ MatchLength(pos) = n
          /\ \A q \in E : q > pos => MatchLength(q) < n

\* The positions in the window whose byte is the next one.
Candidates == At(InputAt(ahead))

\* At node x the candidates behind it have been compared.
Compared(x, n, pos) ==
    \/ x = None /\ Best(Candidates, n, pos)
    \/ \E p \in Candidates :
          /\ x = Slot(p)
          /\ Best({q \in Candidates : q > p}, n, pos)
          /\ n < LookAheadLength

\* The search has compared the candidates behind the one it is at.
SearchInv == pc = "search" => Compared(node, encLen, encPos)

\* So do the positions that can match, and the window.
LEMMA SameBest ==
    ASSUME UNCHANGED <<window, input, base, ahead>>
    PROVE  Candidates' = Candidates /\ Window' = Window
<1>1. Window' = Window
  BY DEF Window
<1>2. \A b : At(b)' = At(b)
  BY <1>1, SameCaller DEF At
<1>3. InputAt(ahead)' = InputAt(ahead)
  BY DEF InputAt
<1>4. QED
  BY <1>1, <1>2, <1>3, Zenon DEF Candidates

\* So does what the search has compared.
LEMMA SameCompared ==
    ASSUME UNCHANGED <<window, input, base, ahead>>
    PROVE  \A x, n, pos : Compared(x, n, pos)' <=> Compared(x, n, pos)
<1>1. \A E, n, pos : Best(E, n, pos)' <=> Best(E, n, pos)
  BY SameMatch, Zenon DEF Best
<1>2. Candidates' = Candidates /\ LookAheadLength' = LookAheadLength
      /\ \A q : Slot(q)' = Slot(q)
  BY SameBest, SameMatch, SameCaller
<1>3. QED
  BY <1>1, <1>2, Zenon DEF Compared

\* A position that does not hold the next byte is no match; the others match
\* in one byte at least.
LEMMA MatchOfByte ==
    ASSUME CallerType, inputLength > 0, NEW p \in Window
    PROVE  /\ MatchLength(p) \in 0 .. LookAheadLength
           /\ p \notin Candidates => MatchLength(p) = 0
           /\ p \in Candidates => MatchLength(p) >= 1
<1> DEFINE m == MatchLength(p)
<1>1. /\ m \in 0 .. LookAheadLength
      /\ \A j \in 0 .. m - 1 : InputAt(p + j) = InputAt(ahead + j)
      /\ m = LookAheadLength \/ InputAt(p + m) # InputAt(ahead + m)
  BY MatchLengthIs, Zenon
<1>2. LookAheadLength \in Nat /\ LookAheadLength > 0
  BY LookAheadLengthType DEF LookAhead
<1>3. p + 0 = p /\ ahead + 0 = ahead
  <2>1. ahead \in Int
    BY LookAheadLengthType DEF CallerType
  <2>2. p \in Int
    BY <2>1 DEF Window
  <2>3. QED
    BY <2>1, <2>2
<1> HIDE DEF m
<1>4. ASSUME p \notin Candidates
      PROVE  m = 0
  <2>1. InputAt(p) # InputAt(ahead)
    BY <1>4, Zenon DEF Candidates, At
  <2>2. 0 \notin 0 .. m - 1
    <3>1. 0 \in 0 .. m - 1 => InputAt(p + 0) = InputAt(ahead + 0)
      BY <1>1, Zenon
    <3>2. QED
      BY <1>3, <2>1, <3>1, Zenon
  <2>3. QED
    BY <1>1, <1>2, <2>2
<1>5. ASSUME p \in Candidates
      PROVE  m >= 1
  <2>1. InputAt(p) = InputAt(ahead)
    BY <1>5, Zenon DEF Candidates, At
  <2>2. m # 0
    <3>1. ASSUME m = 0 PROVE FALSE
      <4>1. m = LookAheadLength \/ InputAt(p + 0) # InputAt(ahead + 0)
        BY <1>1, <3>1
      <4>2. QED
        BY <1>2, <1>3, <2>1, <3>1, <4>1
    <3>2. QED
      BY <3>1
  <2>3. QED
    BY <1>1, <1>2, <2>2
<1>6. QED
  BY <1>1, <1>4, <1>5 DEF m

\* The search starts with the last position of the list of the next byte.
LEMMA BeginTokenSearch ==
    ASSUME CompressInv, HashInv, BeginToken
    PROVE  SearchInv'
<1> DEFINE C == Candidates
           b == InputAt(ahead)
<1>1. /\ pc = "loop" /\ inputLength > 0 /\ encLen' = 0
      /\ node' = table[b].start
      /\ UNCHANGED <<window, input, base, ahead>>
  BY DEF BeginToken, caller
<1>2. CallerType /\ Len(input) \in Nat /\ ahead \in 0 .. Len(input) - 1
  <2>1. CallerType /\ Len(input) \in Nat
    BY LookAheadLengthType DEF CompressInv
  <2>2. QED
    BY <1>1, <2>1 DEF CallerType, inputLength
<1>3. b \in 0 .. 255
  BY <1>2, InputAtType
<1>4. node' = SlotOfMax(C)
  <2>1. table[b] = ListOf(Window, b)
    BY <1>3, Zenon DEF HashInv, Hold
  <2>2. In(Window, b) = C
    BY Zenon DEF In, At, Candidates
  <2>3. table[b].start = SlotOfMax(C)
    BY <2>1, <2>2 DEF ListOf
  <2>4. QED
    BY <1>1, <2>3, Zenon
<1>5. SUFFICES Compared(node', encLen', encPos')
  BY <1>1, SameCompared, Zenon DEF SearchInv
<1>6. ASSUME NEW E, E = {} PROVE Best(E, encLen', encPos')
  BY <1>1, <1>6 DEF Best
<1>7. CASE C = {}
  <2>1. node' = None
    BY <1>4, <1>7, NoSlot, Zenon
  <2>2. QED
    BY <1>6, <1>7, <2>1, Zenon DEF Compared
<1>8. CASE C # {}
  <2>1. C \subseteq 0 .. Len(input) /\ C \subseteq Int
    <3>1. Window \subseteq 0 .. Len(input) /\ Window \subseteq Int
      BY <1>2, WindowPositions, PositionFacts, Zenon
    <3>2. QED
      BY <3>1, Zenon DEF Candidates, At
  <2>2. PICK p \in C : \A q \in C : q <= p
    BY <1>2, <1>8, <2>1, HasMax, Zenon
  <2>3. node' = Slot(p)
    BY <1>4, <2>1, <2>2, MaxIs, Zenon
  <2>4. {q \in C : q > p} = {}
    <3>1. \A q \in C : ~(q > p)
      BY <2>1, <2>2
    <3>2. QED
      BY <3>1, Zenon
  <2>5. encLen' < LookAheadLength
    BY <1>1, <1>2, LookAheadLengthType
  <2>6. Best({q \in C : q > p}, encLen', encPos')
    BY <1>6, <2>4, Zenon
  <2>7. QED
    BY <2>2, <2>3, <2>5, <2>6, Zenon DEF Compared
<1>9. QED
  BY <1>7, <1>8

\* A comparison keeps the best of the positions compared so far.
LEMMA SearchStep ==
    ASSUME CompressInv, HashInv, SearchInv, Search
    PROVE  SearchInv'
<1> DEFINE C == Candidates
<1>1. /\ pc = "search" /\ node # None
      /\ UNCHANGED <<window, input, base, ahead>>
  BY DEF Search, caller
<1>2. /\ CallerType /\ Len(input) \in Nat /\ inputLength > 0
      /\ encLen \in Nat /\ LookAheadLength \in Nat
  <2>1. CallerType /\ inputLength > 0 /\ encLen \in 0 .. LookAhead
    BY <1>1 DEF CompressInv, TokenType
  <2>2. QED
    BY <2>1, LookAheadLengthType DEF LookAhead
<1>3. PICK p \in C : /\ node = Slot(p)
                     /\ Best({q \in C : q > p}, encLen, encPos)
                     /\ encLen < LookAheadLength
  BY <1>1, Zenon DEF SearchInv, Compared
<1> DEFINE E == {q \in C : q > p}
           D == E \cup {p}
           m == MatchLength(p)
           F == Earlier(Window, p)
<1>4. /\ C \subseteq Window /\ Window \subseteq 0 .. Len(input)
      /\ Window \subseteq Int /\ C \subseteq Int /\ p \in Window /\ p \in Int
  <2>1. Window \subseteq 0 .. Len(input) /\ Window \subseteq Int
    BY <1>2, WindowPositions, PositionFacts, Zenon
  <2>2. C \subseteq Window
    BY Zenon DEF Candidates, At
  <2>3. QED
    BY <2>1, <2>2, Zenon
<1>5. target[node] = NodeOf(Window, p)
  BY <1>3, <1>4, Zenon DEF HashInv, Hold
<1>6. target[node].data = p /\ target[node].next = SlotOfMax(F)
  BY <1>5 DEF NodeOf
<1>7. F = {q \in C : q < p}
  <2>1. InputAt(p) = InputAt(ahead)
    BY <1>3, Zenon DEF Candidates, At
  <2>2. In(Window, InputAt(p)) = C
    BY <2>1, Zenon DEF In, Candidates, At
  <2>3. QED
    BY <2>2, Zenon DEF Earlier
<1>8. /\ IF m > encLen THEN encLen' = m /\ encPos' = p
                       ELSE encLen' = encLen /\ encPos' = encPos
      /\ node' = IF m = LookAheadLength THEN None ELSE SlotOfMax(F)
  <2>1. LET n == MatchLength(target[node].data) IN
          /\ IF n > encLen
               THEN encLen' = n /\ encPos' = target[node].data
               ELSE UNCHANGED <<encLen, encPos>>
          /\ node' = IF n = LookAheadLength THEN None ELSE target[node].next
    BY Zenon DEF Search
  <2>2. QED
    BY <1>6, <2>1, Zenon
<1>9. SUFFICES Compared(node', encLen', encPos')
  BY <1>1, SameCompared, Zenon DEF SearchInv
<1>10. \A q \in C : MatchLength(q) \in 0 .. LookAheadLength
                    /\ MatchLength(q) >= 1
  BY <1>2, <1>4, MatchOfByte, Zenon
<1>11. m \in Nat /\ m >= 1 /\ m <= LookAheadLength
  BY <1>2, <1>10
<1>12. /\ \A q \in E : MatchLength(q) <= encLen
       /\ encLen > 0 =>
             /\ encPos \in E /\ MatchLength(encPos) = encLen
             /\ \A q \in E : q > encPos => MatchLength(q) < encLen
  BY <1>3, Zenon DEF Best
<1>13. \A q \in E : q > p /\ q \in Int /\ MatchLength(q) \in Int
  <2>1. ASSUME NEW q \in E
        PROVE  q > p /\ q \in C
    BY <2>1, Zenon
  <2>2. ASSUME NEW q \in C
        PROVE  q \in Int /\ MatchLength(q) \in Int
    BY <1>2, <1>4, <1>10, <2>2
  <2>3. QED
    BY <2>1, <2>2, Zenon
<1> HIDE DEF E, m, C, F
<1>14. encLen' \in Nat /\ encLen' >= m /\ encLen' >= encLen /\ encLen' >= 1
       /\ encLen' <= LookAheadLength
       /\ (m # LookAheadLength => encLen' < LookAheadLength)
  BY <1>2, <1>3, <1>8, <1>11
<1>15. Best(D, encLen', encPos')
  <2>1. ASSUME NEW q \in D
        PROVE  MatchLength(q) <= encLen'
    <3>1. CASE q = p
      BY <1>11, <1>14, <3>1 DEF m
    <3>2. CASE q \in E
      <4> DEFINE n == MatchLength(q)
      <4>1. n <= encLen /\ n \in Int
        BY <1>12, <1>13, <3>2
      <4> HIDE DEF n
      <4>2. n <= encLen'
        BY <1>2, <1>14, <4>1
      <4>3. QED
        BY <4>2 DEF n
    <3>3. QED
      BY <3>1, <3>2
  <2>2. /\ encPos' \in D /\ MatchLength(encPos') = encLen'
        /\ \A q \in D : q > encPos' => MatchLength(q) < encLen'
    <3>1. CASE m > encLen
      <4>1. encLen' = m /\ encPos' = p
        BY <1>8, <3>1, Zenon
      <4>2. ASSUME NEW q \in D, q > p
            PROVE  MatchLength(q) < m
        <5>1. q \in E
          BY <1>4, <4>2
        <5> DEFINE n == MatchLength(q)
        <5>2. n <= encLen /\ n \in Int
          BY <1>12, <1>13, <5>1
        <5> HIDE DEF n
        <5>3. n < m
          BY <1>2, <1>11, <3>1, <5>2
        <5>4. QED
          BY <5>3 DEF n
      <4>3. QED
        BY <4>1, <4>2, Zenon DEF m
    <3>2. CASE ~(m > encLen)
      <4>1. encLen' = encLen /\ encPos' = encPos /\ encLen > 0
        <5>1. encLen' = encLen /\ encPos' = encPos
          BY <1>8, <3>2, Zenon
        <5>2. encLen > 0
          BY <1>2, <1>11, <3>2
        <5>3. QED
          BY <5>1, <5>2
      <4>2. encPos \in E /\ MatchLength(encPos) = encLen
            /\ \A q \in E : q > encPos => MatchLength(q) < encLen
        BY <1>12, <4>1, Zenon
      <4>3. ~(p > encPos)
        BY <1>4, <1>13, <4>2
      <4>4. QED
        BY <4>1, <4>2, <4>3, Zenon
    <3>3. QED
      BY <3>1, <3>2
  <2>3. encLen' # 0
    BY <1>14
  <2>4. QED
    BY <2>1, <2>2, <2>3, Zenon DEF Best
<1>16. CASE m = LookAheadLength
  <2>1. node' = None /\ m > encLen
    <3>1. m > encLen
      BY <1>2, <1>3, <1>11, <1>16
    <3>2. QED
      BY <1>8, <1>16, <3>1, Zenon
  <2>2. encLen' = m /\ encPos' = p
    BY <1>8, <2>1, Zenon
  <2>3. \A q \in C : MatchLength(q) <= m
    BY <1>2, <1>10, <1>16
  <2>4. \A q \in C : q > p => MatchLength(q) < m
    <3>1. ASSUME NEW q \in C, q > p
          PROVE  MatchLength(q) < m
      <4> DEFINE n == MatchLength(q)
      <4>1. q \in E
        BY <3>1, Zenon DEF E
      <4>2. n <= encLen /\ n \in Int
        BY <1>12, <1>13, <4>1
      <4> HIDE DEF n
      <4>3. n < m
        BY <1>2, <1>11, <2>1, <4>2
      <4>4. QED
        BY <4>3 DEF n
    <3>2. QED
      BY <3>1, Zenon
  <2>5. encLen' # 0
    BY <1>14
  <2>6. Best(C, encLen', encPos')
    BY <1>3, <2>2, <2>3, <2>4, <2>5, Zenon DEF Best, m
  <2>7. QED
    BY <2>1, <2>6, Zenon DEF Compared, C
<1>17. CASE m # LookAheadLength
  <2>1. node' = SlotOfMax(F) /\ encLen' < LookAheadLength
    BY <1>8, <1>14, <1>17, Zenon
  <2>2. \A q \in C : q < p \/ q = p \/ q > p
    BY <1>4
  <2>3. CASE F = {}
    <3>1. \A q \in C : ~(q < p)
      BY <1>7, <2>3, Zenon
    <3>2. D = C
      BY <1>3, <2>2, <3>1, Zenon DEF E
    <3>3. node' = None
      BY <2>1, <2>3, NoSlot, Zenon
    <3>4. QED
      BY <1>15, <3>2, <3>3, Zenon DEF Compared, C
  <2>4. CASE F # {}
    <3>1. F \subseteq C /\ F \subseteq 0 .. Len(input) /\ F \subseteq Int
      BY <1>4, <1>7, Zenon
    <3>2. PICK r \in F : \A q \in F : q <= r
      BY <1>2, <2>4, <3>1, HasMax, Zenon
    <3>3. node' = Slot(r)
      BY <2>1, <3>1, <3>2, MaxIs, Zenon
    <3>4. r \in C /\ r < p /\ r \in Int
      BY <1>7, <3>1, <3>2, Zenon
    <3>5. {q \in C : q > r} = D
      <4>1. ASSUME NEW q \in C
            PROVE  q > r <=> q = p \/ q > p
        <5>1. q < p => q <= r
          BY <1>7, <3>2, Zenon
        <5>2. q \in Int
          BY <1>4
        <5>3. QED
          BY <1>4, <3>4, <5>1, <5>2
      <4>2. QED
        BY <1>3, <4>1, Zenon DEF E
    <3>6. QED
      BY <1>15, <2>1, <3>3, <3>4, <3>5, Zenon DEF Compared, C
  <2>5. QED
    BY <2>3, <2>4
<1>18. QED
  BY <1>16, <1>17

\* Every step keeps the invariant of the search.
LEMMA NextSearch ==
    CompressInv /\ HashInv /\ SearchInv /\ [Next]_vars => SearchInv'
<1> SUFFICES ASSUME CompressInv, HashInv, SearchInv, [Next]_vars
             PROVE  SearchInv'
  OBVIOUS
<1>1. ASSUME NEW w \in WindowSizes, NEW x \in Inputs, NEW a \in Bases,
             Start(w, x, a)
      PROVE  SearchInv'
  <2>1. pc' # "search"
    BY <1>1 DEF Start
  <2>2. QED
    BY <2>1, Zenon DEF SearchInv
<1>2. CASE BeginToken
  BY <1>2, BeginTokenSearch
<1>3. CASE Search
  BY <1>3, SearchStep
<1>4. CASE EmitCopy \/ EmitByte \/ HashByte \/ EndToken \/ Terminate
  <2>1. pc' # "search"
    BY <1>4 DEF EmitCopy, EmitByte, HashByte, EndToken, Terminate
  <2>2. QED
    BY <2>1, Zenon DEF SearchInv
<1>5. CASE Uncompress
  <2>1. pc' # "search"
    BY <1>5 DEF Uncompress, Unrecognized, GetByte, GetCopy, GetEnd
  <2>2. QED
    BY <2>1, Zenon DEF SearchInv
<1>6. CASE UNCHANGED vars
  <2>1. UNCHANGED <<pc, window, input, base, ahead, node, encLen, encPos>>
    BY <1>6, Zenon DEF vars, caller, match
  <2>2. pc' = "search" => Compared(node', encLen', encPos')
    BY <2>1, Zenon DEF SearchInv
  <2>3. QED
    BY <2>1, <2>2, SameCompared, Zenon DEF SearchInv
<1>7. QED
  BY <1>1, <1>2, <1>3, <1>4, <1>5, <1>6 DEF Next, Compress

\* Wherever the search is, encodedLength and pEncodedPosition are the best
\* match among the candidates it has passed.
THEOREM LzssSearchInvariant == Spec => []SearchInv
<1>1. Init => SearchInv
  BY DEF Init, SearchInv
<1>2. QED
  BY <1>1, InitCompress, NextCompress, InitHash, NextHash, NextSearch, PTL
     DEF Spec

\* The greatest number of a set is the one that CHOOSE finds.
LEMMA ChosenMax ==
    ASSUME NEW S, S \subseteq Int, NEW m \in S, \A n \in S : n <= m
    PROVE  (CHOOSE x \in S : \A n \in S : n <= x) = m
<1> DEFINE c == CHOOSE x \in S : \A n \in S : n <= x
<1>1. c \in S /\ \A n \in S : n <= c
  BY Zenon
<1> HIDE DEF c
<1>2. c <= m /\ m <= c /\ c \in Int /\ m \in Int
  BY <1>1
<1>3. c = m
  BY <1>2
<1>4. QED
  BY <1>3 DEF c

\* LongestMatch: comparing only the positions in the list of the next byte,
\* and stopping at the first full match, the search finds the longest match of
\* the whole window, and of those the nearest one.
THEOREM LzssLongestMatch == Spec => []LongestMatch
<1>1. CompressInv /\ SearchInv => LongestMatch
  <2> SUFFICES ASSUME CompressInv, SearchInv, pc = "search", node = None
               PROVE  LongestMatch
    BY Zenon DEF LongestMatch
  <2> DEFINE C == Candidates
             lengths == {MatchLength(p) : p \in Window}
  <2>1. CallerType /\ inputLength > 0 /\ encLen \in Nat
    <3>1. CallerType /\ inputLength > 0 /\ encLen \in 0 .. LookAhead
      BY DEF CompressInv, TokenType
    <3>2. QED
      BY <3>1 DEF LookAhead
  <2>2. C \subseteq Window
    BY Zenon DEF Candidates, At
  <2>3. Best(C, encLen, encPos)
    <3>1. \A p \in Window : Slot(p) # None
      BY <2>1, WindowPositions, PositionFacts, Zenon
    <3>2. QED
      BY <2>2, <3>1, Zenon DEF SearchInv, Compared
  <2>4. ASSUME NEW p \in Window
        PROVE  /\ MatchLength(p) \in Int
               /\ MatchLength(p) <= encLen
               /\ p \notin C => MatchLength(p) = 0
    <3> DEFINE m == MatchLength(p)
    <3>1. m \in 0 .. LookAheadLength /\ (p \notin C => m = 0)
      BY <2>1, MatchOfByte
    <3>2. p \in C => m <= encLen
      BY <2>3, Zenon DEF Best
    <3> HIDE DEF m, C
    <3>3. m \in Int /\ m <= encLen /\ (p \notin C => m = 0)
      BY <2>1, <3>1, <3>2, LookAheadLengthType
    <3>4. QED
      BY <3>3 DEF m
  <2>5. ASSUME encLen > 0
        PROVE  /\ encPos \in Window /\ MatchLength(encPos) = encLen
               /\ \A p \in Window : p > encPos => MatchLength(p) < encLen
    <3>1. /\ encPos \in C /\ MatchLength(encPos) = encLen
          /\ \A p \in C : p > encPos => MatchLength(p) < encLen
      BY <2>3, <2>5, Zenon DEF Best
    <3>2. ASSUME NEW p \in Window, p \notin C
          PROVE  MatchLength(p) < encLen
      BY <2>4, <2>5, <3>2
    <3>3. QED
      BY <2>2, <3>1, <3>2, Zenon
  <2>6. ASSUME lengths # {}
        PROVE  encLen = CHOOSE m \in lengths : \A n \in lengths : n <= m
    <3>1. lengths \subseteq Int /\ \A n \in lengths : n <= encLen
      BY <2>4
    <3>2. encLen \in lengths
      <4>1. CASE encLen > 0
        BY <2>5, <4>1, Zenon
      <4>2. CASE ~(encLen > 0)
        <5>1. encLen = 0
          BY <2>1, <4>2
        <5>2. C = {}
          BY <2>3, <5>1, Zenon DEF Best
        <5>3. PICK p \in Window : MatchLength(p) \in lengths
          BY <2>6, Zenon
        <5>4. MatchLength(p) = 0
          BY <2>4, <5>2, Zenon
        <5>5. QED
          BY <5>1, <5>3, <5>4, Zenon
      <4>3. QED
        BY <4>1, <4>2
    <3> HIDE DEF lengths
    <3>3. QED
      BY <3>1, <3>2, ChosenMax, Zenon
  <2>7. lengths = {} => encLen = 0
    <3>1. ASSUME lengths = {}, encLen > 0 PROVE FALSE
      <4>1. encPos \in Window
        BY <2>5, <3>1
      <4>2. QED
        BY <3>1, <4>1, Zenon
    <3>2. QED
      BY <2>1, <3>1
  <2>8. QED
    BY <2>5, <2>6, <2>7, Zenon DEF LongestMatch
<1>2. QED
  BY <1>1, LzssInvariant, LzssSearchInvariant, PTL
============================================================================
