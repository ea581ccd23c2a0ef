--------------------------- MODULE BitReadProofs ---------------------------
(***************************************************************************)
(* Proofs about BitRead.                                                   *)
(***************************************************************************)
EXTENDS BitRead, TLAPS

\* What every operation may rely on and must restore.
Good(r) ==
    /\ r \in Readers
    /\ AlignedReader(r)
    /\ ~r.overflow => Synced(r)

----------------------------------------------------------------------------
(* Words *)

\* The word operators return words.
LEMMA WordsType ==
    /\ Zero \in Words
    /\ \A p \in Nat, n \in Int : Bits(p, n) \in Words
    /\ \A a \in Nat : DWordAt(a) \in Words
    /\ \A w \in Words, n \in Int : Masked(w, n) \in Words
    /\ \A w \in Words, k \in Nat : ShiftRight(w, k) \in Words
    /\ \A w \in Words, k \in Nat : ShiftLeft(w, k) \in Words
    /\ \A v, w \in Words : Or(v, w) \in Words
    /\ \A w \in Words, n \in 1 .. 32 : SignExtended(w, n) \in Words
<1>1. Zero \in Words
  BY DEF Words, Zero, BitNrs, WordBits, O
<1>2. \A p \in Nat, n \in Int : Bits(p, n) \in Words
  BY DEF Words, Bits, BitNrs, WordBits, O
<1>3. \A a \in Nat : DWordAt(a) \in Words
  BY <1>2 DEF DWordAt, WordBits
<1>4. \A w \in Words, n \in Int : Masked(w, n) \in Words
  BY DEF Words, Masked, BitNrs, WordBits, O
<1>5. \A w \in Words, k \in Nat : ShiftRight(w, k) \in Words
  BY DEF Words, ShiftRight, BitNrs, WordBits, O
<1>6. \A w \in Words, k \in Nat : ShiftLeft(w, k) \in Words
  BY DEF Words, ShiftLeft, BitNrs, WordBits, O
<1>7. \A v, w \in Words : Or(v, w) \in Words
  BY DEF Words, Or, BitNrs, WordBits, O, Mixed
<1>8. \A w \in Words, n \in 1 .. 32 : SignExtended(w, n) \in Words
  BY DEF Words, SignExtended, BitNrs, WordBits, O
<1>9. QED
  BY <1>1, <1>2, <1>3, <1>4, <1>5, <1>6, <1>7, <1>8, Zenon

\* Shifting a run of bits right drops its first bits.
LEMMA ShiftRightBits ==
    ASSUME NEW p \in Int, NEW n \in Int, NEW k \in Nat, n <= 32
    PROVE  ShiftRight(Bits(p, n), k) = Bits(p + k, n - k)
  BY DEF ShiftRight, Bits, BitNrs, WordBits, O, Mixed

\* A run without bits is zero, and zero stays zero when shifted.
LEMMA NoBits ==
    /\ \A p, n \in Int : n <= 0 => Bits(p, n) = Zero
    /\ \A k \in Nat : ShiftRight(Zero, k) = Zero
    /\ \A n \in Int : Masked(Zero, n) = Zero
  BY DEF ShiftRight, Masked, Zero, Bits, BitNrs, WordBits, O, Mixed

\* The low bits of a run are a shorter run.
LEMMA MaskedBits ==
    ASSUME NEW p \in Int, NEW n \in Int, NEW k \in Int, k <= n
    PROVE  Masked(Bits(p, n), k) = Bits(p, k)
  BY DEF Masked, Bits, BitNrs, WordBits, O, Mixed

\* Two runs that follow each other join to one.
LEMMA JoinedBits ==
    ASSUME NEW p \in Nat, NEW m \in 1 .. 32, NEW n \in Nat
    PROVE  Or(Bits(p, m), ShiftLeft(Bits(p + m, n), m)) = Bits(p, m + n)
<1>1. ASSUME NEW j \in BitNrs
      PROVE  ShiftLeft(Bits(p + m, n), m)[j] =
                IF j >= m /\ j < m + n THEN p + j ELSE O
  BY DEF ShiftLeft, Bits, BitNrs, WordBits
<1>2. ASSUME NEW j \in BitNrs
      PROVE  Or(Bits(p, m), ShiftLeft(Bits(p + m, n), m))[j]
                = Bits(p, m + n)[j]
  BY <1>1 DEF Or, Bits, BitNrs, WordBits, O, Mixed
<1>. QED
  BY <1>2 DEF Or, Bits

----------------------------------------------------------------------------
(* Readers *)

\* GetNumBitsRead computes the position from the pointer and the bit count.
LEMMA TellReader ==
    ASSUME NEW r \in Readers, AlignedReader(r)
    PROVE  GetNumBitsRead(r) = MIN(8 * r.dataIn - r.bitsAvail, DataBits(r))
  BY DEF GetNumBitsRead, AlignedReader, nHead, Readers, DataBits, MIN

\* g is the reader with these members.
Has(g, n, d, a, w, o, i) ==
    /\ g \in Readers
    /\ g.dataBytes = n
    /\ g.dataIn = d
    /\ g.bitsAvail = a
    /\ g.inBufWord = w
    /\ g.overflow = o
    /\ g.inBounds = i

\* The three cases of GrabNextDWord: at the end, behind it and before it.
LEMMA GrabAtEnd ==
    ASSUME NEW r \in Readers, NEW b \in BOOLEAN, r.dataIn = BufferEnd(r)
    PROVE  Has(GrabNextDWord(r, b), r.dataBytes, r.dataIn + 4, 1, Zero,
               r.overflow \/ b, r.inBounds)
<1> DEFINE d == r.dataIn + 4
           o == r.overflow \/ b
           a == 1
           w == Zero
<1>1. d \in Nat /\ o \in BOOLEAN /\ a \in Int
  BY DEF Readers
<1>2. w \in Words
  BY WordsType
<1>3. GrabNextDWord(r, b) = [r EXCEPT !.bitsAvail = a, !.inBufWord = w,
                                      !.dataIn = d, !.overflow = o]
  BY DEF GrabNextDWord
<1> HIDE DEF d, o, a, w
<1>4. Has(GrabNextDWord(r, b), r.dataBytes, d, a, w, o, r.inBounds)
  BY <1>1, <1>2, <1>3 DEF Readers, Has
<1>. QED
  BY <1>4 DEF d, o, a, w

\* Behind the end the flag is set and the word is zero.
LEMMA GrabBehindEnd ==
    ASSUME NEW r \in Readers, NEW b \in BOOLEAN, r.dataIn > BufferEnd(r)
    PROVE  Has(GrabNextDWord(r, b), r.dataBytes, r.dataIn, r.bitsAvail, Zero,
               TRUE, r.inBounds)
<1>1. GrabNextDWord(r, b) = [r EXCEPT !.overflow = TRUE, !.inBufWord = Zero]
  BY DEF GrabNextDWord, BufferEnd, Readers
<1>. QED
  BY <1>1, WordsType DEF Readers, Has

\* Before the end the next dword is loaded, from inside the buffer.
LEMMA GrabBeforeEnd ==
    ASSUME NEW r \in Readers, NEW b \in BOOLEAN,
           r.dataIn < BufferEnd(r), r.dataIn % 4 = nHead(r)
    PROVE  /\ Has(GrabNextDWord(r, b), r.dataBytes, r.dataIn + 4, r.bitsAvail,
                  Bits(8 * r.dataIn, 32), r.overflow, r.inBounds)
           /\ r.dataIn + 4 <= BufferEnd(r)
<1> DEFINE d == r.dataIn + 4
           w == Bits(8 * r.dataIn, 32)
           i == r.inBounds
<1>1. d \in Nat /\ i \in BOOLEAN
  BY DEF Readers
<1>2. w \in Words
  BY WordsType DEF Readers
<1>3. r.dataIn + 3 < BufferEnd(r) /\ d <= BufferEnd(r)
  BY DEF Readers, BufferEnd, nHead
<1>4. (r.inBounds /\ r.dataIn + 3 < BufferEnd(r)) = i
  BY <1>1, <1>3
<1>5. GrabNextDWord(r, b) = LoadDWord(r)
  BY DEF GrabNextDWord, Readers, BufferEnd
<1>6. LoadDWord(r) = [r EXCEPT !.inBufWord = w, !.dataIn = d, !.inBounds = i]
  BY <1>4 DEF LoadDWord, InBuffer, DWordAt, WordBits
<1> HIDE DEF d, w, i
<1>7. Has(GrabNextDWord(r, b), r.dataBytes, d, r.bitsAvail, w, r.overflow, i)
  BY <1>1, <1>2, <1>5, <1>6 DEF Readers, Has
<1>. QED
  BY <1>3, <1>7 DEF d, w, i

\* Setting the bit count and the word.
LEMMA SetWord ==
    ASSUME NEW r \in Readers, NEW a \in Int, NEW w \in Words
    PROVE  Has([r EXCEPT !.bitsAvail = a, !.inBufWord = w],
               r.dataBytes, r.dataIn, a, w, r.overflow, r.inBounds)
  BY DEF Readers, Has

\* FetchNext loads the next dword, or arranges for the next read to run out
\* of words, or sets the flag.
LEMMA FetchReader ==
    ASSUME NEW r \in Readers, r.dataIn % 4 = nHead(r)
    PROVE  /\ r.dataIn < BufferEnd(r) =>
                /\ Has(FetchNext(r), r.dataBytes, r.dataIn + 4, 32,
                       Bits(8 * r.dataIn, 32), r.overflow, r.inBounds)
                /\ r.dataIn + 4 <= BufferEnd(r)
           /\ r.dataIn = BufferEnd(r) =>
                Has(FetchNext(r), r.dataBytes, r.dataIn + 4, 1, Zero,
                    r.overflow, r.inBounds)
           /\ r.dataIn > BufferEnd(r) =>
                Has(FetchNext(r), r.dataBytes, r.dataIn, 32, Zero,
                    TRUE, r.inBounds)
<1> DEFINE s == [r EXCEPT !.bitsAvail = 32]
<1>1. Has(s, r.dataBytes, r.dataIn, 32, r.inBufWord, r.overflow, r.inBounds)
  BY DEF Readers, Has
<1>2. FetchNext(r) = GrabNextDWord(s, FALSE)
  BY DEF FetchNext
<1> HIDE DEF s
<1>3. s \in Readers /\ s.dataIn % 4 = nHead(s) /\ BufferEnd(s) = BufferEnd(r)
  BY <1>1 DEF nHead, BufferEnd, Has
<1>4. (r.overflow \/ FALSE) = r.overflow
  BY DEF Readers
<1>5. CASE r.dataIn < BufferEnd(r)
  <2>1. s.dataIn < BufferEnd(s)
    BY <1>1, <1>3, <1>5 DEF Has
  <2>2. /\ Has(FetchNext(r), s.dataBytes, s.dataIn + 4, s.bitsAvail,
               Bits(8 * s.dataIn, 32), s.overflow, s.inBounds)
        /\ s.dataIn + 4 <= BufferEnd(s)
    BY <1>2, <1>3, <2>1, GrabBeforeEnd
  <2>. QED
    BY <1>1, <1>3, <1>5, <2>2 DEF Has, BufferEnd, Readers
<1>6. CASE r.dataIn = BufferEnd(r)
  <2>1. s.dataIn = BufferEnd(s)
    BY <1>1, <1>3, <1>6 DEF Has
  <2>2. Has(FetchNext(r), s.dataBytes, s.dataIn + 4, 1, Zero,
            s.overflow \/ FALSE, s.inBounds)
    BY <1>2, <1>3, <2>1, GrabAtEnd
  <2>. QED
    BY <1>1, <1>4, <1>6, <2>2 DEF Has, BufferEnd, Readers
<1>7. CASE r.dataIn > BufferEnd(r)
  <2>1. s.dataIn > BufferEnd(s)
    BY <1>1, <1>3, <1>7 DEF Has
  <2>2. Has(FetchNext(r), s.dataBytes, s.dataIn, s.bitsAvail, Zero,
            TRUE, s.inBounds)
    BY <1>2, <1>3, <2>1, GrabBehindEnd
  <2>. QED
    BY <1>1, <1>7, <2>2 DEF Has, BufferEnd, Readers
<1>. QED
  BY <1>5, <1>6, <1>7 DEF Readers, BufferEnd

\* Before the end of the buffer the position is the pointer less the bits not
\* consumed; behind it, and with no bits left, it is the end.
LEMMA Position ==
    ASSUME NEW r \in Readers, AlignedReader(r)
    PROVE  /\ GetNumBitsRead(r) \in 0 .. DataBits(r)
           /\ r.dataIn <= BufferEnd(r) /\ r.bitsAvail >= 0 =>
                GetNumBitsRead(r) = 8 * r.dataIn - r.bitsAvail
           /\ r.dataIn > BufferEnd(r) \/ r.bitsAvail <= 0 =>
                GetNumBitsRead(r) = DataBits(r)
<1>1. GetNumBitsRead(r) = MIN(8 * r.dataIn - r.bitsAvail, DataBits(r))
  BY TellReader
<1>2. r.dataIn > BufferEnd(r) => r.dataIn >= BufferEnd(r) + 4
  BY DEF AlignedReader, nHead, Readers, BufferEnd
<1>. QED
  BY <1>1, <1>2 DEF AlignedReader, Readers, DataBits, BufferEnd, MIN

----------------------------------------------------------------------------
(* Reads *)

\* A read of n bits takes reader r to s and returns w: the stream's Read on
\* two readers.
Reads(r, s, n, w) ==
    \/ /\ Synced(r)
       /\ GetNumBitsRead(r) + n <= DataBits(r)
       /\ w = Bits(GetNumBitsRead(r), n)
       /\ GetNumBitsRead(s) = GetNumBitsRead(r) + n
       /\ s.overflow = r.overflow
       /\ Synced(s)
    \/ /\ Synced(r)
       /\ GetNumBitsRead(r) + n > DataBits(r)
       /\ w = Zero
       /\ GetNumBitsRead(s) = DataBits(r)
       /\ s.overflow = TRUE
       /\ Synced(s)
    \/ /\ Synced(r)
       /\ r.overflow
       /\ w = Zero
       /\ GetNumBitsRead(s) \in GetNumBitsRead(r) .. DataBits(r)
       /\ s.overflow = TRUE
       /\ ~Synced(s)
    \/ ~Synced(r) /\ r.overflow /\ s.overflow = TRUE

\* An operation neither changes the buffer nor loads from outside it, and
\* restores what the next one relies on.
Keeps(r, s) ==
    /\ Good(s)
    /\ s.dataBytes = r.dataBytes
    /\ s.inBounds = r.inBounds

\* Consuming bits of the word with some left.
LEMMA ConsumeSome ==
    ASSUME NEW r, Good(r), NEW n \in 1 .. 32, n < r.bitsAvail
    PROVE  /\ Keeps(r, Consume(r, n))
           /\ Synced(r) => Synced(Consume(r, n))
           /\ Reads(r, Consume(r, n), n, Masked(r.inBufWord, n))
<1> DEFINE s == Consume(r, n)
           a == r.bitsAvail - n
           w == ShiftRight(r.inBufWord, n)
<1>1. r \in Readers /\ AlignedReader(r) /\ (~r.overflow => Synced(r))
  BY DEF Good
<1>2. /\ r.bitsAvail \in Int /\ r.dataIn \in Nat /\ r.dataBytes \in Nat
      /\ r.overflow \in BOOLEAN /\ r.inBufWord \in Words
  BY <1>1 DEF Readers
<1>3. a \in Int /\ w \in Words
  <2>1. n \in Nat
    OBVIOUS
  <2>2. w \in Words
    BY <1>2, <2>1, WordsType
  <2>. QED
    BY <1>2, <2>2
<1>4. s = [r EXCEPT !.bitsAvail = a, !.inBufWord = w]
  BY <1>2 DEF Consume
<1> HIDE DEF s
<1>5. Has(s, r.dataBytes, r.dataIn, a, w, r.overflow, r.inBounds)
  BY <1>1, <1>3, <1>4, SetWord
<1>6. AlignedReader(s)
  BY <1>1, <1>2, <1>5 DEF AlignedReader, Has, nHead, BufferEnd
<1>7. Synced(r) => Synced(s)
  <2>1. CASE r.dataIn > BufferEnd(r)
    BY <1>2, <1>5, <2>1, NoBits DEF Synced, Has, BufferEnd
  <2>2. CASE r.dataIn <= BufferEnd(r)
    <3> SUFFICES ASSUME Synced(r) PROVE Synced(s)
      OBVIOUS
    <3>1. r.inBufWord = Bits(8 * r.dataIn - r.bitsAvail, r.bitsAvail)
      BY <1>2, <2>2 DEF Synced, BufferEnd
    <3>2. w = Bits(8 * r.dataIn - r.bitsAvail + n, r.bitsAvail - n)
      <4>1. /\ 8 * r.dataIn - r.bitsAvail \in Int /\ r.bitsAvail \in Int
            /\ r.bitsAvail <= 32 /\ n \in Nat
        BY <1>1, <1>2 DEF AlignedReader
      <4>. QED
        BY <3>1, <4>1, ShiftRightBits
    <3>3. 8 * r.dataIn - r.bitsAvail + n = 8 * s.dataIn - s.bitsAvail
      BY <1>2, <1>5 DEF Has
    <3>. QED
      BY <1>2, <1>5, <2>2, <3>2, <3>3 DEF Synced, Has, BufferEnd
  <2>. QED
    BY <1>2, <2>1, <2>2 DEF BufferEnd
<1>8. Keeps(r, s)
  BY <1>1, <1>5, <1>6, <1>7 DEF Keeps, Good, Has
<1>9. Reads(r, s, n, Masked(r.inBufWord, n))
  <2>1. CASE ~Synced(r)
    BY <1>1, <1>2, <1>5, <2>1 DEF Reads, Has
  <2>2. CASE Synced(r) /\ r.dataIn > BufferEnd(r)
    <3>1. r.overflow = TRUE
      BY <1>1, <1>2, <2>2 DEF AlignedReader
    <3>2. GetNumBitsRead(r) = DataBits(r) /\ GetNumBitsRead(s) = DataBits(r)
      BY <1>1, <1>5, <1>6, <2>2, Position DEF Has, DataBits, BufferEnd
    <3>3. Masked(r.inBufWord, n) = Zero
      BY <1>2, <2>2, NoBits DEF Synced, BufferEnd
    <3>. QED
      BY <1>2, <1>5, <1>7, <2>2, <3>1, <3>2, <3>3 DEF Reads, Has, DataBits
  <2>3. CASE Synced(r) /\ r.dataIn <= BufferEnd(r)
    <3>1. GetNumBitsRead(r) = 8 * r.dataIn - r.bitsAvail
      BY <1>1, <1>2, <2>3, Position
    <3>2. GetNumBitsRead(s) = 8 * r.dataIn - a
      <4>1. s.dataIn <= BufferEnd(s) /\ s.bitsAvail >= 0
        BY <1>2, <1>5, <2>3 DEF Has, BufferEnd
      <4>. QED
        BY <1>5, <1>6, <4>1, Position DEF Has
    <3>3. Masked(r.inBufWord, n) = Bits(GetNumBitsRead(r), n)
      BY <1>2, <2>3, <3>1, MaskedBits DEF Synced, BufferEnd
    <3>4. GetNumBitsRead(r) + n <= DataBits(r)
      BY <1>2, <2>3, <3>1 DEF DataBits, BufferEnd
    <3>. QED
      BY <1>2, <1>5, <1>7, <2>3, <3>1, <3>2, <3>3, <3>4 DEF Reads, Has
  <2>. QED
    BY <1>2, <2>1, <2>2, <2>3 DEF BufferEnd
<1>. QED
  BY <1>7, <1>8, <1>9 DEF s

\* Consuming the last bits of the word.
LEMMA ConsumeAll ==
    ASSUME NEW r, Good(r), NEW n \in 1 .. 32, n = r.bitsAvail
    PROVE  /\ Keeps(r, Consume(r, n))
           /\ Reads(r, Consume(r, n), n, Masked(r.inBufWord, n))
<1> DEFINE s == Consume(r, n)
<1>1. r \in Readers /\ AlignedReader(r) /\ (~r.overflow => Synced(r))
  BY DEF Good
<1>2. /\ r.bitsAvail \in Int /\ r.dataIn \in Nat /\ r.dataBytes \in Nat
      /\ r.overflow \in BOOLEAN /\ r.inBufWord \in Words
      /\ BufferEnd(r) = r.dataBytes /\ DataBits(r) = 8 * r.dataBytes
  BY <1>1 DEF Readers, BufferEnd, DataBits
<1>3. s = FetchNext(r)
  BY <1>2 DEF Consume
<1> HIDE DEF s
<1>4. CASE r.dataIn < BufferEnd(r)
  <2>1. /\ Has(s, r.dataBytes, r.dataIn + 4, 32, Bits(8 * r.dataIn, 32),
               r.overflow, r.inBounds)
        /\ r.dataIn + 4 <= BufferEnd(r)
    BY <1>1, <1>3, <1>4, FetchReader DEF AlignedReader
  <2>2. AlignedReader(s)
    BY <1>1, <1>2, <2>1 DEF AlignedReader, Has, nHead, BufferEnd
  <2>3. Synced(s)
    BY <1>2, <2>1 DEF Synced, Has, BufferEnd
  <2>4. Keeps(r, s)
    BY <2>1, <2>2, <2>3 DEF Keeps, Good, Has
  <2>5. GetNumBitsRead(r) = 8 * r.dataIn - n
    BY <1>1, <1>2, <1>4, Position
  <2>6. GetNumBitsRead(s) = 8 * r.dataIn
    <3>1. s.dataIn <= BufferEnd(s) /\ s.bitsAvail >= 0
      BY <1>2, <2>1 DEF Has, BufferEnd
    <3>. QED
      BY <1>2, <2>1, <2>2, <3>1, Position DEF Has
  <2>7. Synced(r) => Masked(r.inBufWord, n) = Bits(GetNumBitsRead(r), n)
    BY <1>2, <1>4, <2>5, MaskedBits DEF Synced
  <2>8. Reads(r, s, n, Masked(r.inBufWord, n))
    BY <1>1, <1>2, <1>4, <2>1, <2>3, <2>5, <2>6, <2>7 DEF Reads, Has
  <2>. QED
    BY <2>4, <2>8 DEF s
<1>5. CASE r.dataIn = BufferEnd(r)
  <2>1. Has(s, r.dataBytes, r.dataIn + 4, 1, Zero, r.overflow, r.inBounds)
    BY <1>1, <1>3, <1>5, FetchReader DEF AlignedReader
  <2>2. AlignedReader(s)
    BY <1>1, <1>2, <2>1 DEF AlignedReader, Has, nHead, BufferEnd
  <2>3. Synced(s)
    BY <1>2, <1>5, <2>1 DEF Synced, Has, BufferEnd
  <2>4. Keeps(r, s)
    BY <2>1, <2>2, <2>3 DEF Keeps, Good, Has
  <2>5. GetNumBitsRead(r) = 8 * r.dataIn - n
    BY <1>1, <1>2, <1>5, Position
  <2>6. GetNumBitsRead(s) = 8 * r.dataIn
    <3>1. s.dataIn > BufferEnd(s) /\ DataBits(s) = 8 * r.dataIn
      BY <1>2, <1>5, <2>1 DEF Has, BufferEnd, DataBits
    <3>. QED
      BY <1>2, <2>1, <2>2, <3>1, Position DEF Has
  <2>7. Synced(r) => Masked(r.inBufWord, n) = Bits(GetNumBitsRead(r), n)
    BY <1>2, <1>5, <2>5, MaskedBits DEF Synced
  <2>8. Reads(r, s, n, Masked(r.inBufWord, n))
    BY <1>1, <1>2, <1>5, <2>1, <2>3, <2>5, <2>6, <2>7 DEF Reads, Has
  <2>. QED
    BY <2>4, <2>8 DEF s
<1>6. CASE r.dataIn > BufferEnd(r)
  <2>1. Has(s, r.dataBytes, r.dataIn, 32, Zero, TRUE, r.inBounds)
    BY <1>1, <1>3, <1>6, FetchReader DEF AlignedReader
  <2>2. AlignedReader(s)
    BY <1>1, <1>2, <1>6, <2>1 DEF AlignedReader, Has, nHead, BufferEnd
  <2>3. Synced(s)
    BY <1>2, <1>6, <2>1 DEF Synced, Has, BufferEnd
  <2>4. Keeps(r, s)
    BY <2>1, <2>2, <2>3 DEF Keeps, Good, Has
  <2>5. GetNumBitsRead(r) = DataBits(r)
    BY <1>1, <1>6, Position
  <2>6. GetNumBitsRead(s) = DataBits(r)
    <3>1. s.dataIn > BufferEnd(s) /\ DataBits(s) = DataBits(r)
      BY <1>2, <1>6, <2>1 DEF Has, BufferEnd, DataBits
    <3>. QED
      BY <2>1, <2>2, <3>1, Position DEF Has
  <2>7. Synced(r) => Masked(r.inBufWord, n) = Zero
    BY <1>2, <1>6, NoBits DEF Synced
  <2>8. Reads(r, s, n, Masked(r.inBufWord, n))
    BY <1>1, <1>2, <2>1, <2>3, <2>5, <2>6, <2>7 DEF Reads, Has
  <2>. QED
    BY <2>4, <2>8 DEF s
<1>. QED
  BY <1>2, <1>4, <1>5, <1>6

\* A single bit consumed where none is left: the end of a short buffer.
LEMMA ConsumeNone ==
    ASSUME NEW r, Good(r), r.bitsAvail <= 0
    PROVE  LET s == Consume(r, 1) IN
           /\ Keeps(r, s)
           /\ s.overflow = r.overflow
           /\ Synced(r) /\ Synced(s)
           /\ Masked(r.inBufWord, 1) = Zero
           /\ GetNumBitsRead(r) = DataBits(r)
           /\ GetNumBitsRead(s) = DataBits(r)
           /\ DataBits(r) < WordBits
<1> DEFINE s == Consume(r, 1)
           a == r.bitsAvail - 1
<1>1. r \in Readers /\ AlignedReader(r)
  BY DEF Good
<1>2. /\ r.bitsAvail \in Int /\ r.dataIn \in Nat /\ r.dataBytes \in Nat
      /\ r.overflow \in BOOLEAN
      /\ BufferEnd(r) = r.dataBytes /\ DataBits(r) = 8 * r.dataBytes
  BY <1>1 DEF Readers, BufferEnd, DataBits
<1>3. r.dataBytes < 4 /\ r.dataIn = BufferEnd(r) /\ r.inBufWord = Zero
  BY <1>1 DEF AlignedReader
<1>4. ShiftRight(r.inBufWord, 1) = Zero /\ Masked(r.inBufWord, 1) = Zero
  BY <1>3, NoBits
<1>5. s = [r EXCEPT !.bitsAvail = a, !.inBufWord = Zero]
  <2>1. r.bitsAvail # 1
    BY <1>2
  <2>2. s = [r EXCEPT !.bitsAvail = a,
                      !.inBufWord = ShiftRight(r.inBufWord, 1)]
    BY <2>1 DEF Consume
  <2>. QED
    BY <1>4, <2>2
<1> HIDE DEF s
<1>6. Has(s, r.dataBytes, r.dataIn, a, Zero, r.overflow, r.inBounds)
  <2>1. a \in Int
    BY <1>2
  <2>2. Zero \in Words
    BY WordsType
  <2>. QED
    BY <1>1, <1>5, <2>1, <2>2, SetWord
<1>7. AlignedReader(s)
  BY <1>1, <1>2, <1>3, <1>6 DEF AlignedReader, Has, nHead, BufferEnd
<1>8. Synced(r) /\ Synced(s)
  <2>1. Bits(8 * r.dataIn - r.bitsAvail, r.bitsAvail) = Zero
    BY <1>2, NoBits
  <2>2. Bits(8 * r.dataIn - a, a) = Zero
    BY <1>2, NoBits
  <2>. QED
    BY <1>2, <1>3, <1>6, <2>1, <2>2 DEF Synced, Has, BufferEnd
<1>9. GetNumBitsRead(r) = DataBits(r) /\ GetNumBitsRead(s) = DataBits(r)
  BY <1>1, <1>2, <1>6, <1>7, Position DEF Has, DataBits
<1>. QED
  BY <1>2, <1>3, <1>4, <1>6, <1>7, <1>8, <1>9
  DEF Keeps, Good, Has, WordBits, s

\* A read of more bits than the word holds.
LEMMA ReadAcross ==
    ASSUME NEW r, Good(r), NEW n \in 1 .. 32, r.bitsAvail < n
    PROVE  /\ Keeps(r, AfterReadUBitLong(r, n))
           /\ Reads(r, AfterReadUBitLong(r, n), n, UBitLong(r, n))
           /\ UBitLong(r, n) \in {Zero, Bits(GetNumBitsRead(r), n)}
<1> DEFINE s == AfterReadUBitLong(r, n)
           g == GrabNextDWord(r, TRUE)
           need == n - r.bitsAvail
<1>1. r \in Readers /\ AlignedReader(r) /\ (~r.overflow => Synced(r))
  BY DEF Good
<1>2. /\ r.bitsAvail \in Int /\ r.dataIn \in Nat /\ r.dataBytes \in Nat
      /\ r.overflow \in BOOLEAN /\ r.inBufWord \in Words
      /\ BufferEnd(r) = r.dataBytes /\ DataBits(r) = 8 * r.dataBytes
  BY <1>1 DEF Readers, BufferEnd, DataBits
<1>3. ~(r.bitsAvail >= n)
  BY <1>2
<1>4. /\ s = IF g.overflow
             THEN g
             ELSE [g EXCEPT !.bitsAvail = 32 - need,
                            !.inBufWord = ShiftRight(@, need)]
      /\ UBitLong(r, n) =
           IF g.overflow
             THEN Zero
             ELSE Or(r.inBufWord,
                     ShiftLeft(Masked(g.inBufWord, need), g.bitsAvail))
  BY <1>3, Zenon DEF AfterReadUBitLong, UBitLong
<1> HIDE DEF s, g
<1>5. CASE r.dataIn = BufferEnd(r)
  <2>1. Has(g, r.dataBytes, r.dataIn + 4, 1, Zero, TRUE, r.inBounds)
    BY <1>1, <1>2, <1>5, GrabAtEnd DEF g
  <2>2. s = g /\ UBitLong(r, n) = Zero
    BY <1>4, <2>1 DEF Has
  <2>3. AlignedReader(s)
    BY <1>1, <1>2, <2>1, <2>2 DEF AlignedReader, Has, nHead, BufferEnd
  <2>4. Synced(s)
    BY <1>2, <1>5, <2>1, <2>2 DEF Synced, Has, BufferEnd
  <2>5. GetNumBitsRead(r) + n > DataBits(r)
    <3>1. CASE r.bitsAvail >= 0
      BY <1>1, <1>2, <1>5, <3>1, Position
    <3>2. CASE r.bitsAvail < 0
      BY <1>1, <1>2, <3>2, Position
    <3>. QED
      BY <1>2, <3>1, <3>2
  <2>6. GetNumBitsRead(s) = DataBits(r)
    <3>1. s.dataIn > BufferEnd(s) /\ DataBits(s) = DataBits(r)
      BY <1>2, <1>5, <2>1, <2>2 DEF Has, BufferEnd, DataBits
    <3>. QED
      BY <2>1, <2>2, <2>3, <3>1, Position DEF Has
  <2>7. Keeps(r, s)
    BY <2>1, <2>2, <2>3, <2>4 DEF Keeps, Good, Has
  <2>8. Reads(r, s, n, UBitLong(r, n))
    BY <1>1, <2>1, <2>2, <2>4, <2>5, <2>6 DEF Reads, Has
  <2>. QED
    BY <2>2, <2>7, <2>8 DEF s
<1>6. CASE r.dataIn > BufferEnd(r)
  <2>1. Has(g, r.dataBytes, r.dataIn, r.bitsAvail, Zero, TRUE, r.inBounds)
    BY <1>1, <1>6, GrabBehindEnd DEF g
  <2>2. s = g /\ UBitLong(r, n) = Zero
    BY <1>4, <2>1 DEF Has
  <2>3. AlignedReader(s)
    BY <1>1, <1>2, <2>1, <2>2 DEF AlignedReader, Has, nHead, BufferEnd
  <2>4. Synced(s)
    BY <1>2, <1>6, <2>1, <2>2 DEF Synced, Has, BufferEnd
  <2>5. GetNumBitsRead(r) + n > DataBits(r)
    BY <1>1, <1>2, <1>6, Position
  <2>6. GetNumBitsRead(s) = DataBits(r)
    <3>1. s.dataIn > BufferEnd(s) /\ DataBits(s) = DataBits(r)
      BY <1>2, <1>6, <2>1, <2>2 DEF Has, BufferEnd, DataBits
    <3>. QED
      BY <2>1, <2>2, <2>3, <3>1, Position DEF Has
  <2>7. Keeps(r, s)
    BY <2>1, <2>2, <2>3, <2>4 DEF Keeps, Good, Has
  <2>8. Reads(r, s, n, UBitLong(r, n))
    BY <1>1, <2>1, <2>2, <2>4, <2>5, <2>6 DEF Reads, Has
  <2>. QED
    BY <2>2, <2>7, <2>8 DEF s
<1>7. CASE r.dataIn < BufferEnd(r)
  <2>1. /\ Has(g, r.dataBytes, r.dataIn + 4, r.bitsAvail,
               Bits(8 * r.dataIn, 32), r.overflow, r.inBounds)
        /\ r.dataIn + 4 <= BufferEnd(r)
    BY <1>1, <1>7, GrabBeforeEnd DEF g, AlignedReader
  <2>2. r.bitsAvail \in 1 .. 31 /\ need \in 1 .. 31
    BY <1>1, <1>2, <1>7 DEF AlignedReader
  <2>3. GetNumBitsRead(r) = 8 * r.dataIn - r.bitsAvail
    BY <1>1, <1>2, <1>7, <2>2, Position
  <2>4. CASE r.overflow = TRUE
    <3>1. s = g /\ UBitLong(r, n) = Zero
      BY <1>4, <2>1, <2>4 DEF Has
    <3>2. AlignedReader(s)
      BY <1>1, <1>2, <2>1, <2>2, <3>1 DEF AlignedReader, Has, nHead, BufferEnd
    <3>3. GetNumBitsRead(s) = 8 * (r.dataIn + 4) - r.bitsAvail
      <4>1. s.dataIn <= BufferEnd(s) /\ s.bitsAvail >= 0
        BY <1>2, <2>1, <2>2, <3>1 DEF Has, BufferEnd
      <4>. QED
        BY <2>1, <3>1, <3>2, <4>1, Position DEF Has
    <3>4. ~Synced(s)
      <4>1. 31 \in BitNrs
        BY DEF BitNrs, WordBits
      <4>2. Bits(8 * r.dataIn, 32)[31] = 8 * r.dataIn + 31
        BY <4>1 DEF Bits
      <4>3. Bits(8 * (r.dataIn + 4) - r.bitsAvail, r.bitsAvail)[31] = O
        BY <2>2, <4>1 DEF Bits
      <4>4. 8 * r.dataIn + 31 # O
        BY <1>2 DEF O
      <4>. QED
        BY <1>2, <2>1, <3>1, <4>2, <4>3, <4>4 DEF Synced, Has, BufferEnd
    <3>5. Keeps(r, s)
      BY <2>1, <2>4, <3>1, <3>2 DEF Keeps, Good, Has
    <3>6. GetNumBitsRead(s) \in GetNumBitsRead(r) .. DataBits(r)
      BY <1>2, <2>1, <2>2, <2>3, <3>3
    <3>7. Reads(r, s, n, UBitLong(r, n))
      BY <2>1, <2>4, <3>1, <3>4, <3>6 DEF Reads, Has
    <3>. QED
      BY <3>1, <3>5, <3>7 DEF s
  <2>5. CASE r.overflow = FALSE
    <3> DEFINE a == 32 - need
               w == ShiftRight(g.inBufWord, need)
    <3>1. r.inBufWord = Bits(8 * r.dataIn - r.bitsAvail, r.bitsAvail)
      BY <1>1, <1>2, <1>7, <2>5 DEF Synced
    <3>2. w = Bits(8 * r.dataIn + need, a)
      <4>1. /\ 8 * r.dataIn \in Int /\ need \in Nat /\ 32 \in Int
            /\ 32 <= 32 /\ a = 32 - need
        BY <1>2, <2>2
      <4>2. w = ShiftRight(Bits(8 * r.dataIn, 32), need)
        BY <2>1 DEF Has
      <4>. QED
        BY <4>1, <4>2, ShiftRightBits
    <3>3. a \in Int /\ w \in Words
      <4>1. 8 * r.dataIn + need \in Nat /\ a \in Int
        BY <1>2, <2>2
      <4>. QED
        BY <3>2, <4>1, WordsType
    <3>4. s = [g EXCEPT !.bitsAvail = a, !.inBufWord = w]
      BY <1>4, <2>1, <2>5 DEF Has
    <3> HIDE DEF w, a
    <3>5. Has(s, r.dataBytes, r.dataIn + 4, a, w, r.overflow, r.inBounds)
      <4>1. g \in Readers
        BY <2>1 DEF Has
      <4>2. Has(s, g.dataBytes, g.dataIn, a, w, g.overflow, g.inBounds)
        BY <3>3, <3>4, <4>1, SetWord
      <4>. QED
        BY <2>1, <4>2 DEF Has
    <3>6. AlignedReader(s)
      BY <1>1, <1>2, <2>1, <2>2, <3>5 DEF AlignedReader, Has, nHead, BufferEnd, a
    <3>7. Synced(s)
      <4>1. 8 * (r.dataIn + 4) - a = 8 * r.dataIn + need
        BY <1>2, <2>2 DEF a
      <4>. QED
        BY <1>2, <2>1, <3>2, <3>5, <4>1 DEF Synced, Has, BufferEnd
    <3>8. GetNumBitsRead(s) = 8 * r.dataIn + need
      <4>1. s.dataIn <= BufferEnd(s) /\ s.bitsAvail >= 0
        BY <1>2, <2>1, <2>2, <3>5 DEF Has, BufferEnd, a
      <4>2. GetNumBitsRead(s) = 8 * (r.dataIn + 4) - a
        BY <3>5, <3>6, <4>1, Position DEF Has
      <4>. QED
        BY <1>2, <2>2, <4>2 DEF a
    <3>9. UBitLong(r, n) = Bits(GetNumBitsRead(r), n)
      <4>1. UBitLong(r, n) = Or(r.inBufWord,
                  ShiftLeft(Masked(Bits(8 * r.dataIn, 32), need), r.bitsAvail))
        BY <1>4, <2>1, <2>5 DEF Has
      <4>2. Masked(Bits(8 * r.dataIn, 32), need) = Bits(8 * r.dataIn, need)
        BY <1>2, <2>2, MaskedBits, SMTT(60)
      <4> DEFINE p == 8 * r.dataIn - r.bitsAvail
      <4>3. p \in Nat /\ p + r.bitsAvail = 8 * r.dataIn
        BY <1>1, <1>2 DEF AlignedReader
      <4>4. r.bitsAvail + need = n /\ need \in Nat /\ r.bitsAvail \in 1 .. 32
        BY <1>2, <2>2
      <4>5. UBitLong(r, n) = Or(Bits(p, r.bitsAvail),
                      ShiftLeft(Bits(p + r.bitsAvail, need), r.bitsAvail))
        BY <3>1, <4>1, <4>2, <4>3
      <4> HIDE DEF p, need
      <4>6. UBitLong(r, n) = Bits(p, r.bitsAvail + need)
        BY <4>3, <4>4, <4>5, JoinedBits
      <4>. QED
        BY <2>3, <4>4, <4>6 DEF p
    <3>10. Keeps(r, s)
      BY <3>5, <3>6, <3>7 DEF Keeps, Good, Has
    <3>11. Reads(r, s, n, UBitLong(r, n))
      <4>1. GetNumBitsRead(r) + n <= DataBits(r)
        BY <1>2, <2>1, <2>2, <2>3
      <4>2. GetNumBitsRead(s) = GetNumBitsRead(r) + n
        BY <1>2, <2>3, <3>8
      <4>3. Synced(r)
        BY <1>1, <2>5
      <4>. QED
        BY <3>5, <3>7, <3>9, <4>1, <4>2, <4>3 DEF Reads, Has
    <3>. QED
      BY <3>9, <3>10, <3>11 DEF s
  <2>. QED
    BY <1>2, <2>4, <2>5
<1>. QED
  BY <1>2, <1>5, <1>6, <1>7

\* ReadUBitLong reads as the stream does.
LEMMA ReadReader ==
    ASSUME NEW r, Good(r), NEW n \in 1 .. 32
    PROVE  /\ Keeps(r, AfterReadUBitLong(r, n))
           /\ Reads(r, AfterReadUBitLong(r, n), n, UBitLong(r, n))
<1>1. r.bitsAvail \in Int
  BY DEF Good, Readers
<1>2. r.bitsAvail >= n => /\ AfterReadUBitLong(r, n) = Consume(r, n)
                          /\ UBitLong(r, n) = Masked(r.inBufWord, n)
  BY DEF AfterReadUBitLong, UBitLong
<1>3. CASE n < r.bitsAvail
  BY <1>1, <1>2, <1>3, ConsumeSome
<1>4. CASE n = r.bitsAvail
  BY <1>1, <1>2, <1>4, ConsumeAll
<1>5. CASE r.bitsAvail < n
  BY <1>5, ReadAcross
<1>. QED
  BY <1>1, <1>3, <1>4, <1>5

\* What a seek to position p leaves behind.
Found(r, s, p) ==
    /\ Keeps(r, s)
    /\ Synced(s)
    /\ GetNumBitsRead(s) = p
    /\ s.overflow = r.overflow

\* Seek finds each position of the buffer, whatever state the reader is in.
LEMMA SeekReader ==
    ASSUME NEW r \in Readers, NEW p \in 0 .. DataBits(r)
    PROVE  Found(r, SeekInside(r, p), p)
<1> DEFINE s == SeekInside(r, p)
           head == nHead(r)
<1>1. /\ r.dataIn \in Nat /\ r.dataBytes \in Nat /\ r.dataBytes > 0
      /\ r.overflow \in BOOLEAN /\ p \in Nat
      /\ BufferEnd(r) = r.dataBytes /\ DataBits(r) = 8 * r.dataBytes
      /\ head \in 0 .. 3 /\ head = r.dataBytes % 4
  BY DEF Readers, BufferEnd, DataBits, nHead
<1>2. CASE r.dataBytes < 4 \/ p \div 8 < head
  <2> DEFINE a == 8 * head - p
             w == ShiftRight(HeadBytes(head), p)
  <2>1. /\ p % 32 = p /\ p <= 8 * head /\ head <= r.dataBytes /\ head > 0
        /\ p = 8 * head => r.dataBytes < 4
        /\ r.dataBytes < 4 => head = r.dataBytes
        /\ head % 4 = head
    BY <1>1, <1>2
  <2>2. w = Bits(p, a)
    <3>1. 0 \in Int /\ 8 * head \in Int /\ p \in Nat /\ 8 * head <= 32
      BY <1>1
    <3>2. ShiftRight(Bits(0, 8 * head), p) = Bits(0 + p, 8 * head - p)
      BY <3>1, ShiftRightBits
    <3>. QED
      BY <1>1, <3>2 DEF HeadBytes
  <2>3. a \in Int /\ head \in Nat
    BY <1>1
  <2>4. w \in Words
    BY <1>1, <2>2, <2>3, WordsType
  <2>5. s = [r EXCEPT !.dataIn = head, !.inBufWord = w, !.bitsAvail = a]
    BY <1>2, <2>1 DEF SeekInside
  <2> HIDE DEF s, a, w, head
  <2>6. Has(s, r.dataBytes, head, a, w, r.overflow, r.inBounds)
    BY <2>3, <2>4, <2>5 DEF Readers, Has
  <2>7. AlignedReader(s)
    <3>1. a <= 0 => w = Zero
      BY <1>1, <2>2, <2>3, NoBits
    <3>. QED
      BY <1>1, <2>1, <2>6, <3>1 DEF AlignedReader, Has, nHead, BufferEnd, a
  <2>8. Synced(s)
    <3>1. 8 * head - a = p
      BY <1>1 DEF a
    <3>. QED
      BY <1>1, <2>1, <2>2, <2>6, <3>1 DEF Synced, Has, BufferEnd
  <2>9. GetNumBitsRead(s) = p
    <3>1. s.dataIn <= BufferEnd(s) /\ s.bitsAvail >= 0
      BY <1>1, <2>1, <2>6 DEF Has, BufferEnd, a
    <3>2. GetNumBitsRead(s) = 8 * head - a
      BY <2>6, <2>7, <3>1, Position DEF Has
    <3>. QED
      BY <1>1, <3>2 DEF a
  <2>. QED
    BY <2>6, <2>7, <2>8, <2>9 DEF Found, Keeps, Good, Has, s
<1>3. CASE ~(r.dataBytes < 4 \/ p \div 8 < head)
  <2> DEFINE adj == p - 8 * head
             d == 4 * (adj \div 32) + head
             m == adj % 32
             t == [r EXCEPT !.dataIn = d, !.bitsAvail = 32]
             g == GrabNextDWord(t, FALSE)
             a == MIN(g.bitsAvail, 32 - m)
             w == ShiftRight(g.inBufWord, m)
  <2>1. /\ adj \in Nat /\ d \in Nat /\ m \in 0 .. 31 /\ 8 * d + m = p
        /\ d <= r.dataBytes /\ d % 4 = head
    <3> DEFINE k == adj \div 32
    <3>1. adj \in Nat
      BY <1>1, <1>3
    <3>2. k \in Nat /\ m \in 0 .. 31 /\ adj = 32 * k + m
      BY <3>1
    <3>3. d = 4 * k + head
      OBVIOUS
    <3> HIDE DEF k, m, d
    <3>4. d \in Nat /\ 8 * d + m = p /\ d <= r.dataBytes
      <4>1. p - 8 * head = 32 * k + m /\ head \in Nat
        BY <1>1, <3>2
      <4>2. p <= 8 * r.dataBytes /\ p \in Nat /\ r.dataBytes \in Nat
        BY <1>1
      <4> HIDE DEF head
      <4>. QED
        BY <3>2, <3>3, <4>1, <4>2
    <3>5. d % 4 = head
      BY <1>1, <3>2, <3>3
    <3>. QED
      BY <3>1, <3>2, <3>4, <3>5
  <2>2. s = [g EXCEPT !.inBufWord = w, !.bitsAvail = a]
    BY <1>3, Zenon DEF SeekInside
  <2>3. Has(t, r.dataBytes, d, 32, r.inBufWord, r.overflow, r.inBounds)
    <3> DEFINE b == 32
    <3>1. d \in Nat /\ b \in Int
      BY <2>1
    <3>2. t = [r EXCEPT !.dataIn = d, !.bitsAvail = b]
      OBVIOUS
    <3> HIDE DEF d, b, t
    <3>3. Has(t, r.dataBytes, d, b, r.inBufWord, r.overflow, r.inBounds)
      BY <3>1, <3>2 DEF Readers, Has
    <3>. QED
      BY <3>3 DEF b
  <2> HIDE DEF s, t, g, a, w, d, m, adj
  <2>4. /\ t \in Readers /\ BufferEnd(t) = r.dataBytes
        /\ t.dataIn % 4 = nHead(t) /\ t.dataIn = d
    BY <1>1, <2>1, <2>3 DEF Has, nHead, BufferEnd
  <2>5. CASE d < r.dataBytes
    <3>1. /\ Has(g, t.dataBytes, t.dataIn + 4, t.bitsAvail,
                 Bits(8 * t.dataIn, 32), t.overflow, t.inBounds)
          /\ t.dataIn + 4 <= BufferEnd(t)
      BY <2>4, <2>5, GrabBeforeEnd DEF g
    <3>2. /\ Has(g, r.dataBytes, d + 4, 32, Bits(8 * d, 32), r.overflow,
                 r.inBounds)
          /\ d + 4 <= r.dataBytes
      BY <2>3, <2>4, <3>1 DEF Has
    <3>3. a = 32 - m /\ a \in 1 .. 32
      BY <2>1, <3>2 DEF a, MIN, Has
    <3>4. w = Bits(p, a)
      <4>1. /\ 8 * d \in Int /\ m \in Nat /\ 32 \in Int /\ 32 <= 32
            /\ 8 * d + m = p
        BY <2>1
      <4>2. ShiftRight(Bits(8 * d, 32), m) = Bits(8 * d + m, 32 - m)
        BY <4>1, ShiftRightBits
      <4>. QED
        BY <3>2, <3>3, <4>1, <4>2 DEF w, Has
    <3>5. w \in Words /\ a \in Int
      BY <1>1, <3>3, <3>4, WordsType
    <3>6. Has(s, r.dataBytes, d + 4, a, w, r.overflow, r.inBounds)
      <4>1. g \in Readers
        BY <3>2 DEF Has
      <4>2. Has(s, g.dataBytes, g.dataIn, a, w, g.overflow, g.inBounds)
        BY <2>2, <3>5, <4>1 DEF Has, Readers
      <4>. QED
        BY <3>2, <4>2 DEF Has
    <3>7. AlignedReader(s)
      BY <1>1, <2>1, <3>2, <3>3, <3>6 DEF AlignedReader, Has, nHead, BufferEnd
    <3>8. Synced(s)
      <4>1. 8 * (d + 4) - a = p
        BY <1>1, <2>1, <3>3
      <4>. QED
        BY <1>1, <2>1, <3>2, <3>4, <3>6, <4>1 DEF Synced, Has, BufferEnd
    <3>9. GetNumBitsRead(s) = p
      <4>1. s.dataIn <= BufferEnd(s) /\ s.bitsAvail >= 0
        BY <1>1, <3>2, <3>3, <3>6 DEF Has, BufferEnd
      <4>2. GetNumBitsRead(s) = 8 * (d + 4) - a
        BY <3>6, <3>7, <4>1, Position DEF Has
      <4>. QED
        BY <1>1, <2>1, <3>3, <4>2
    <3>. QED
      BY <3>6, <3>7, <3>8, <3>9 DEF Found, Keeps, Good, Has, s
  <2>6. CASE d = r.dataBytes
    <3>1. Has(g, t.dataBytes, t.dataIn + 4, 1, Zero, t.overflow \/ FALSE,
              t.inBounds)
      BY <2>4, <2>6, GrabAtEnd DEF g
    <3>2. Has(g, r.dataBytes, d + 4, 1, Zero, r.overflow, r.inBounds)
      BY <1>1, <2>3, <2>4, <3>1 DEF Has
    <3>3. m = 0 /\ p = DataBits(r)
      BY <1>1, <2>1, <2>6
    <3>4. a = 1 /\ w = Zero
      BY <3>2, <3>3, NoBits DEF a, w, MIN, Has
    <3>5. w \in Words /\ a \in Int
      BY <3>4, WordsType
    <3>6. Has(s, r.dataBytes, d + 4, a, w, r.overflow, r.inBounds)
      <4>1. g \in Readers
        BY <3>2 DEF Has
      <4>2. Has(s, g.dataBytes, g.dataIn, a, w, g.overflow, g.inBounds)
        BY <2>2, <3>5, <4>1 DEF Has, Readers
      <4>. QED
        BY <3>2, <4>2 DEF Has
    <3>7. AlignedReader(s)
      BY <1>1, <2>1, <3>4, <3>6 DEF AlignedReader, Has, nHead, BufferEnd
    <3>8. Synced(s)
      BY <1>1, <2>1, <2>6, <3>4, <3>6 DEF Synced, Has, BufferEnd
    <3>9. GetNumBitsRead(s) = p
      <4>1. s.dataIn > BufferEnd(s) /\ DataBits(s) = DataBits(r)
        BY <1>1, <2>1, <2>6, <3>6 DEF Has, BufferEnd, DataBits
      <4>. QED
        BY <3>3, <3>6, <3>7, <4>1, Position DEF Has
    <3>. QED
      BY <3>6, <3>7, <3>8, <3>9 DEF Found, Keeps, Good, Has, s
  <2>. QED
    BY <1>1, <2>1, <2>5, <2>6
<1>. QED
  BY <1>2, <1>3

\* What ReadBit may do: the stream's ReadEagerly on two readers.
ReadsEagerly(r, s, w) ==
    \/ /\ Synced(r)
       /\ GetNumBitsRead(r) + 1 < DataBits(r)
       /\ w = Bits(GetNumBitsRead(r), 1)
       /\ GetNumBitsRead(s) = GetNumBitsRead(r) + 1
       /\ s.overflow = r.overflow
       /\ Synced(s)
    \/ /\ Synced(r)
       /\ GetNumBitsRead(r) = DataBits(r)
       /\ DataBits(r) < WordBits
       /\ w = Zero
       /\ GetNumBitsRead(s) = GetNumBitsRead(r)
       /\ s.overflow = r.overflow
       /\ Synced(s)
    \/ ~Synced(r) /\ r.overflow /\ s.overflow = TRUE
    \/ /\ Synced(r)
       /\ GetNumBitsRead(r) + 1 >= DataBits(r)
       /\ w = IF GetNumBitsRead(r) < DataBits(r)
                THEN Bits(GetNumBitsRead(r), 1) ELSE Zero
       /\ GetNumBitsRead(s) = DataBits(r)
       /\ s.overflow = TRUE

\* The load of ReadBit, from wherever the pointer is.
LEMMA LoadReader ==
    ASSUME NEW r \in Readers, NEW a \in Int, NEW d \in Nat, NEW o \in BOOLEAN
    PROVE  Has(LoadEagerly([[r EXCEPT !.bitsAvail = a, !.dataIn = d]
                               EXCEPT !.overflow = o]),
               r.dataBytes, d + 4, a, Bits(8 * d, 32), o, r.inBounds)
<1> DEFINE t == [[r EXCEPT !.bitsAvail = a, !.dataIn = d] EXCEPT !.overflow = o]
           e == d + 4
           w == Bits(8 * d, 32)
<1>1. Has(t, r.dataBytes, d, a, r.inBufWord, o, r.inBounds)
  BY DEF Readers, Has
<1>2. e \in Nat
  OBVIOUS
<1>3. w \in Words
  BY WordsType
<1>4. LoadEagerly(t) = [t EXCEPT !.inBufWord = w, !.dataIn = e]
  BY <1>1 DEF LoadEagerly, DWordAt, WordBits, Has
<1> HIDE DEF t, e, w
<1>5. Has(LoadEagerly(t), t.dataBytes, e, t.bitsAvail, w, t.overflow,
          t.inBounds)
  BY <1>1, <1>2, <1>3, <1>4 DEF Readers, Has
<1>6. Has(LoadEagerly(t), r.dataBytes, e, a, w, o, r.inBounds)
  BY <1>1, <1>5 DEF Has
<1>. QED
  BY <1>6 DEF t, e, w

\* ReadBit reads as the stream's eager read does.
LEMMA EagerReader ==
    ASSUME NEW r, Good(r)
    PROVE  /\ Good(AfterReadBit(r))
           /\ AfterReadBit(r).dataBytes = r.dataBytes
           /\ AfterReadBit(r).inBounds = r.inBounds
           /\ ReadsEagerly(r, AfterReadBit(r), Masked(r.inBufWord, 1))
<1> DEFINE s == AfterReadBit(r)
<1>1. r \in Readers /\ AlignedReader(r) /\ (~r.overflow => Synced(r))
  BY DEF Good
<1>2. /\ r.bitsAvail \in Int /\ r.dataIn \in Nat /\ r.dataBytes \in Nat
      /\ r.overflow \in BOOLEAN
      /\ BufferEnd(r) = r.dataBytes /\ DataBits(r) = 8 * r.dataBytes
  BY <1>1 DEF Readers, BufferEnd, DataBits
<1>3. r.bitsAvail # 1 => s = Consume(r, 1)
  BY Zenon DEF AfterReadBit, Consume
<1>4. CASE r.bitsAvail <= 0
  <2>1. s = Consume(r, 1)
    BY <1>2, <1>3, <1>4
  <2> HIDE DEF s
  <2>. QED
    BY <1>4, <2>1, ConsumeNone DEF ReadsEagerly, Keeps, s
<1>5. CASE r.bitsAvail > 1
  <2>1. s = Consume(r, 1)
    BY <1>2, <1>3, <1>5
  <2> HIDE DEF s
  <2>2. /\ Keeps(r, s)
        /\ Synced(r) => Synced(s)
        /\ Reads(r, s, 1, Masked(r.inBufWord, 1))
    BY <1>5, <2>1, ConsumeSome
  <2>3. GetNumBitsRead(r) \in 0 .. DataBits(r)
    BY <1>1, Position
  <2>4. \/ GetNumBitsRead(r) + 1 < DataBits(r)
        \/ GetNumBitsRead(r) = DataBits(r)
    BY <1>1, <1>2, <1>5, Position
  <2>5. ReadsEagerly(r, s, Masked(r.inBufWord, 1))
    BY <1>2, <2>2, <2>3, <2>4 DEF ReadsEagerly, Reads
  <2>. QED
    BY <2>2, <2>5 DEF Keeps, s
<1>6. CASE r.bitsAvail = 1
  <2> DEFINE end == r.dataIn = BufferEnd(r)
             a == IF end THEN 1 ELSE 32
             d == IF end THEN r.dataIn + 4 ELSE r.dataIn
             o == r.overflow \/ d > BufferEnd(r)
             u == [r EXCEPT !.bitsAvail = a, !.dataIn = d]
  <2>1. a \in Int /\ d \in Nat /\ o \in BOOLEAN /\ u.dataIn = d
        /\ u.overflow = r.overflow
    BY <1>1, <1>2 DEF Readers
  <2>2. s = LoadEagerly([u EXCEPT !.overflow = @ \/ u.dataIn > BufferEnd(r)])
    BY <1>6, Zenon DEF AfterReadBit
  <2>3. s = LoadEagerly([u EXCEPT !.overflow = o])
    BY <2>1, <2>2
  <2> HIDE DEF s, o
  <2>4. Has(s, r.dataBytes, d + 4, a, Bits(8 * d, 32), o, r.inBounds)
    <3> HIDE DEF a, d
    <3>. QED
      BY <1>1, <2>1, <2>3, LoadReader
  <2>5. Synced(r) /\ r.dataIn <= BufferEnd(r) =>
          Masked(r.inBufWord, 1) = Bits(8 * r.dataIn - 1, 1)
    BY <1>2, <1>6, MaskedBits DEF Synced
  <2>6. CASE r.dataIn < BufferEnd(r)
    <3>1. a = 32 /\ d = r.dataIn /\ o = r.overflow
      BY <1>2, <2>6 DEF o
    <3>2. r.dataIn + 4 <= r.dataBytes
      BY <1>1, <1>2, <2>6 DEF AlignedReader, nHead
    <3>3. Has(s, r.dataBytes, r.dataIn + 4, 32, Bits(8 * r.dataIn, 32),
              r.overflow, r.inBounds)
      BY <2>4, <3>1
    <3>4. AlignedReader(s)
      BY <1>1, <1>2, <3>2, <3>3 DEF AlignedReader, Has, nHead, BufferEnd
    <3>5. Synced(s)
      BY <1>2, <3>2, <3>3 DEF Synced, Has, BufferEnd
    <3>6. GetNumBitsRead(r) = 8 * r.dataIn - 1
      BY <1>1, <1>2, <1>6, <2>6, Position
    <3>7. GetNumBitsRead(s) = 8 * r.dataIn
      <4>1. s.dataIn <= BufferEnd(s) /\ s.bitsAvail >= 0
        BY <1>2, <3>2, <3>3 DEF Has, BufferEnd
      <4>. QED
        BY <1>2, <3>3, <3>4, <4>1, Position DEF Has
    <3>8. ReadsEagerly(r, s, Masked(r.inBufWord, 1))
      BY <1>1, <1>2, <2>5, <2>6, <3>3, <3>5, <3>6, <3>7 DEF ReadsEagerly, Has
    <3>. QED
      BY <3>3, <3>4, <3>5, <3>8 DEF Good, Has, s
  <2>7. CASE r.dataIn >= BufferEnd(r)
    <3>1. o = TRUE /\ d > r.dataBytes /\ d % 4 = r.dataIn % 4
      BY <1>2, <2>7 DEF o
    <3>2. AlignedReader(s)
      BY <1>1, <1>2, <2>4, <3>1 DEF AlignedReader, Has, nHead, BufferEnd
    <3>3. GetNumBitsRead(s) = DataBits(r)
      <4>1. s.dataIn > BufferEnd(s) /\ DataBits(s) = DataBits(r)
        BY <1>2, <2>4, <3>1 DEF Has, BufferEnd, DataBits
      <4>. QED
        BY <2>4, <3>2, <4>1, Position DEF Has
    <3>4. Good(s) /\ s.dataBytes = r.dataBytes /\ s.inBounds = r.inBounds
      BY <2>4, <3>1, <3>2 DEF Good, Has
    <3>5. CASE r.dataIn = BufferEnd(r)
      <4>1. GetNumBitsRead(r) = DataBits(r) - 1
        BY <1>1, <1>2, <1>6, <3>5, Position
      <4>2. Synced(r) => Masked(r.inBufWord, 1) = Bits(GetNumBitsRead(r), 1)
        BY <1>2, <2>5, <3>5, <4>1
      <4>3. s.overflow = TRUE
        BY <2>4, <3>1 DEF Has
      <4>. QED
        BY <1>1, <1>2, <3>3, <3>4, <4>1, <4>2, <4>3 DEF ReadsEagerly, s
    <3>6. CASE r.dataIn > BufferEnd(r)
      <4>1. GetNumBitsRead(r) = DataBits(r)
        BY <1>1, <3>6, Position
      <4>2. Synced(r) => Masked(r.inBufWord, 1) = Zero
        BY <1>2, <3>6, NoBits DEF Synced
      <4>3. s.overflow = TRUE
        BY <2>4, <3>1 DEF Has
      <4>. QED
        BY <1>1, <1>2, <3>3, <3>4, <4>1, <4>2, <4>3 DEF ReadsEagerly, s
    <3>. QED
      BY <1>2, <2>7, <3>5, <3>6
  <2>. QED
    BY <1>2, <2>6, <2>7
<1>. QED
  BY <1>2, <1>4, <1>5, <1>6

----------------------------------------------------------------------------
(* The invariant *)

\* TypeOK, Aligned and InStep are inductive together only: without the
\* alignment the pointer could step over m_pBufferEnd, and without InStep a
\* straddling read would merge the wrong bits.
IInv ==
    /\ TypeOK
    /\ Aligned
    /\ InStep
    /\ LoadsInBounds

\* The invariant in terms of what the operations rely on.
LEMMA IInvIsGood == IInv <=> Good(rd) /\ call \in Calls /\ LoadsInBounds
  BY DEF IInv, Good, TypeOK, Aligned, InStep

\* Seek with any argument: to the position or, with the flag set, to the end.
LEMMA AnySeek ==
    ASSUME NEW r \in Readers, NEW p \in Int
    PROVE  /\ p \in 0 .. DataBits(r) => Found(r, AfterSeek(r, p), p)
           /\ p \notin 0 .. DataBits(r) =>
                /\ Keeps(r, AfterSeek(r, p))
                /\ Synced(AfterSeek(r, p))
                /\ GetNumBitsRead(AfterSeek(r, p)) = DataBits(r)
                /\ AfterSeek(r, p).overflow = TRUE
<1>1. CASE p \in 0 .. DataBits(r)
  BY <1>1, SeekReader DEF AfterSeek
<1>2. CASE p \notin 0 .. DataBits(r)
  <2> DEFINE t == [r EXCEPT !.overflow = TRUE]
  <2>1. Has(t, r.dataBytes, r.dataIn, r.bitsAvail, r.inBufWord, TRUE, r.inBounds)
    BY DEF Readers, Has
  <2>2. AfterSeek(r, p) = SeekInside(t, DataBits(r))
    BY <1>2 DEF AfterSeek
  <2> HIDE DEF t
  <2>3. DataBits(t) = DataBits(r) /\ DataBits(r) \in 0 .. DataBits(t)
    BY <2>1 DEF DataBits, Has, Readers
  <2>4. Found(t, AfterSeek(r, p), DataBits(r))
    BY <2>1, <2>2, <2>3, SeekReader DEF Has
  <2>. QED
    BY <1>2, <2>1, <2>4 DEF Found, Keeps, Has
<1>. QED
  BY <1>1, <1>2

\* Opening a buffer leaves a reader at its first bit.
LEMMA OpenReader ==
    ASSUME NEW n \in Sizes
    PROVE  /\ Good(Opened(n))
           /\ Synced(Opened(n))
           /\ Opened(n).dataBytes = n
           /\ GetNumBitsRead(Opened(n)) = 0
           /\ Opened(n).overflow = FALSE
           /\ Opened(n).inBounds = TRUE
<1> DEFINE t == [dataBytes |-> n, dataIn |-> 0, bitsAvail |-> 0,
                 inBufWord |-> Zero, overflow |-> FALSE, inBounds |-> TRUE]
<1>1. n \in Nat \ {0}
  BY BitReadAssumption
<1>2. Has(t, n, 0, 0, Zero, FALSE, TRUE)
  BY <1>1, WordsType DEF Has, Readers
<1>3. Opened(n) = AfterSeek(t, 0)
  BY DEF Opened
<1> HIDE DEF t
<1>4. t \in Readers /\ 0 \in 0 .. DataBits(t)
  BY <1>1, <1>2 DEF Has, DataBits
<1>5. Found(t, Opened(n), 0)
  <2>1. 0 \in Int
    OBVIOUS
  <2>. QED
    BY <1>3, <1>4, <2>1, AnySeek
<1>. QED
  BY <1>2, <1>5 DEF Found, Keeps, Has

\* What the operations return has the shape of a word.
LEMMA ReturnType ==
    ASSUME NEW r, Good(r), NEW n \in 1 .. 32
    PROVE  /\ UBitLong(r, n) \in Words
           /\ SignExtended(UBitLong(r, n), n) \in Words
           /\ Masked(r.inBufWord, 1) \in Words
<1>1. r \in Readers /\ r.inBufWord \in Words
  BY DEF Good, Readers
<1>2. UBitLong(r, n) \in Words
  <2>1. CASE r.bitsAvail >= n
    <3>1. UBitLong(r, n) = Masked(r.inBufWord, n)
      BY <2>1, Zenon DEF UBitLong
    <3>2. n \in Int
      OBVIOUS
    <3>. QED
      BY <1>1, <3>1, <3>2, WordsType
  <2>2. CASE ~(r.bitsAvail >= n)
    <3>1. r.bitsAvail < n
      BY <1>1, <2>2 DEF Readers
    <3>2. UBitLong(r, n) \in {Zero, Bits(GetNumBitsRead(r), n)}
      BY <3>1, ReadAcross
    <3>3. GetNumBitsRead(r) \in Nat
      BY <1>1, Position DEF Good, DataBits, Readers
    <3>. QED
      BY <3>2, <3>3, WordsType
  <2>. QED
    BY <2>1, <2>2
<1>3. n \in Int /\ 1 \in Int
  OBVIOUS
<1>. QED
  BY <1>1, <1>2, <1>3, WordsType

\* A call is recorded with its operation, its argument and its result.
LEMMA CallType ==
    ASSUME NEW op \in Ops, NEW arg \in Int, NEW ret \in Words
    PROVE  /\ Call(op, arg, ret) \in Calls
           /\ Call(op, arg, ret).op = op
           /\ Call(op, arg, ret).arg = arg
           /\ Call(op, arg, ret).ret = ret
  BY DEF Call, Calls

\* A reader that has just been opened is good.
LEMMA InitIInv == Init => IInv
<1> SUFFICES ASSUME Init PROVE IInv
  OBVIOUS
<1>1. PICK n \in Sizes : rd = Opened(n) /\ call = Call("StartReading", n, Zero)
  BY DEF Init
<1>2. Good(rd) /\ rd.inBounds = TRUE
  BY <1>1, OpenReader
<1>3. n \in Int /\ "StartReading" \in Ops /\ Zero \in Words
  BY BitReadAssumption, WordsType DEF Ops
<1>4. call \in Calls
  BY <1>1, <1>3, CallType
<1>. QED
  BY <1>2, <1>4, IInvIsGood DEF LoadsInBounds

\* Every operation restores the invariant.
LEMMA NextIInv == IInv /\ [Next]_vars => IInv'
<1> SUFFICES ASSUME IInv, [Next]_vars PROVE IInv'
  OBVIOUS
<1> USE BitReadAssumption
<1>1. Good(rd) /\ call \in Calls /\ LoadsInBounds /\ rd \in Readers
  BY IInvIsGood DEF Good
<1>2. Zero \in Words /\ Ops = {"StartReading", "Seek", "SeekRelative",
        "ReadUBitLong", "ReadSBitLong", "ReadOneBit", "ReadBit"}
  BY WordsType DEF Ops
<1>3. ASSUME Keeps(rd, rd'), call' \in Calls PROVE IInv'
  BY <1>1, <1>3 DEF Keeps, Good, IInv, TypeOK, Aligned, InStep, LoadsInBounds
<1>4. CASE UNCHANGED vars
  BY <1>4 DEF vars, IInv, TypeOK, Aligned, InStep, LoadsInBounds
<1>5. ASSUME NEW n \in Sizes, StartReading(n) PROVE IInv'
  <2>1. Good(rd') /\ rd'.inBounds = TRUE
    BY <1>5, OpenReader DEF StartReading
  <2>2. n \in Int
    OBVIOUS
  <2>3. call' \in Calls
    BY <1>2, <1>5, <2>2, CallType DEF StartReading
  <2>. QED
    BY <2>1, <2>3 DEF Good, IInv, TypeOK, Aligned, InStep, LoadsInBounds
<1>6. ASSUME NEW p \in Positions, Seek(p) PROVE IInv'
  <2>1. p \in Int
    OBVIOUS
  <2>2. Keeps(rd, rd')
    BY <1>1, <1>6, <2>1, AnySeek DEF Seek, Found
  <2>3. call' \in Calls
    BY <1>2, <1>6, <2>1, CallType DEF Seek
  <2>. QED
    BY <1>3, <2>2, <2>3
<1>7. ASSUME NEW d \in Offsets, SeekRelative(d) PROVE IInv'
  <2>1. d \in Int /\ GetNumBitsRead(rd) + d \in Int
    <3>1. GetNumBitsRead(rd) \in 0 .. DataBits(rd)
      BY <1>1, Position DEF Good
    <3>. QED
      BY <3>1
  <2>2. Keeps(rd, rd')
    BY <1>1, <1>7, <2>1, AnySeek DEF SeekRelative, Found
  <2>3. call' \in Calls
    BY <1>2, <1>7, <2>1, CallType DEF SeekRelative
  <2>. QED
    BY <1>3, <2>2, <2>3
<1>8. ASSUME NEW n \in Widths, ReadUBitLong(n) PROVE IInv'
  <2>1. n \in 1 .. 32 /\ n \in Int
    OBVIOUS
  <2>2. Keeps(rd, rd')
    BY <1>1, <1>8, <2>1, ReadReader DEF ReadUBitLong
  <2>3. call' \in Calls
    BY <1>1, <1>2, <1>8, <2>1, ReturnType, CallType DEF ReadUBitLong
  <2>. QED
    BY <1>3, <2>2, <2>3
<1>9. ASSUME NEW n \in Widths, ReadSBitLong(n) PROVE IInv'
  <2>1. n \in 1 .. 32 /\ n \in Int
    OBVIOUS
  <2>2. Keeps(rd, rd')
    BY <1>1, <1>9, <2>1, ReadReader DEF ReadSBitLong
  <2>3. call' \in Calls
    BY <1>1, <1>2, <1>9, <2>1, ReturnType, CallType DEF ReadSBitLong
  <2>. QED
    BY <1>3, <2>2, <2>3
<1>10. CASE ReadOneBit
  <2>1. 1 \in 1 .. 32 /\ 1 \in Int /\ rd.bitsAvail \in Int
    BY <1>1 DEF Readers
  <2>2. Keeps(rd, Consume(rd, 1))
    <3>1. CASE rd.bitsAvail <= 0
      BY <1>1, <3>1, ConsumeNone
    <3>2. CASE rd.bitsAvail = 1
      BY <1>1, <2>1, <3>2, ConsumeAll
    <3>3. CASE rd.bitsAvail > 1
      BY <1>1, <2>1, <3>3, ConsumeSome
    <3>. QED
      BY <2>1, <3>1, <3>2, <3>3
  <2>3. call' \in Calls
    BY <1>1, <1>2, <1>10, <2>1, ReturnType, CallType DEF ReadOneBit
  <2>. QED
    BY <1>3, <1>10, <2>2, <2>3 DEF ReadOneBit, AfterReadOneBit
<1>11. CASE ReadBit
  <2>1. 1 \in 1 .. 32 /\ 1 \in Int
    OBVIOUS
  <2>2. Good(rd') /\ rd'.inBounds = rd.inBounds
    BY <1>1, <1>11, EagerReader DEF ReadBit
  <2>3. call' \in Calls
    BY <1>1, <1>2, <1>11, <2>1, ReturnType, CallType DEF ReadBit
  <2>4. LoadsInBounds'
    BY <1>1, <2>2 DEF LoadsInBounds
  <2>. QED
    BY <2>2, <2>3, <2>4 DEF Good, IInv, TypeOK, Aligned, InStep
<1>. QED
  BY <1>4, <1>5, <1>6, <1>7, <1>8, <1>9, <1>10, <1>11 DEF Next

\* The reader's members stay consistent, for buffers of every size, reads of
\* every width and seeks to every position.
THEOREM ReaderInvariant == Spec => []IInv
  BY InitIInv, NextIInv, PTL DEF Spec

\* Until the flag is set, the word holds exactly the next bits of the buffer.
THEOREM ReaderInStep == Spec => []InStep
<1>1. IInv => InStep
  BY DEF IInv
<1>. QED
  BY <1>1, ReaderInvariant, PTL

\* A client that does not call ReadBit never makes the reader load a dword
\* from outside the buffer.
THEOREM ReaderLoadsInBounds == Spec => []LoadsInBounds
<1>1. IInv => LoadsInBounds
  BY DEF IInv
<1>. QED
  BY <1>1, ReaderInvariant, PTL

\* The reader's members keep their types.
THEOREM ReaderTypeOK == Spec => []TypeOK
<1>1. IInv => TypeOK
  BY DEF IInv
<1>. QED
  BY <1>1, ReaderInvariant, PTL

----------------------------------------------------------------------------
(* Refinement *)

\* The two modules' words are the same.
LEMMA SameWords ==
    /\ Stream!Zero = Zero
    /\ \A p, n : Stream!Bits(p, n) = Bits(p, n)
    /\ \A w, n : Stream!SignExtended(w, n) = SignExtended(w, n)
    /\ Stream!Calls = Calls
    /\ Stream!WordBits = WordBits
  BY Zenon DEF Stream!Zero, Zero, Stream!Bits, Bits, Stream!SignExtended,
         SignExtended, Stream!Calls, Calls, Stream!Words, Words, Stream!Ops,
         Ops, Stream!BitNrs, BitNrs, Stream!WordBits, WordBits, Stream!O, O,
         Stream!Mixed, Mixed

\* Zero has no sign.
LEMMA SignExtendedZero == \A n \in 1 .. 32 : SignExtended(Zero, n) = Zero
  BY DEF SignExtended, Zero, BitNrs, WordBits

\* A reader that has just been opened is a stream at its start.
LEMMA InitStream == Init => Stream!StreamInit
<1> SUFFICES ASSUME Init PROVE Stream!StreamInit
  OBVIOUS
<1>1. PICK n \in Sizes : rd = Opened(n) /\ call = Call("StartReading", n, Zero)
  BY DEF Init
<1>2. /\ Synced(rd) /\ rd.dataBytes = n /\ GetNumBitsRead(rd) = 0
      /\ rd.overflow = FALSE
  BY <1>1, OpenReader
<1>3. n \in Int /\ "StartReading" \in Ops /\ Zero \in Words
  BY BitReadAssumption, WordsType DEF Ops
<1>4. call.op = "StartReading" /\ call.arg = n /\ call.ret = Zero
  BY <1>1, <1>3, CallType
<1>. QED
  BY <1>2, <1>4, SameWords DEF Stream!StreamInit, DataBits

\* A read of the reader is a read of the stream.
LEMMA ReadStream ==
    ASSUME rd \in Readers, Keeps(rd, rd'), NEW n \in 1 .. 32, NEW v, NEW w,
           Reads(rd, rd', n, v),
           v = Zero => call'.ret = Zero,
           v = Bits(GetNumBitsRead(rd), n) => call'.ret = w
    PROVE  Stream!Read(n, w)
<1>1. rd' \in Readers /\ AlignedReader(rd') /\ rd'.dataBytes = rd.dataBytes
  BY DEF Keeps, Good
<1>2. DataBits(rd') = DataBits(rd)
  BY <1>1 DEF DataBits
<1>3. GetNumBitsRead(rd') \in 0 .. DataBits(rd')
  BY <1>1, Position
<1>4. Synced(rd) \in BOOLEAN /\ Synced(rd') \in BOOLEAN
  BY DEF Synced
<1>5. CASE /\ Synced(rd)
           /\ GetNumBitsRead(rd) + n <= DataBits(rd)
           /\ v = Bits(GetNumBitsRead(rd), n)
           /\ GetNumBitsRead(rd') = GetNumBitsRead(rd) + n
           /\ rd'.overflow = rd.overflow
           /\ Synced(rd')
  BY <1>2, <1>4, <1>5 DEF Stream!Read, Stream!ReadNext
<1>6. CASE /\ Synced(rd)
           /\ GetNumBitsRead(rd) + n > DataBits(rd)
           /\ v = Zero
           /\ GetNumBitsRead(rd') = DataBits(rd)
           /\ rd'.overflow = TRUE
           /\ Synced(rd')
  BY <1>2, <1>4, <1>6, SameWords DEF Stream!Read, Stream!ReadPastEnd
<1>7. CASE /\ Synced(rd)
           /\ rd.overflow
           /\ v = Zero
           /\ GetNumBitsRead(rd') \in GetNumBitsRead(rd) .. DataBits(rd)
           /\ rd'.overflow = TRUE
           /\ ~Synced(rd')
  <2>1. rd.overflow = TRUE
    BY <1>7 DEF Keeps, Readers
  <2>. QED
    BY <1>2, <1>4, <1>7, <2>1, SameWords DEF Stream!Read, Stream!ReadLosesPlace
<1>8. CASE ~Synced(rd) /\ rd.overflow /\ rd'.overflow = TRUE
  BY <1>2, <1>3, <1>4, <1>8 DEF Stream!Read, Stream!ReadOutOfPlace
<1>. QED
  BY <1>5, <1>6, <1>7, <1>8 DEF Reads

\* Every operation of the reader is an operation of the stream, or none.
LEMMA NextStream ==
    IInv /\ IInv' /\ [Next]_vars => [Stream!StreamNext]_(Stream!streamVars)
<1> SUFFICES ASSUME IInv, IInv', [Next]_vars
             PROVE  [Stream!StreamNext]_(Stream!streamVars)
  OBVIOUS
<1> USE BitReadAssumption
<1>1. /\ Good(rd) /\ rd \in Readers /\ AlignedReader(rd)
      /\ GetNumBitsRead(rd) \in 0 .. DataBits(rd)
  BY IInvIsGood, Position DEF Good
<1>2. call' \in Stream!Calls
  BY SameWords DEF IInv, TypeOK
<1>3. Zero \in Words /\ Ops = {"StartReading", "Seek", "SeekRelative",
        "ReadUBitLong", "ReadSBitLong", "ReadOneBit", "ReadBit"}
  BY WordsType DEF Ops
<1>4. CASE UNCHANGED vars
  BY <1>4 DEF vars, Stream!streamVars, DataBits, GetNumBitsRead, nHead, Synced,
              BufferEnd, MIN
<1>5. ASSUME NEW n \in Sizes, StartReading(n) PROVE Stream!StreamNext
  <2>1. /\ Synced(rd') /\ rd'.dataBytes = n /\ GetNumBitsRead(rd') = 0
        /\ rd'.overflow = FALSE
    BY <1>5, OpenReader DEF StartReading
  <2>2. call'.op = "StartReading" /\ call'.arg = n
    <3>1. n \in Int
      OBVIOUS
    <3>. QED
      BY <1>3, <1>5, <3>1, CallType DEF StartReading
  <2>. QED
    BY <1>2, <2>1, <2>2 DEF Stream!StreamNext, Stream!Open, DataBits
<1>6. ASSUME NEW p \in Positions, Seek(p) PROVE Stream!StreamNext
  <2>1. p \in Int
    OBVIOUS
  <2>2. call'.op = "Seek" /\ call'.arg = p
    BY <1>3, <1>6, <2>1, CallType DEF Seek
  <2>3. Stream!SeekTo(p)
    BY <1>1, <1>6, <2>1, AnySeek
    DEF Seek, Found, Keeps, Stream!SeekTo, DataBits
  <2>. QED
    BY <1>2, <2>2, <2>3 DEF Stream!StreamNext
<1>7. ASSUME NEW d \in Offsets, SeekRelative(d) PROVE Stream!StreamNext
  <2>1. d \in Int /\ GetNumBitsRead(rd) + d \in Int
    BY <1>1
  <2>2. call'.op = "SeekRelative" /\ call'.arg = d
    BY <1>3, <1>7, <2>1, CallType DEF SeekRelative
  <2>3. Stream!SeekTo(GetNumBitsRead(rd) + d)
    BY <1>1, <1>7, <2>1, AnySeek
    DEF SeekRelative, Found, Keeps, Stream!SeekTo, DataBits
  <2>. QED
    BY <1>2, <2>2, <2>3 DEF Stream!StreamNext
<1>8. ASSUME NEW n \in Widths, ReadUBitLong(n) PROVE Stream!StreamNext
  <2>1. n \in 1 .. 32 /\ n \in Int
    OBVIOUS
  <2>2. call'.op = "ReadUBitLong" /\ call'.arg = n /\ call'.ret = UBitLong(rd, n)
    BY <1>1, <1>3, <1>8, <2>1, ReturnType, CallType DEF ReadUBitLong
  <2>3. Keeps(rd, rd') /\ Reads(rd, rd', n, UBitLong(rd, n))
    BY <1>1, <1>8, <2>1, ReadReader DEF ReadUBitLong
  <2>4. Stream!Read(n, Stream!Bits(GetNumBitsRead(rd), n))
    BY <1>1, <2>1, <2>2, <2>3, ReadStream, SameWords
  <2>. QED
    BY <1>2, <2>2, <2>4 DEF Stream!StreamNext
<1>9. ASSUME NEW n \in Widths, ReadSBitLong(n) PROVE Stream!StreamNext
  <2>1. n \in 1 .. 32 /\ n \in Int
    OBVIOUS
  <2>2. /\ call'.op = "ReadSBitLong" /\ call'.arg = n
        /\ call'.ret = SignExtended(UBitLong(rd, n), n)
    BY <1>1, <1>3, <1>9, <2>1, ReturnType, CallType DEF ReadSBitLong
  <2>3. Keeps(rd, rd') /\ Reads(rd, rd', n, UBitLong(rd, n))
    BY <1>1, <1>9, <2>1, ReadReader DEF ReadSBitLong
  <2> DEFINE w == SignExtended(Bits(GetNumBitsRead(rd), n), n)
  <2>4. /\ UBitLong(rd, n) = Zero => call'.ret = Zero
        /\ UBitLong(rd, n) = Bits(GetNumBitsRead(rd), n) => call'.ret = w
    BY <2>1, <2>2, SignExtendedZero
  <2>5. w = Stream!SignExtended(Stream!Bits(GetNumBitsRead(rd), n), n)
    BY SameWords
  <2> HIDE DEF w
  <2>6. Stream!Read(n, w)
    BY <1>1, <2>1, <2>3, <2>4, ReadStream
  <2>. QED
    BY <1>2, <2>2, <2>5, <2>6 DEF Stream!StreamNext
<1>10. CASE ReadOneBit
  <2>1. 1 \in 1 .. 32 /\ 1 \in Int /\ rd.bitsAvail \in Int
    BY <1>1 DEF Readers
  <2>2. call'.op = "ReadOneBit" /\ call'.ret = Masked(rd.inBufWord, 1)
    BY <1>1, <1>3, <1>10, <2>1, ReturnType, CallType DEF ReadOneBit
  <2>3. rd' = Consume(rd, 1)
    BY <1>10 DEF ReadOneBit, AfterReadOneBit
  <2>4. CASE rd.bitsAvail <= 0
    <3>1. /\ Keeps(rd, rd') /\ rd'.overflow = rd.overflow
          /\ Synced(rd) /\ Synced(rd') /\ Masked(rd.inBufWord, 1) = Zero
          /\ GetNumBitsRead(rd) = DataBits(rd)
          /\ GetNumBitsRead(rd') = DataBits(rd) /\ DataBits(rd) < WordBits
      BY <1>1, <2>3, <2>4, ConsumeNone
    <3>2. Stream!ReadUnnoticed
      BY <2>2, <3>1, SameWords DEF Stream!ReadUnnoticed, Keeps, DataBits
    <3>. QED
      BY <1>2, <2>2, <3>2 DEF Stream!StreamNext
  <2>5. CASE rd.bitsAvail >= 1
    <3>1. Keeps(rd, rd') /\ Reads(rd, rd', 1, Masked(rd.inBufWord, 1))
      <4>1. CASE rd.bitsAvail = 1
        BY <1>1, <2>1, <2>3, <4>1, ConsumeAll
      <4>2. CASE rd.bitsAvail > 1
        BY <1>1, <2>1, <2>3, <4>2, ConsumeSome
      <4>. QED
        BY <2>1, <2>5, <4>1, <4>2
    <3>2. Stream!Read(1, Stream!Bits(GetNumBitsRead(rd), 1))
      BY <1>1, <2>1, <2>2, <3>1, ReadStream, SameWords
    <3>. QED
      BY <1>2, <2>2, <3>2 DEF Stream!StreamNext
  <2>. QED
    BY <2>1, <2>4, <2>5
<1>11. CASE ReadBit
  <2>1. 1 \in 1 .. 32 /\ 1 \in Int
    OBVIOUS
  <2>2. call'.op = "ReadBit" /\ call'.ret = Masked(rd.inBufWord, 1)
    BY <1>1, <1>3, <1>11, <2>1, ReturnType, CallType DEF ReadBit
  <2>3. /\ Good(rd') /\ rd'.dataBytes = rd.dataBytes
        /\ ReadsEagerly(rd, rd', Masked(rd.inBufWord, 1))
    BY <1>1, <1>11, EagerReader DEF ReadBit
  <2>4. DataBits(rd') = DataBits(rd) /\ GetNumBitsRead(rd') \in 0 .. DataBits(rd)
    BY <2>3, Position DEF Good, DataBits
  <2>5. Synced(rd) \in BOOLEAN /\ Synced(rd') \in BOOLEAN
    BY DEF Synced
  <2> DEFINE w == Masked(rd.inBufWord, 1)
             at == GetNumBitsRead(rd)
  <2>6. Stream!ReadEagerly
    <3>1. CASE /\ Synced(rd)
               /\ at + 1 < DataBits(rd)
               /\ w = Bits(at, 1)
               /\ GetNumBitsRead(rd') = at + 1
               /\ rd'.overflow = rd.overflow
               /\ Synced(rd')
      BY <2>2, <2>4, <2>5, <3>1, <1>1, SameWords
      DEF Stream!ReadEagerly, Stream!ReadNext
    <3>2. CASE /\ Synced(rd)
               /\ at = DataBits(rd)
               /\ DataBits(rd) < WordBits
               /\ w = Zero
               /\ GetNumBitsRead(rd') = at
               /\ rd'.overflow = rd.overflow
               /\ Synced(rd')
      BY <2>2, <2>4, <2>5, <3>2, SameWords
      DEF Stream!ReadEagerly, Stream!ReadUnnoticed
    <3>3. CASE ~Synced(rd) /\ rd.overflow /\ rd'.overflow = TRUE
      BY <2>4, <2>5, <3>3 DEF Stream!ReadEagerly, Stream!ReadOutOfPlace
    <3>4. CASE /\ Synced(rd)
               /\ at + 1 >= DataBits(rd)
               /\ w = IF at < DataBits(rd) THEN Bits(at, 1) ELSE Zero
               /\ GetNumBitsRead(rd') = DataBits(rd)
               /\ rd'.overflow = TRUE
      BY <2>2, <2>4, <2>5, <3>4, SameWords DEF Stream!ReadEagerly
    <3>. QED
      BY <2>3, <3>1, <3>2, <3>3, <3>4 DEF ReadsEagerly
  <2>. QED
    BY <1>2, <2>2, <2>6 DEF Stream!StreamNext
<1>. QED
  BY <1>4, <1>5, <1>6, <1>7, <1>8, <1>9, <1>10, <1>11 DEF Next

\* CBitRead implements the bit stream.
THEOREM ReaderImplementsStream == Spec => ImplementsStream
<1>1. Init => Stream!StreamInit
  BY InitStream
<1>2. IInv /\ IInv' /\ [Next]_vars => [Stream!StreamNext]_(Stream!streamVars)
  BY NextStream
<1>. QED
  BY <1>1, <1>2, ReaderInvariant, PTL DEF Spec, ImplementsStream, Stream!StreamSpec

\* The pointer stays at the odd bytes at the head modulo four and cannot step
\* over the end of the buffer, whatever is read and sought.
THEOREM ReaderAligned == Spec => []Aligned
<1>1. IInv => Aligned
  BY DEF IInv, Good, Aligned
<1>2. QED
  BY <1>1, ReaderInvariant, PTL
============================================================================
