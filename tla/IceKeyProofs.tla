---------------------------- MODULE IceKeyProofs ----------------------------
(***************************************************************************)
(* The cipher for every level, every key and every block: set fills the    *)
(* schedule, and decrypt undoes encrypt.  What the round function computes *)
(* does not matter, only that both directions compute the same.            *)
(***************************************************************************)
EXTENDS IceKey, TLAPS

\* Xor with a word undoes itself.
LEMMA XorTwice == \A a, b : Xor(Xor(a, b), b) = a
  BY DEF Xor

\* Xor of two words is a word.
LEMMA XorWord == \A a, b \in Words : Xor(a, b) \in Words
  BY DEF Xor, Words

\* The P-box moves bits to bits of a word.
LEMMA PBoxBits == \A k \in 0 .. 31 : ice_pbox[k + 1] \in 0 .. 31
  BY SMT DEF ice_pbox

\* A permuted word is a word.
LEMMA PermWord == \A w \in Words : ice_perm32(w) \in Words
  BY PBoxBits DEF ice_perm32, Words

\* A word moved left is a word.
LEMMA ShiftWord == \A w \in Words, n \in Nat : ShiftLeft(w, n) \in Words
  BY DEF ShiftLeft, Words

\* A product is a word.
LEMMA MultWord == \A a, b, m : gf_mult(a, b, m) \in Words
  BY DEF gf_mult, Words

\* What the S-boxes are computed from is a word.
LEMMA SBoxByteWord == \A box, row, column : SBoxByte(box, row, column) \in Words
<1> SUFFICES ASSUME NEW b, NEW m PROVE gf_exp7(b, m) \in Words
  BY DEF SBoxByte
<1> QED
  BY MultWord DEF gf_exp7, Words

\* An S-box gives a word.
LEMMA SBoxWord == \A box \in 1 .. 4 : \A w : ice_sbox(box, w) \in Words
<1> SUFFICES ASSUME NEW box \in 1 .. 4, NEW w PROVE ice_sbox(box, w) \in Words
  OBVIOUS
<1>1. 32 - 8 * box \in Nat
  OBVIOUS
<1> QED
  BY <1>1, SBoxByteWord, ShiftWord, PermWord DEF ice_sbox

\* The round function gives a word.
LEMMA RoundWord == \A p, sk : ice_f(p, sk) \in Words
<1> SUFFICES ASSUME NEW a1, NEW a2, NEW a3, NEW a4
             PROVE  ice_sbox(1, a1) \cup ice_sbox(2, a2) \cup
                      ice_sbox(3, a3) \cup ice_sbox(4, a4) \in Words
  BY DEF ice_f
<1> QED
  BY SBoxWord DEF Words

----------------------------------------------------------------------------
(* The schedule *)

\* The number of rounds follows from the size, and set has filled both ends of
\* the schedule as far as it got.
SchedInv ==
    /\ pc \in {"none", "new", "setting", "ready", "encrypting", "encrypted",
               "decrypting", "decrypted"}
    /\ size \in Nat /\ rounds \in Nat /\ part \in 0 .. size
    /\ pc # "none" => \/ rounds = 8
                      \/ size > 0 /\ rounds = 16 * size
    /\ pc \in {"none", "new"} => DOMAIN sched = {} /\ part = 0
    /\ pc = "setting" /\ rounds = 8 => DOMAIN sched = {}
    /\ ScheduleComplete

\* The schedule starts empty.
LEMMA InitSched == Init => SchedInv
  BY DEF Init, SchedInv, ScheduleComplete

\* Every step keeps it: set adds eight rounds at either end for each part.
LEMMA NextSched == SchedInv /\ [Next]_vars => SchedInv'
<1> SUFFICES ASSUME SchedInv, [Next]_vars PROVE SchedInv'
  OBVIOUS
<1>1. ASSUME NEW n \in Levels, New(n) PROVE SchedInv'
  BY <1>1, IceAssumption DEF New, SchedInv, ScheduleComplete
<1>2. ASSUME NEW k \in Keys, Set(k) PROVE SchedInv'
  BY <1>2 DEF Set, SchedInv, ScheduleComplete
<1>3. CASE SetShort
  <2>1. DOMAIN sched' = 0 .. 7
    BY <1>3 DEF SetShort, Built
  <2> QED
    BY <1>3, <2>1 DEF SetShort, SchedInv, ScheduleComplete
<1>4. CASE SetPart
  <2>1. /\ rounds = 16 * size /\ part \in Nat /\ size \in Nat /\ part < size
        /\ part' = part + 1
        /\ UNCHANGED <<pc, size, rounds>>
        /\ pc = "setting" /\ rounds # 8
    BY <1>4 DEF SetPart, SchedInv
  <2>2. DOMAIN sched' = DOMAIN sched \cup (part * 8 .. part * 8 + 7)
                          \cup (UpperRound .. UpperRound + 7)
    BY <1>4 DEF SetPart, Built
  <2>3. DOMAIN sched = {x \in 0 .. rounds - 1 :
                          x < part * 8 \/ x >= rounds - part * 8}
    BY <2>1 DEF SchedInv, ScheduleComplete
  <2>4. DOMAIN sched' = {x \in 0 .. rounds - 1 :
                           x < (part + 1) * 8 \/ x >= rounds - (part + 1) * 8}
    BY <2>1, <2>2, <2>3 DEF UpperRound
  <2> QED
    BY <2>1, <2>4 DEF SchedInv, ScheduleComplete
<1>5. CASE SetEnd
  <2>1. /\ rounds = 16 * size /\ part = size /\ size \in Nat
        /\ DOMAIN sched = {x \in 0 .. rounds - 1 :
                             x < part * 8 \/ x >= rounds - part * 8}
    BY <1>5 DEF SetEnd, SchedInv, ScheduleComplete
  <2>2. DOMAIN sched = 0 .. rounds - 1
    BY <2>1
  <2> QED
    BY <1>5, <2>2 DEF SetEnd, SchedInv, ScheduleComplete, schedule
<1>6. ASSUME NEW b \in Blocks, Encrypt(b) PROVE SchedInv'
  BY <1>6 DEF Encrypt, SchedInv, ScheduleComplete, schedule
<1>7. CASE EncryptRounds
  BY <1>7 DEF EncryptRounds, SchedInv, ScheduleComplete, schedule
<1>8. CASE EncryptEnd
  BY <1>8 DEF EncryptEnd, SchedInv, ScheduleComplete, schedule
<1>9. CASE Decrypt
  BY <1>9 DEF Decrypt, SchedInv, ScheduleComplete, schedule
<1>10. CASE DecryptRounds
  BY <1>10 DEF DecryptRounds, SchedInv, ScheduleComplete, schedule
<1>11. CASE DecryptEnd
  BY <1>11 DEF DecryptEnd, SchedInv, ScheduleComplete, schedule
<1>12. CASE Again
  BY <1>12 DEF Again, SchedInv, ScheduleComplete, schedule
<1>13. CASE UNCHANGED vars
  BY <1>13 DEF vars, SchedInv, ScheduleComplete, schedule
<1> QED
  BY <1>1, <1>2, <1>3, <1>4, <1>5, <1>6, <1>7, <1>8, <1>9, <1>10, <1>11,
     <1>12, <1>13 DEF Next

\* The two halves of the key schedule meet for every level: when set returns,
\* each round has its subkey, and no part of the key overwrote another's.
THEOREM ScheduleIsComplete == Spec => []ScheduleComplete
<1>1. SchedInv => ScheduleComplete
  BY DEF SchedInv
<1> QED
  BY <1>1, InitSched, NextSched, PTL DEF Spec

----------------------------------------------------------------------------
(* Decryption *)

\* Each pair of words in halves is two rounds after the one before it.
Linked ==
    \A n \in 1 .. Len(halves) - 1 :
       /\ halves[n + 1][1] =
            Xor(halves[n][1], ice_f(halves[n][2], sched[2 * n - 2]))
       /\ halves[n + 1][2] =
            Xor(halves[n][2], ice_f(halves[n + 1][1], sched[2 * n - 1]))

\* encrypt leaves its track in halves; decrypt walks it back, with the words
\* exchanged.
TrackInv ==
    /\ l \in Words /\ r \in Words
    /\ block \in Words \X Words /\ result \in Words \X Words
    /\ halves \in Seq(Words \X Words)
    /\ i \in -1 .. rounds
    /\ pc = "none" => i = 0
    /\ pc \in {"encrypting", "encrypted", "decrypting"} =>
          Len(halves) > 0 /\ halves[1] = block /\ Linked
    /\ pc = "encrypting" =>
          /\ i = 2 * Len(halves) - 2
          /\ l = halves[Len(halves)][1] /\ r = halves[Len(halves)][2]
    /\ pc \in {"encrypted", "decrypting"} => rounds = 2 * Len(halves) - 2
    /\ pc = "encrypted" =>
          result = <<halves[Len(halves)][2], halves[Len(halves)][1]>>
    /\ pc = "decrypting" =>
          \E n \in 1 .. Len(halves) :
             /\ i = 2 * n - 3
             /\ l = halves[n][2] /\ r = halves[n][1]
    /\ pc = "decrypted" => result = block

\* Nothing has been encrypted.
LEMMA InitTrack == Init => TrackInv
  BY DEF Init, TrackInv, Words

\* Every step keeps the track: encrypt adds to it, decrypt goes one back.
LEMMA NextTrack == SchedInv /\ TrackInv /\ [Next]_vars => TrackInv'
<1> SUFFICES ASSUME SchedInv, TrackInv, [Next]_vars PROVE TrackInv'
  OBVIOUS
<1>1. ASSUME NEW n \in Levels, New(n) PROVE TrackInv'
  BY <1>1, IceAssumption DEF New, TrackInv
<1>2. ASSUME NEW k \in Keys, Set(k) PROVE TrackInv'
  BY <1>2 DEF Set, TrackInv
<1>3. CASE SetShort
  BY <1>3 DEF SetShort, TrackInv
<1>4. CASE SetPart
  BY <1>4 DEF SetPart, TrackInv
<1>5. CASE SetEnd
  BY <1>5 DEF SetEnd, TrackInv, schedule
<1>6. ASSUME NEW b \in Blocks, Encrypt(b) PROVE TrackInv'
  <2>1. b \in Words \X Words
    BY IceAssumption
  <2>2. /\ halves' = <<b>> /\ Len(halves') = 1 /\ halves'[1] = b
        /\ l' = b[1] /\ r' = b[2] /\ i' = 0 /\ block' = b
        /\ pc' = "encrypting" /\ UNCHANGED <<rounds, sched, result>>
    BY <1>6 DEF Encrypt, schedule
  <2>3. Linked'
    BY <2>2 DEF Linked
  <2>4. halves' \in Seq(Words \X Words)
    BY <2>1, <2>2
  <2> QED
    BY <2>1, <2>2, <2>3, <2>4 DEF TrackInv, SchedInv
<1>7. CASE EncryptRounds
  <2> DEFINE m == Len(halves)
  <2>1. /\ halves \in Seq(Words \X Words) /\ m \in Nat /\ m > 0
        /\ i = 2 * m - 2 /\ i < rounds
        /\ l = halves[m][1] /\ r = halves[m][2]
        /\ Linked /\ halves[1] = block
        /\ pc = "encrypting" /\ pc' = pc
        /\ UNCHANGED <<rounds, sched, block, result>>
        /\ i' = i + 2
    BY <1>7 DEF EncryptRounds, TrackInv, schedule
  <2>2. l' \in Words /\ r' \in Words
    BY <1>7, RoundWord, XorWord DEF EncryptRounds, TrackInv
  <2>3. /\ halves' \in Seq(Words \X Words)
        /\ Len(halves') = m + 1
        /\ \A k \in 1 .. m : halves'[k] = halves[k]
        /\ halves'[m + 1] = <<l', r'>>
    BY <1>7, <2>1, <2>2 DEF EncryptRounds
  <2>4. Linked'
    <3> SUFFICES ASSUME NEW n \in 1 .. m
                 PROVE  /\ halves'[n + 1][1] =
                             Xor(halves'[n][1],
                                 ice_f(halves'[n][2], sched[2 * n - 2]))
                        /\ halves'[n + 1][2] =
                             Xor(halves'[n][2],
                                 ice_f(halves'[n + 1][1], sched[2 * n - 1]))
      BY <2>1, <2>3 DEF Linked
    <3>1. CASE n < m
      <4>1. n \in 1 .. m - 1 /\ n + 1 \in 1 .. m
        BY <2>1, <3>1
      <4>2. halves'[n] = halves[n] /\ halves'[n + 1] = halves[n + 1]
        BY <2>3, <4>1
      <4> QED
        BY <2>1, <4>1, <4>2 DEF Linked
    <3>2. CASE n = m
      <4>1. sched[2 * n - 2] = sched[i] /\ sched[2 * n - 1] = sched[i + 1]
        BY <2>1, <3>2
      <4>2. halves'[n] = halves[m] /\ halves'[n + 1] = <<l', r'>>
        BY <2>1, <2>3, <3>2
      <4>3. /\ l' = Xor(l, ice_f(r, sched[i]))
            /\ r' = Xor(r, ice_f(l', sched[i + 1]))
        BY <1>7 DEF EncryptRounds
      <4> QED
        BY <2>1, <4>1, <4>2, <4>3
    <3> QED
      BY <3>1, <3>2, <2>1
  <2>5. i' \in -1 .. rounds'
    <3>1. CASE rounds = 8
      BY <2>1, <3>1
    <3>2. CASE rounds = 16 * size
      BY <2>1, <3>2 DEF SchedInv
    <3> QED
      BY <3>1, <3>2, <2>1 DEF SchedInv
  <2> QED
    BY <2>1, <2>2, <2>3, <2>4, <2>5 DEF TrackInv
<1>8. CASE EncryptEnd
  <2>1. /\ i = 2 * Len(halves) - 2 /\ i = rounds
        /\ l = halves[Len(halves)][1] /\ r = halves[Len(halves)][2]
        /\ Linked /\ Linked' /\ result' = <<r, l>>
    BY <1>8 DEF EncryptEnd, TrackInv, SchedInv, Linked, schedule
  <2> QED
    BY <1>8, <2>1 DEF EncryptEnd, TrackInv, schedule
<1>9. CASE Decrypt
  <2> DEFINE m == Len(halves)
  <2>1. /\ m \in Nat /\ m > 0 /\ rounds = 2 * m - 2
        /\ result = <<halves[m][2], halves[m][1]>>
        /\ Linked' /\ halves \in Seq(Words \X Words)
        /\ l' = result[1] /\ r' = result[2] /\ i' = rounds - 1
        /\ UNCHANGED <<rounds, block, halves, result>>
        /\ pc' = "decrypting"
    BY <1>9 DEF Decrypt, TrackInv, Linked, schedule
  <2>2. /\ i' = 2 * m - 3 /\ m \in 1 .. m
        /\ l' = halves[m][2] /\ r' = halves[m][1]
    BY <2>1
  <2>3. halves[m] \in Words \X Words
    BY <2>1
  <2>4. /\ l' \in Words /\ r' \in Words /\ i' \in -1 .. rounds'
        /\ \E n \in 1 .. m :
              i' = 2 * n - 3 /\ l' = halves[n][2] /\ r' = halves[n][1]
    <3>1. l' \in Words /\ r' \in Words
      BY <2>2, <2>3
    <3>2. i' \in -1 .. rounds'
      BY <2>1
    <3> QED
      BY <2>2, <3>1, <3>2
  <2>5. block \in Words \X Words /\ result \in Words \X Words /\ halves[1] = block
    BY <1>9 DEF TrackInv, Decrypt
  <2> HIDE DEF m
  <2>6. /\ pc' = "decrypting"
        /\ UNCHANGED <<rounds, block, halves, result>>
        /\ m = Len(halves) /\ m > 0 /\ rounds = 2 * m - 2
        /\ Linked' /\ halves \in Seq(Words \X Words)
    BY <2>1 DEF m
  <2> QED
    BY <2>4, <2>5, <2>6 DEF TrackInv
<1>10. CASE DecryptRounds
  <2>1. PICK n \in 1 .. Len(halves) :
          i = 2 * n - 3 /\ l = halves[n][2] /\ r = halves[n][1]
    BY <1>10 DEF DecryptRounds, TrackInv
  <2>2. n - 1 \in 1 .. Len(halves) /\ n - 1 \in 1 .. Len(halves) - 1
    BY <1>10, <2>1 DEF DecryptRounds, TrackInv
  <2> DEFINE j == n - 1
  <2>3. /\ halves[n][1] = Xor(halves[j][1], ice_f(halves[j][2], sched[i - 1]))
        /\ halves[n][2] = Xor(halves[j][2], ice_f(halves[n][1], sched[i]))
    <3>1. Linked
      BY <1>10 DEF DecryptRounds, TrackInv
    <3>2. j + 1 = n /\ 2 * j - 2 = i - 1 /\ 2 * j - 1 = i
      BY <2>1
    <3> QED
      BY <2>2, <3>1, <3>2 DEF Linked
  <2>4. l' = halves[j][2]
    BY <1>10, <2>1, <2>3, XorTwice DEF DecryptRounds
  <2>5. r' = halves[j][1]
    BY <1>10, <2>1, <2>3, <2>4, XorTwice DEF DecryptRounds
  <2>6. halves[j] \in Words \X Words
    BY <2>2 DEF TrackInv
  <2>7. i' = 2 * j - 3 /\ i' \in -1 .. rounds /\ UNCHANGED rounds
    BY <1>10, <2>1, <2>2 DEF DecryptRounds, TrackInv, SchedInv, schedule
  <2>8. l' \in Words /\ r' \in Words
    BY <2>4, <2>5, <2>6
  <2>9. /\ UNCHANGED <<pc, sched, block, halves, result>>
        /\ pc = "decrypting"
    BY <1>10 DEF DecryptRounds, schedule
  <2>10. Linked'
    BY <1>10, <2>9 DEF TrackInv, Linked
  <2> QED
    BY <2>2, <2>4, <2>5, <2>7, <2>8, <2>9, <2>10 DEF TrackInv
<1>11. CASE DecryptEnd
  <2>1. PICK n \in 1 .. Len(halves) :
          i = 2 * n - 3 /\ l = halves[n][2] /\ r = halves[n][1]
    BY <1>11 DEF DecryptEnd, TrackInv
  <2>2. n = 1
    BY <1>11, <2>1 DEF DecryptEnd, TrackInv
  <2>3. result' = block
    BY <1>11, <2>1, <2>2 DEF DecryptEnd, TrackInv
  <2> QED
    BY <1>11, <2>3 DEF DecryptEnd, TrackInv, schedule
<1>12. CASE Again
  BY <1>12 DEF Again, TrackInv, schedule
<1>13. CASE UNCHANGED vars
  BY <1>13 DEF vars, TrackInv, Linked, schedule
<1> QED
  BY <1>1, <1>2, <1>3, <1>4, <1>5, <1>6, <1>7, <1>8, <1>9, <1>10, <1>11,
     <1>12, <1>13 DEF Next

\* Both invariants hold together: the track needs the number of rounds.
THEOREM CipherInvariant == Spec => [](SchedInv /\ TrackInv)
  BY InitSched, InitTrack, NextSched, NextTrack, PTL DEF Spec

\* The types of the cipher's variables: words stay words through every round.
THEOREM CipherTypeOK == Spec => []TypeOK
<1>1. SchedInv /\ TrackInv => TypeOK
  <2> SUFFICES ASSUME SchedInv, TrackInv PROVE DOMAIN sched \subseteq 0 .. rounds - 1
    BY DEF SchedInv, TrackInv, TypeOK
  <2> QED
    BY DEF SchedInv, ScheduleComplete
<1> QED
  BY <1>1, CipherInvariant, PTL

\* decrypt gives back the block that was encrypted, for every level, key and
\* block, and for as many blocks as the key is used.
THEOREM CipherDecryptInverts == Spec => []DecryptInverts
<1>1. TrackInv => DecryptInverts
  BY DEF TrackInv, DecryptInverts
<1> QED
  BY <1>1, CipherInvariant, PTL
============================================================================
