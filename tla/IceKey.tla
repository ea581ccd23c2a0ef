------------------------------- MODULE IceKey -------------------------------
(***************************************************************************)
(* The ICE cipher (class IceKey): a key is made, its schedule is set, and  *)
(* blocks of eight bytes are encrypted, as the server does, and decrypted, *)
(* as packet_loop_handler does.  A block is the pair of its two words,     *)
(* which encrypt and decrypt read and write from the upper byte down.      *)
(***************************************************************************)
EXTENDS IceTables, Sequences

Words == SUBSET (0 .. 31)

CONSTANTS
    Levels, \* the arguments of the constructor
    Keys,   \* the keys, sequences of bytes
    Blocks  \* the blocks that are encrypted

ASSUME IceAssumption ==
    /\ Levels \subseteq Int
    /\ \A key \in Keys : key \in Seq(SUBSET (0 .. 7))
    /\ Blocks \subseteq Words \X Words

VARIABLES
    pc,           \* what is being done with the key
    size, rounds, \* _size and _rounds
    sched,        \* _keysched, the subkeys that are set, by round
    key, part,    \* the key and the part of it that is set next
    i, l, r,      \* the loop of encrypt and decrypt
    block,        \* history: the block that was encrypted
    halves,       \* history: the words l and r, every two rounds of encrypt
    result        \* the block that encrypt or decrypt returned

schedule == <<size, rounds, sched, key, part>>

vars == <<pc, schedule, i, l, r, block, halves, result>>

----------------------------------------------------------------------------

\* The constructor.
New(n) ==
    /\ pc = "none"
    /\ size' = IF n < 1 THEN 1 ELSE n
    /\ rounds' = IF n < 1 THEN 8 ELSE n * 16
    /\ pc' = "new"
    /\ UNCHANGED <<sched, key, part, i, l, r, block, halves, result>>

\* set is called with a key of keySize bytes.
Set(k) ==
    /\ pc = "new"
    /\ Len(k) = size * 8
    /\ key' = k
    /\ part' = 0
    /\ pc' = "setting"
    /\ UNCHANGED <<size, rounds, sched, i, l, r, block, halves, result>>

\* Fault: the rounds are counted from one.
BuiltFromOne(call, n) ==
    [x \in n + 1 .. n + 8 |->
       Subkey(KeyRegisters(key, part), call, x - n - 1)]

\* scheduleBuild: eight rounds from n on.
Built(call, n) ==
    [x \in n .. n + 7 |-> Subkey(KeyRegisters(key, part), call, x - n)]

\* Fault: the second half is counted from the end, one part too far.
UpperRoundShifted == rounds - 16 - part * 8

\* Where the second half of a part's subkeys goes.
UpperRound == rounds - 8 - part * 8

SetShort ==
    /\ pc = "setting"
    /\ rounds = 8
    /\ sched' = Built(0, 0)
    /\ pc' = "ready"
    /\ UNCHANGED <<size, rounds, key, part, i, l, r, block, halves, result>>

SetPart ==
    /\ pc = "setting"
    /\ rounds # 8
    /\ part < size
    /\ LET first  == Built(0, part * 8)
           second == Built(1, UpperRound)
       IN  sched' = [x \in DOMAIN sched \cup DOMAIN first \cup DOMAIN second |->
                       IF x \in DOMAIN second THEN second[x]
                       ELSE IF x \in DOMAIN first THEN first[x] ELSE sched[x]]
    /\ part' = part + 1
    /\ UNCHANGED <<pc, size, rounds, key, i, l, r, block, halves, result>>

SetEnd ==
    /\ pc = "setting"
    /\ rounds # 8
    /\ part = size
    /\ pc' = "ready"
    /\ UNCHANGED <<schedule, i, l, r, block, halves, result>>

----------------------------------------------------------------------------

Encrypt(b) ==
    /\ pc = "ready"
    /\ l' = b[1] /\ r' = b[2]
    /\ i' = 0
    /\ block' = b
    /\ halves' = <<b>>
    /\ pc' = "encrypting"
    /\ UNCHANGED <<schedule, result>>

\* Two rounds.
EncryptRounds ==
    /\ pc = "encrypting"
    /\ i < rounds
    /\ l' = Xor(l, ice_f(r, sched[i]))
    /\ r' = Xor(r, ice_f(l', sched[i + 1]))
    /\ i' = i + 2
    /\ halves' = Append(halves, <<l', r'>>)
    /\ UNCHANGED <<pc, schedule, block, result>>

\* The words are exchanged.
EncryptEnd ==
    /\ pc = "encrypting"
    /\ i >= rounds
    /\ result' = <<r, l>>
    /\ pc' = "encrypted"
    /\ UNCHANGED <<schedule, i, l, r, block, halves>>

Decrypt ==
    /\ pc = "encrypted"
    /\ l' = result[1] /\ r' = result[2]
    /\ i' = rounds - 1
    /\ pc' = "decrypting"
    /\ UNCHANGED <<schedule, block, halves, result>>

\* Fault: the subkeys of the two rounds are exchanged.
DecryptInOrder ==
    /\ pc = "decrypting"
    /\ i > 0
    /\ l' = Xor(l, ice_f(r, sched[i - 1]))
    /\ r' = Xor(r, ice_f(l', sched[i]))
    /\ i' = i - 2
    /\ UNCHANGED <<pc, schedule, block, halves, result>>

DecryptRounds ==
    /\ pc = "decrypting"
    /\ i > 0
    /\ l' = Xor(l, ice_f(r, sched[i]))
    /\ r' = Xor(r, ice_f(l', sched[i - 1]))
    /\ i' = i - 2
    /\ UNCHANGED <<pc, schedule, block, halves, result>>

DecryptEnd ==
    /\ pc = "decrypting"
    /\ i <= 0
    /\ result' = <<r, l>>
    /\ pc' = "decrypted"
    /\ UNCHANGED <<schedule, i, l, r, block, halves>>

\* The key is used for the next block.
Again ==
    /\ pc = "decrypted"
    /\ pc' = "ready"
    /\ UNCHANGED <<schedule, i, l, r, block, halves, result>>

Init ==
    /\ pc = "none"
    /\ size = 0 /\ rounds = 0
    /\ sched = [x \in {} |-> 0]
    /\ key = << >> /\ part = 0
    /\ i = 0 /\ l = {} /\ r = {}
    /\ block = <<{}, {}>> /\ halves = << >> /\ result = <<{}, {}>>

Next ==
    \/ \E n \in Levels : New(n)
    \/ \E k \in Keys : Set(k)
    \/ SetShort \/ SetPart \/ SetEnd
    \/ \E b \in Blocks : Encrypt(b)
    \/ EncryptRounds \/ EncryptEnd
    \/ Decrypt \/ DecryptRounds \/ DecryptEnd
    \/ Again

Spec == Init /\ [][Next]_vars

----------------------------------------------------------------------------
(* Properties *)

\* The values the variables take; the schedule holds subkeys of rounds only.
TypeOK ==
    /\ pc \in {"none", "new", "setting", "ready", "encrypting", "encrypted",
               "decrypting", "decrypted"}
    /\ size \in Nat /\ rounds \in Nat /\ part \in 0 .. size
    /\ DOMAIN sched \subseteq 0 .. rounds - 1
    /\ i \in -1 .. rounds
    /\ l \in Words /\ r \in Words
    /\ block \in Words \X Words /\ result \in Words \X Words
    /\ halves \in Seq(Words \X Words)

\* set fills the schedule from both ends, and the halves meet in the middle:
\* no round is left without a subkey, and none is overwritten by a later part.
ScheduleComplete ==
    /\ pc \notin {"none", "new", "setting"} => DOMAIN sched = 0 .. rounds - 1
    /\ pc = "setting" /\ rounds # 8 =>
          DOMAIN sched = {x \in 0 .. rounds - 1 :
                            x < part * 8 \/ x >= rounds - part * 8}

\* decrypt is the inverse of encrypt.
DecryptInverts == pc = "decrypted" => result = block

\* Within a row an S-box is a permutation of the bytes: exponentiation by 7 is
\* one for every modulus in the table.
SBoxesPermute ==
    pc = "new" =>
        \A box \in 1 .. 4, row \in 1 .. 4 :
           {SBoxByte(box, row, column) : column \in SUBSET (0 .. 7)}
             = SUBSET (0 .. 7)
============================================================================
