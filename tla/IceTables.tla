------------------------------ MODULE IceTables ------------------------------
(***************************************************************************)
(* The functions the ICE cipher is made of (ice.cpp).  A word is the set   *)
(* of the numbers of its bits that are set: xor is the symmetric           *)
(* difference, or the union, and the intersection, and a shift moves the   *)
(* numbers.  A polynomial over the field of two elements is the set of its *)
(* exponents.                                                              *)
(***************************************************************************)
EXTENDS Integers, FiniteSets

Xor(a, b) == (a \ b) \cup (b \ a)

ShiftRight(w, n) == {k - n : k \in {j \in w : j >= n}}

ShiftLeft(w, n) == {k + n : k \in {j \in w : j + n < 32}}

\* The bits of a small number.
BitsOf(n) == {k \in 0 .. 9 : (n \div 2 ^ k) % 2 = 1}

ice_smod == <<<<333, 313, 505, 369>>, <<379, 375, 319, 391>>,
              <<361, 445, 451, 397>>, <<397, 425, 395, 505>>>>

ice_sxor == <<<<131, 133, 155, 205>>, <<204, 167, 173, 65>>,
              <<75, 46, 212, 51>>, <<234, 203, 46, 4>>>>

\* The bit that each bit is moved to, from bit 0 on.
ice_pbox == << 0,  7, 10, 13, 19, 21, 24, 30,  3,  5,  8, 14, 16, 23, 26, 29,
               2,  4,  9, 15, 17, 22, 27, 28,  1,  6, 11, 12, 18, 20, 25, 31>>

ice_keyrot == <<0, 1, 2, 3, 2, 1, 3, 0, 1, 3, 2, 0, 3, 1, 0, 2>>

\* Fault: the product is cut to a byte.
CutToByte(a, m) == a \ {8}

\* A multiple of x, brought below x^8 again.
Reduced(a, m) == IF 8 \in a THEN Xor(a, m) ELSE a

gf_mult(a, b, m) ==
    LET times[k \in 0 .. 7] ==
            IF k = 0 THEN a ELSE Reduced(ShiftLeft(times[k - 1], 1), m)
    IN  {e \in 0 .. 31 : Cardinality({k \in b : e \in times[k]}) % 2 = 1}

gf_exp7(b, m) ==
    LET b2 == gf_mult(b, b, m)
        b3 == gf_mult(b, b2, m)
        b6 == gf_mult(b3, b3, m)
    IN  IF b = {} THEN {} ELSE gf_mult(b, b6, m)

ice_perm32(w) == {ice_pbox[k + 1] : k \in w}

\* The row and the column an S-box index of ten bits stands for.
Row(w) == 1 + (IF 0 \in w THEN 1 ELSE 0) + (IF 9 \in w THEN 2 ELSE 0)

Column(w) == ShiftRight(w \ {9}, 1)

SBoxByte(box, row, column) ==
    gf_exp7(Xor(column, BitsOf(ice_sxor[box][row])),
            BitsOf(ice_smod[box][row]))

ice_sbox(box, w) ==
    ice_perm32(ShiftLeft(SBoxByte(box, Row(w), Column(w)), 32 - 8 * box))

\* The round function: expansion to two times twenty bits, the exchange of
\* the bits the salt selects, the subkey, and the S-boxes.
ice_f(p, sk) ==
    LET low  == 0 .. 9
        high == 10 .. 19
        tl   == (ShiftRight(p, 16) \cap low) \cup
                  ((ShiftRight(p, 14) \cup ShiftLeft(p, 18)) \cap high)
        tr   == (p \cap low) \cup (ShiftLeft(p, 2) \cap high)
        salt == sk[2] \cap Xor(tl, tr)
        al   == Xor(Xor(salt, tl), sk[0])
        ar   == Xor(Xor(salt, tr), sk[1])
    IN  ice_sbox(1, ShiftRight(al, 10)) \cup ice_sbox(2, al \cap low) \cup
          ice_sbox(3, ShiftRight(ar, 10)) \cup ice_sbox(4, ar \cap low)

----------------------------------------------------------------------------
(* The key schedule.  A part of the key, eight bytes, fills four registers *)
(* of sixteen bits.  Each of them gives its lowest bit in turn and takes   *)
(* the inverse of it at its other end: bit t that a register gives is its  *)
(* bit t % 16, inverted once for every time round.                         *)

\* The registers for a part of the key, a sequence of bytes.
KeyRegisters(key, part) ==
    [x \in 0 .. 3 |->
       LET j == 8 * part + 2 * (3 - x)
       IN  ShiftLeft(key[j + 1], 8) \cup key[j + 2]]

RegisterGives(register, t) ==
    (t % 16 \in register) # ((t \div 16) % 2 = 1)

\* The subkey of step i of a scheduleBuild: bit j of each register is taken
\* into value j % 3, from the register the rotation names on.  The second call
\* goes on with the registers as the first one left them.
Subkey(kb, call, i) ==
    [v \in 0 .. 2 |->
       {b \in 0 .. 19 :
          LET m == (19 - b) \div 4
              k == (19 - b) % 4
          IN  RegisterGives(kb[(ice_keyrot[8 * call + i + 1] + k) % 4],
                            120 * call + 15 * i + 3 * m + v)}]
============================================================================
