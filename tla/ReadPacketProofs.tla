-------------------------- MODULE ReadPacketProofs --------------------------
(***************************************************************************)
(* Proofs about ReadPacket, for every set of packets, buffer size and      *)
(* width of an int that the assumption of the module allows.               *)
(*                                                                         *)
(* CursorInv says where the reader is at each place of the code; PrintInv  *)
(* that a packet laid out by its sender is walked from command to command, *)
(* and what has been printed on the way.                                   *)
(***************************************************************************)
EXTENDS ReadPacket, WellFoundedInduction, TLAPS

\* What is assumed of the widths and of the packets.
LEMMA PacketFacts ==
    /\ MaxPayload \in Nat /\ MaxPayload >= 20
    /\ IntMod \in Nat /\ IntMod > 0 /\ IntMod % 256 = 0
    /\ 16 * MaxPayload < IntMod \div 2
    /\ Values \subseteq Ints
    /\ \A p \in Packets :
          /\ p.size \in Nat
          /\ p.size + 10 <= MaxPayload
          /\ p.laidOut \in BOOLEAN
          /\ \A b \in DOMAIN p.varints :
                p.varints[b] \in [val : Ints, n : VarIntBytes]
          /\ p.laidOut => LaidOut(p)
BY ReadPacketAssumption, Zenon DEF WidthsFit, IsPacket

----------------------------------------------------------------------------
(* int arithmetic *)

\* IntMod is a multiple of 256 and MaxPayload lies far below its half.
LEMMA IntModFacts ==
    /\ IntMod \in Nat /\ IntMod >= 256
    /\ IntMod \div 2 \in Nat /\ IntMod = 2 * (IntMod \div 2)
    /\ (IntMod \div 2) % 8 = 0
    /\ MaxPayload \in Nat /\ MaxPayload >= 20
    /\ 16 * MaxPayload < IntMod \div 2
    /\ DataBits = 8 * MaxPayload
BY PacketFacts DEF DataBits

\* ToInt yields an int.
LEMMA ToIntType == \A x \in Int : ToInt(x) \in Int
BY IntModFacts DEF ToInt

\* An exact result that is an int does not wrap.
LEMMA ToIntExact ==
    ASSUME NEW x \in Int, -(IntMod \div 2) <= x, x < IntMod \div 2
    PROVE  ToInt(x) = x
<1> DEFINE H == IntMod \div 2
<1>1. H \in Nat /\ IntMod = 2 * H /\ H > 0
  BY IntModFacts
<1>2. x + H \in 0 .. (IntMod - 1)
  BY <1>1
<1>3. (x + H) % IntMod = x + H
  BY <1>1, <1>2
<1>4. QED
  BY <1>1, <1>3 DEF ToInt

\* Wrapping keeps multiples of eight: Size * 8 is a number of whole bytes
\* even when it overflows.
LEMMA ToIntEights ==
    ASSUME NEW x \in Int, x % 8 = 0
    PROVE  ToInt(x) % 8 = 0
<1> DEFINE H == IntMod \div 2
           q == (x + H) \div IntMod
           r == (x + H) % IntMod
<1>1. H \in Nat /\ IntMod = 2 * H /\ H % 8 = 0 /\ H > 0
  BY IntModFacts
<1>2. q \in Int /\ r \in Int /\ x + H = IntMod * q + r
  BY <1>1
<1>3. PICK h \in Int : H = 8 * h
  <2>1. H = 8 * (H \div 8)
    BY <1>1
  <2>2. QED
    BY <1>1, <2>1
<1>4. PICK y \in Int : x = 8 * y
  <2>1. x = 8 * (x \div 8)
    OBVIOUS
  <2>2. QED
    BY <2>1
<1> DEFINE m == h * q
<1>5. m \in Int
  BY <1>2, <1>3
<1>6. IntMod * q = 16 * m
  BY <1>1, <1>2, <1>3
<1>7. ToInt(x) = r - H
  BY DEF ToInt
<1> HIDE DEF m, q, r, H
<1>8. r - H = 8 * (y - 2 * m)
  BY <1>1, <1>2, <1>3, <1>4, <1>5, <1>6
<1>9. QED
  BY <1>4, <1>5, <1>7, <1>8

----------------------------------------------------------------------------
(* The cursor *)

VarInts == [val : Ints, n : VarIntBytes]

\* Decoding yields an int, and uses at least one byte.
LEMMA VarIntsAtType ==
    ASSUME NEW p \in Packets, NEW b \in Nat, NEW v \in VarIntsAt(p, b)
    PROVE  v \in VarInts /\ v.n \in 1 .. 5 /\ v.val \in Int
<1>1. v \in VarInts
  <2>1. CASE b \in DOMAIN p.varints
    BY <2>1, PacketFacts DEF VarIntsAt, VarInts
  <2>2. CASE b \notin DOMAIN p.varints /\ b < MaxPayload
    BY <2>2, PacketFacts DEF VarIntsAt, VarInts
  <2>3. CASE b \notin DOMAIN p.varints /\ ~(b < MaxPayload)
    <3>1. v = [val |-> 0, n |-> 1]
      BY <2>3 DEF VarIntsAt
    <3>2. 0 \in Ints
      BY IntModFacts DEF Ints
    <3>3. QED
      BY <3>1, <3>2 DEF VarInts, VarIntBytes
  <2>4. QED
    BY <2>1, <2>2, <2>3
<1>2. Ints \subseteq Int
  BY IntModFacts DEF Ints
<1>3. QED
  BY <1>1, <1>2 DEF VarInts, VarIntBytes

Buffers == [pos : 0 .. DataBits, overflow : BOOLEAN]

\* A read inside the buffer advances the cursor by whole bytes.
LEMMA TakenInside ==
    ASSUME NEW b \in Buffers, NEW n \in Nat, b.pos + 8 * n <= DataBits
    PROVE  /\ Taken(b, n) \in Buffers
           /\ Taken(b, n).pos = b.pos + 8 * n
           /\ Taken(b, n).overflow = b.overflow
BY IntModFacts DEF Taken, Buffers

\* The header takes at most twenty bytes from the start of the buffer.
LEMMA HeaderTaken ==
    ASSUME NEW b \in Buffers, b.pos = 0, ~b.overflow,
           NEW m \in 1 .. 5, NEW n \in 1 .. 5
    PROVE  LET r == Taken(Taken(Taken(Taken(b, 8), m), 2), n) IN
           /\ r \in Buffers
           /\ r.pos = 8 * (8 + m + 2 + n)
           /\ ~r.overflow
<1> DEFINE b1 == Taken(b, 8)
           b2 == Taken(b1, m)
           b3 == Taken(b2, 2)
           b4 == Taken(b3, n)
<1>1. b1 \in Buffers /\ b1.pos = 64 /\ b1.overflow = FALSE
  BY TakenInside, IntModFacts DEF Buffers
<1> HIDE DEF b1
<1>2. b2 \in Buffers /\ b2.pos = 64 + 8 * m /\ b2.overflow = FALSE
  BY <1>1, TakenInside, IntModFacts
<1> HIDE DEF b2
<1>3. b3 \in Buffers /\ b3.pos = 80 + 8 * m /\ b3.overflow = FALSE
  BY <1>2, TakenInside, IntModFacts
<1> HIDE DEF b3
<1>4. b3.pos + 8 * n <= DataBits /\ n \in Nat
  BY <1>3, IntModFacts
<1>5. b4 \in Buffers /\ b4.pos = b3.pos + 8 * n /\ b4.overflow = FALSE
  BY <1>3, <1>4, TakenInside
<1>6. b4.pos = 8 * (8 + m + 2 + n)
  BY <1>3, <1>5
<1>7. QED
  BY <1>5, <1>6 DEF b1, b2, b3

\* The two varints of a command that starts inside a packet lie inside the
\* buffer.
LEMMA CommandTaken ==
    ASSUME NEW b \in Buffers, NEW k \in Nat, b.pos = 8 * k,
           k + 10 < MaxPayload, NEW m \in 1 .. 5, NEW n \in 1 .. 5
    PROVE  LET r == Taken(Taken(b, m), n) IN
           /\ r \in Buffers
           /\ r.pos = 8 * (k + m + n)
           /\ r.overflow = b.overflow
<1> DEFINE b1 == Taken(b, m)
           b2 == Taken(b1, n)
<1>1. b.pos + 8 * m <= DataBits /\ m \in Nat
  BY IntModFacts
<1>2. b1 \in Buffers /\ b1.pos = b.pos + 8 * m /\ b1.overflow = b.overflow
  BY <1>1, TakenInside
<1> HIDE DEF b1
<1>3. b1.pos + 8 * n <= DataBits /\ n \in Nat
  BY <1>2, IntModFacts
<1>4. b2 \in Buffers /\ b2.pos = b1.pos + 8 * n /\ b2.overflow = b1.overflow
  BY <1>2, <1>3, TakenInside
<1> HIDE DEF b2
<1>5. b2.pos = 8 * (k + m + n)
  BY <1>2, <1>4
<1>6. QED
  BY <1>2, <1>4, <1>5 DEF b2, b1

\* A seek by whole bytes keeps the cursor on a byte; if it sets the flag the
\* cursor is at the end.
LEMMA SoughtBuffer ==
    ASSUME NEW b \in Buffers, NEW d \in Int, b.pos % 8 = 0, d % 8 = 0,
           ~b.overflow
    PROVE  /\ Sought(b, d) \in Buffers
           /\ Sought(b, d).pos % 8 = 0
           /\ Sought(b, d).overflow => Sought(b, d).pos = DataBits
<1> DEFINE t == ToInt(b.pos + d)
<1>1. b.pos + d \in Int /\ (b.pos + d) % 8 = 0
  BY IntModFacts DEF Buffers
<1>2. t \in Int /\ t % 8 = 0
  BY <1>1, ToIntType, ToIntEights
<1>3. CASE t \in 0 .. DataBits
  <2>1. Sought(b, d) = [b EXCEPT !.pos = t]
    BY <1>3 DEF Sought
  <2> HIDE DEF t
  <2>2. QED
    BY <1>2, <1>3, <2>1 DEF Buffers
<1>4. CASE t \notin 0 .. DataBits
  <2>1. Sought(b, d) = [pos |-> DataBits, overflow |-> TRUE]
    BY <1>4 DEF Sought
  <2>2. QED
    BY <2>1, IntModFacts DEF Buffers
<1>5. QED
  BY <1>3, <1>4

\* The offset of a cursor on a byte.
LEMMA BytesOfCursor ==
    ASSUME NEW b \in Buffers, b.pos % 8 = 0
    PROVE  /\ GetNumBytesRead(b) \in Nat
           /\ b.pos = 8 * GetNumBytesRead(b)
BY IntModFacts DEF Buffers, GetNumBytesRead

\* Where the reader is at each place of the code.
CursorInv ==
    /\ TypeOK
    /\ buf.pos % 8 = 0
    /\ rpc # "returned" => packet \in Packets
    /\ rpc = "header" => buf.pos = 0 /\ ~buf.overflow
    /\ rpc \in {"command", "fault"} => ~buf.overflow
    /\ buf.overflow => buf.pos = DataBits

\* The packet without contents has the shape of a packet.
LEMMA PacketSize ==
    \A p \in Packets \cup {NoPacket} :
        /\ p.size \in Nat /\ p.size + 10 <= MaxPayload
        /\ p.laidOut \in BOOLEAN
<1> SUFFICES ASSUME NEW p \in Packets \cup {NoPacket}
             PROVE  /\ p.size \in Nat /\ p.size + 10 <= MaxPayload
                    /\ p.laidOut \in BOOLEAN
  OBVIOUS
<1>1. CASE p \in Packets
  BY <1>1, PacketFacts, Zenon
<1>2. CASE p = NoPacket
  <2>1. p.size = 0
    BY <1>2 DEF NoPacket
  <2>2. p.laidOut = FALSE
    BY <1>2 DEF NoPacket
  <2>3. p.laidOut \in BOOLEAN
    BY <2>2, Zenon
  <2>4. p.size \in Nat /\ p.size + 10 <= MaxPayload
    BY <2>1, IntModFacts
  <2>5. QED
    BY <2>3, <2>4
<1>3. QED
  BY <1>1, <1>2

\* Before the first call.
LEMMA InitCursor == Init => CursorInv
BY IntModFacts DEF Init, CursorInv, TypeOK, NoCommand

\* Every step leaves the reader where CursorInv says.
LEMMA NextCursor == CursorInv /\ [Next]_rpVars => CursorInv'
<1> SUFFICES ASSUME CursorInv, [Next]_rpVars
             PROVE  CursorInv'
  OBVIOUS
<1>type. /\ buf \in Buffers
         /\ rpc \in {"returned", "header", "loop", "command", "fault"}
         /\ packet \in Packets \cup {NoPacket}
         /\ command \in [cmd : Int, size : Int]
         /\ printed \in Seq([cmd : Int, at : Nat, size : Int])
  BY DEF CursorInv, TypeOK, Buffers
<1>1. CASE ReadHeader
  <2>1. packet \in Packets /\ buf.pos = 0 /\ ~buf.overflow
    BY <1>1 DEF ReadHeader, CursorInv
  <2>2. PICK f \in VarIntsAt(packet, 8) :
          \E u \in VarIntsAt(packet, 8 + f.n + 2) :
            /\ buf' = Taken(Taken(Taken(Taken(buf, 8), f.n), 2), u.n)
            /\ rpc' = IF f.val = 0 \/ f.val % 256 >= 225
                        THEN "loop" ELSE "returned"
    BY <1>1 DEF ReadHeader
  <2>3. f.n \in 1 .. 5
    BY <2>1, VarIntsAtType
  <2>4. PICK u \in VarIntsAt(packet, 8 + f.n + 2) :
            /\ buf' = Taken(Taken(Taken(Taken(buf, 8), f.n), 2), u.n)
            /\ rpc' \in {"loop", "returned"}
    BY <2>2
  <2>5. u.n \in 1 .. 5
    <3>1. 8 + f.n + 2 \in Nat
      BY <2>3
    <3>2. QED
      BY <2>1, <3>1, VarIntsAtType
  <2>9. /\ buf' \in Buffers /\ buf'.pos = 8 * (8 + f.n + 2 + u.n)
        /\ ~buf'.overflow
    BY <1>type, <2>1, <2>3, <2>4, <2>5, HeaderTaken, ZenonT(60)
  <2>11. buf'.pos % 8 = 0
    BY <2>9, <2>3, <2>5
  <2>12. UNCHANGED <<packet, command, printed>>
    BY <1>1 DEF ReadHeader
  <2>13. TypeOK'
    BY <1>type, <2>4, <2>9, <2>12 DEF TypeOK, Buffers
  <2>14. QED
    BY <2>1, <2>4, <2>9, <2>11, <2>12, <2>13 DEF CursorInv
<1>2. CASE ReadCommand
  <2> DEFINE at == GetNumBytesRead(buf)
  <2>1. /\ packet \in Packets /\ buf.pos % 8 = 0 /\ at < packet.size
        /\ buf.overflow => buf.pos = DataBits
    BY <1>2 DEF ReadCommand, MoreToRead, CursorInv
  <2>2. at \in Nat /\ buf.pos = 8 * at
    BY <1>type, <2>1, BytesOfCursor
  <2>c. PICK c \in VarIntsAt(packet, at) :
          \E s \in VarIntsAt(packet, at + c.n) :
            /\ command' = [cmd |-> c.val, size |-> s.val]
            /\ buf' = Taken(Taken(buf, c.n), s.n)
    BY <1>2 DEF ReadCommand, MoreToRead
  <2>3. PICK s \in VarIntsAt(packet, at + c.n) :
          /\ command' = [cmd |-> c.val, size |-> s.val]
          /\ buf' = Taken(Taken(buf, c.n), s.n)
    BY <2>c
  <2> HIDE DEF at
  <2>4. c.n \in 1 .. 5 /\ c.val \in Int
    BY <2>1, <2>2, VarIntsAtType
  <2>5. s.n \in 1 .. 5 /\ s.val \in Int
    <3>1. at + c.n \in Nat
      BY <2>2, <2>4
    <3>2. QED
      BY <2>1, <3>1, VarIntsAtType
  <2>6. at + 10 < MaxPayload
    BY <2>1, <2>2, PacketSize, IntModFacts
  <2>7. ~buf.overflow
    BY <2>1, <2>2, <2>6, IntModFacts
  <2>9. /\ buf' \in Buffers /\ buf'.pos = 8 * (at + c.n + s.n)
        /\ ~buf'.overflow
    <3> DEFINE r == Taken(Taken(buf, c.n), s.n)
    <3>1. /\ r \in Buffers /\ r.pos = 8 * (at + c.n + s.n)
          /\ r.overflow = buf.overflow
      BY <1>type, <2>2, <2>4, <2>5, <2>6, CommandTaken, ZenonT(60)
    <3>2. buf' = r
      BY <2>3
    <3> HIDE DEF r
    <3>3. QED
      BY <2>7, <3>1, <3>2
  <2>11. buf'.pos % 8 = 0
    BY <2>9, <2>2, <2>4, <2>5
  <2>12. rpc' = "command" /\ UNCHANGED <<packet, printed>>
    BY <1>2 DEF ReadCommand, MoreToRead
  <2>13. command' \in [cmd : Int, size : Int]
    BY <2>3, <2>4, <2>5
  <2>14. TypeOK'
    BY <1>type, <2>9, <2>12, <2>13 DEF TypeOK, Buffers
  <2>15. QED
    BY <2>1, <2>9, <2>11, <2>12, <2>14 DEF CursorInv
<1>3. CASE HandleCommand
  <2> DEFINE d == ToInt(8 * command.size)
             b == Sought(buf, d)
             at == GetNumBytesRead(buf)
  <2>1. packet \in Packets /\ buf.pos % 8 = 0 /\ ~buf.overflow
    BY <1>3 DEF HandleCommand, CursorInv
  <2>2. d \in Int /\ d % 8 = 0
    <3>1. 8 * command.size \in Int /\ (8 * command.size) % 8 = 0
      BY <1>type
    <3>2. QED
      BY <3>1, ToIntType, ToIntEights
  <2> HIDE DEF d
  <2>3. b \in Buffers /\ b.pos % 8 = 0 /\ (b.overflow => b.pos = DataBits)
    BY <1>type, <2>1, <2>2, SoughtBuffer
  <2>4. at \in Nat
    BY <1>type, <2>1, BytesOfCursor
  <2>5. printed' \in Seq([cmd : Int, at : Nat, size : Int])
    <3> DEFINE new == [cmd |-> command.cmd, at |-> at, size |-> command.size]
               M == [cmd : Int, at : Nat, size : Int]
    <3>1. new \in M /\ printed \in Seq(M)
      BY <1>type, <2>4
    <3>2. printed' = printed \/ printed' = Append(printed, new)
      BY <1>3, Zenon DEF HandleCommand, SwitchCmd, Record, Message, Body
    <3> HIDE DEF new, M
    <3>3. printed' \in Seq(M)
      BY <3>1, <3>2
    <3>4. QED
      BY <3>3 DEF M
  <2>6. buf' = b /\ rpc' = "loop" /\ UNCHANGED <<packet, command>>
    BY <1>3 DEF HandleCommand, d
  <2> HIDE DEF b
  <2>7. TypeOK'
    BY <1>type, <2>3, <2>5, <2>6 DEF TypeOK, Buffers
  <2>8. QED
    BY <2>1, <2>3, <2>6, <2>7 DEF CursorInv
<1>4. CASE Return
  BY <1>4 DEF Return, MoreToRead, CursorInv, TypeOK
<1>5. CASE \E p \in Packets : Call(p)
  <2>1. PICK p \in Packets : Call(p)
    BY <1>5
  <2>2. /\ packet' = p /\ buf' = [pos |-> 0, overflow |-> FALSE]
        /\ command' = NoCommand /\ printed' = << >>
        /\ rpc' \in {"returned", "header"}
    BY <2>1 DEF Call
  <2>3. TypeOK'
    BY <2>2, IntModFacts DEF TypeOK, NoCommand
  <2>4. QED
    BY <2>2, <2>3 DEF CursorInv
<1>6. CASE UNCHANGED rpVars
  BY <1>6 DEF CursorInv, TypeOK, rpVars
<1>7. CASE ParseFaults
  BY <1>7 DEF ParseFaults, CursorInv, TypeOK
<1>8. QED
  BY <1>1, <1>2, <1>3, <1>4, <1>5, <1>6, <1>7 DEF Next, Step, Walk, Faulted

\* CursorInv holds throughout.
THEOREM CursorInvariant == Spec => []CursorInv
<1>1. Init => CursorInv
  BY InitCursor
<1>2. CursorInv /\ [Next]_rpVars => CursorInv'
  BY NextCursor
<1>3. QED
  BY <1>1, <1>2, PTL DEF Spec

\* The types of ReadPacket's variables.
THEOREM WalkTypeOK == Spec => []TypeOK
<1>1. CursorInv => TypeOK
  BY DEF CursorInv
<1>2. QED
  BY <1>1, CursorInvariant, PTL

\* Size * 8 may wrap, and the sum in SeekRelative may wrap again: the cursor
\* stays on a byte all the same.
THEOREM WalkOnBytes == Spec => []CursorOnByte
<1>1. CursorInv => CursorOnByte
  BY DEF CursorInv, CursorOnByte
<1>2. QED
  BY <1>1, CursorInvariant, PTL

\* Nothing is read after an overflow, however the packet is made: the seek
\* that sets the flag ends the loop.
THEOREM WalkNoReadAfterOverflow == Spec => []NoReadAfterOverflow
<1>1. CursorInv => NoReadAfterOverflow
  <2> SUFFICES ASSUME CursorInv, buf.overflow
               PROVE  /\ rpc \in {"loop", "returned"}
                      /\ GetNumBytesRead(buf) >= packet.size
    BY DEF NoReadAfterOverflow
  <2>1. rpc \in {"loop", "returned"}
    BY DEF CursorInv, TypeOK
  <2>2. buf.pos = 8 * MaxPayload
    BY IntModFacts DEF CursorInv
  <2>3. GetNumBytesRead(buf) = MaxPayload
    BY <2>2, IntModFacts DEF GetNumBytesRead
  <2>4. packet.size \in Nat /\ packet.size + 10 <= MaxPayload
    BY PacketSize DEF CursorInv, TypeOK
  <2>5. QED
    BY <2>1, <2>3, <2>4, IntModFacts
<1>2. QED
  BY <1>1, CursorInvariant, PTL

----------------------------------------------------------------------------
(* What is printed *)

\* The record printed for the command c.
Msg(c) == [cmd |-> c.cmd, at |-> BodyAt(c), size |-> c.size]

\* Where the i-th command starts; behind the last one the packet ends.
StartOf(p, i) == IF i <= Len(p.recs) THEN p.recs[i].at ELSE p.size

\* The messages to print among the commands before the i-th.
Before(p, i) ==
    {Msg(p.recs[j]) : j \in {k \in 1 .. Len(p.recs) :
        k < i /\ p.recs[k].cmd \in KnownCmds /\ p.recs[k].ok}}

InOrder ==
    \A i, j \in 1 .. Len(printed) : i < j => printed[i].at < printed[j].at

\* At the head of the loop the i-th command is next.
AtLoop(i) ==
    /\ buf.pos = 8 * StartOf(packet, i)
    /\ PrintedSet = Before(packet, i)
    /\ \A m \in PrintedSet : m.at <= StartOf(packet, i)

\* In the body of the loop the i-th command is handled.
AtCommand(i) ==
    /\ buf.pos = 8 * BodyAt(packet.recs[i])
    /\ command = [cmd |-> packet.recs[i].cmd, size |-> packet.recs[i].size]
    /\ PrintedSet = Before(packet, i)
    /\ \A m \in PrintedSet : m.at < BodyAt(packet.recs[i])

\* What the parse of the message of c answers.
Answer(c) == IF c.ok THEN "parsed" ELSE "refused"

\* The walk over a packet that its sender laid out.
PrintInv ==
    packet.laidOut =>
      /\ InOrder
      /\ rpc # "fault"
      /\ rpc \in {"loop", "command"} => Walked(packet)
      /\ rpc = "header" => printed = << >>
      /\ rpc = "loop" =>
            ~buf.overflow /\ \E i \in 1 .. Len(packet.recs) + 1 : AtLoop(i)
      /\ rpc = "command" => \E i \in 1 .. Len(packet.recs) : AtCommand(i)
      /\ rpc = "returned" =>
            IF Walked(packet)
              THEN PrintedSet = Before(packet, Len(packet.recs) + 1)
              ELSE printed = << >>

\* What LaidOut says of the place of one command.
LEMMA LaidOutCommand ==
    ASSUME NEW p \in Packets, p.laidOut, NEW i \in 1 .. Len(p.recs)
    PROVE  /\ p.recs[i] \in Commands
           /\ StartOf(p, i) = p.recs[i].at
           /\ StartOf(p, i + 1) = EndOf(p.recs[i])
           /\ EndOf(p.recs[i]) <= p.size
           /\ p.recs[i].size * 8 < IntMod \div 2
           /\ VarIntsAt(p, p.recs[i].at)
                = {[val |-> p.recs[i].cmd, n |-> p.recs[i].cmdLen]}
           /\ VarIntsAt(p, p.recs[i].at + p.recs[i].cmdLen)
                = {[val |-> p.recs[i].size, n |-> p.recs[i].sizeLen]}
           /\ ParsesAt(p, BodyAt(p.recs[i]), p.recs[i].size)
                = {Answer(p.recs[i])}
<1>1. LaidOut(p)
  BY PacketFacts, Zenon
<1> DEFINE c == p.recs[i]
<1>2. p.recs \in Seq(Commands)
  BY <1>1, Zenon DEF LaidOut
<1>3. c \in Commands /\ Len(p.recs) \in Nat
  BY <1>2
<1>4. /\ i < Len(p.recs) => p.recs[i + 1].at = EndOf(c)
      /\ EndOf(c) <= p.size
      /\ c.size * 8 < IntMod \div 2
      /\ {c.at, c.at + c.cmdLen} \subseteq DOMAIN p.varints
      /\ p.varints[c.at] = [val |-> c.cmd, n |-> c.cmdLen]
      /\ p.varints[c.at + c.cmdLen] = [val |-> c.size, n |-> c.sizeLen]
      /\ BodyAt(c) \in DOMAIN p.parses
      /\ p.parses[BodyAt(c)] = c.ok
  BY <1>1, Zenon DEF LaidOut
<1>5. p.recs # << >> => p.size = EndOf(p.recs[Len(p.recs)])
  BY <1>1, Zenon DEF LaidOut
<1>6. StartOf(p, i) = c.at
  BY <1>3 DEF StartOf
<1>7. StartOf(p, i + 1) = EndOf(c)
  <2>1. CASE i < Len(p.recs)
    BY <2>1, <1>3, <1>4 DEF StartOf
  <2>2. CASE i = Len(p.recs)
    <3>1. p.recs # << >>
      BY <1>2, <1>3
    <3>2. ~(i + 1 <= Len(p.recs))
      BY <2>2, <1>3
    <3>3. QED
      BY <2>2, <3>1, <3>2, <1>5 DEF StartOf
  <2>3. QED
    BY <2>1, <2>2, <1>3
<1>8. VarIntsAt(p, c.at) = {[val |-> c.cmd, n |-> c.cmdLen]}
  BY <1>4, Zenon DEF VarIntsAt
<1>9. VarIntsAt(p, c.at + c.cmdLen) = {[val |-> c.size, n |-> c.sizeLen]}
  BY <1>4, Zenon DEF VarIntsAt
<1>10. ParsesAt(p, BodyAt(c), c.size) = {Answer(c)}
  <2>1. /\ c.at \in Nat /\ c.cmdLen \in Nat /\ c.sizeLen \in Nat
        /\ c.size \in Nat
    BY <1>3 DEF Commands, VarIntBytes
  <2>2. /\ p.size \in Nat /\ p.size + 10 <= MaxPayload /\ MaxPayload \in Nat
    BY PacketFacts
  <2> HIDE DEF c
  <2>3. InLocalBuffer(BodyAt(c), c.size)
    <3>1. EndOf(c) <= p.size
      BY <1>4, Zenon
    <3>2. QED
      BY <2>1, <2>2, <3>1, SMTT(60) DEF InLocalBuffer, EndOf, BodyAt
  <2>4. QED
    BY <1>4, <2>3, Zenon DEF ParsesAt, Answer
<1>11. QED
  BY <1>3, <1>4, <1>6, <1>7, <1>8, <1>9, <1>10

\* The header of a laid out packet ends where its first command starts, or
\* with the packet.
LEMMA LaidOutHeader ==
    ASSUME NEW p \in Packets, p.laidOut, NEW f \in VarIntsAt(p, 8),
           NEW u \in VarIntsAt(p, 8 + f.n + 2)
    PROVE  /\ f = p.varints[8]
           /\ Len(p.recs) \in Nat
           /\ 8 + f.n + 2 + u.n = StartOf(p, 1)
<1>1. LaidOut(p)
  BY PacketFacts, Zenon
<1>2. 8 \in DOMAIN p.varints
  BY <1>1, Zenon DEF LaidOut
<1>3. f = p.varints[8]
  BY <1>2, Zenon DEF VarIntsAt
<1> DEFINE a == 8 + f.n + 2
<1>4. /\ a \in DOMAIN p.varints
      /\ p.recs = << >> => p.size = a + p.varints[a].n
      /\ p.recs # << >> => p.recs[1].at = a + p.varints[a].n
  BY <1>1, <1>3, Zenon DEF LaidOut
<1>5. u = p.varints[a]
  BY <1>4, Zenon DEF VarIntsAt
<1>6. p.recs \in Seq(Commands)
  BY <1>1, Zenon DEF LaidOut
<1> HIDE DEF a
<1>7. StartOf(p, 1) = a + u.n
  <2>1. CASE p.recs = << >>
    <3>1. ~(1 <= Len(p.recs))
      BY <2>1
    <3>2. QED
      BY <2>1, <3>1, <1>4, <1>5 DEF StartOf
  <2>2. CASE p.recs # << >>
    <3>1. 1 <= Len(p.recs)
      BY <2>2, <1>6
    <3>2. QED
      BY <2>2, <3>1, <1>4, <1>5 DEF StartOf
  <2>3. QED
    BY <2>1, <2>2
<1>8. QED
  BY <1>3, <1>6, <1>7 DEF a

\* A laid out packet holds at least its header.
LEMMA LaidOutSize ==
    ASSUME NEW p \in Packets, p.laidOut
    PROVE  p.size >= 8
<1>1. LaidOut(p)
  BY PacketFacts, Zenon
<1> DEFINE f == p.varints[8]
           a == 8 + f.n + 2
<1>2. 8 \in DOMAIN p.varints /\ a \in DOMAIN p.varints
  BY <1>1, Zenon DEF LaidOut
<1>3. p.size >= a + p.varints[a].n
  BY <1>1, Zenon DEF LaidOut
<1>4. f \in VarInts /\ p.varints[a] \in VarInts
  BY <1>2, PacketFacts, Zenon DEF VarInts
<1>5. f.n \in 1 .. 5 /\ p.varints[a].n \in 1 .. 5
  BY <1>4 DEF VarInts, VarIntBytes
<1>6. p.size \in Nat
  BY PacketFacts, Zenon
<1>7. QED
  BY <1>3, <1>5, <1>6

\* No message is printed before the first command, and one more after each
\* command whose message is to be printed.
LEMMA BeforeSteps ==
    ASSUME NEW p, Len(p.recs) \in Nat
    PROVE  /\ Before(p, 1) = {}
           /\ Before(p, Len(p.recs) + 1) = ToPrint(p)
           /\ \A i \in 1 .. Len(p.recs) :
                Before(p, i + 1) =
                  IF p.recs[i].cmd \in KnownCmds /\ p.recs[i].ok
                    THEN Before(p, i) \cup {Msg(p.recs[i])}
                    ELSE Before(p, i)
<1>1. Before(p, 1) = {}
  BY DEF Before
<1>2. Before(p, Len(p.recs) + 1) = ToPrint(p)
  <2> DEFINE N == 1 .. Len(p.recs)
  <2>1. {k \in N : k < Len(p.recs) + 1 /\ p.recs[k].cmd \in KnownCmds
                     /\ p.recs[k].ok}
          = {j \in N : p.recs[j].cmd \in KnownCmds /\ p.recs[j].ok}
    OBVIOUS
  <2>2. Before(p, Len(p.recs) + 1) =
          {Msg(p.recs[j]) : j \in {k \in N : p.recs[k].cmd \in KnownCmds
                                               /\ p.recs[k].ok}}
    BY <2>1, Zenon DEF Before
  <2>3. QED
    BY <2>2, Zenon DEF ToPrint, Msg
<1>3. ASSUME NEW i \in 1 .. Len(p.recs)
      PROVE  Before(p, i + 1) =
                IF p.recs[i].cmd \in KnownCmds /\ p.recs[i].ok
                  THEN Before(p, i) \cup {Msg(p.recs[i])}
                  ELSE Before(p, i)
  <2> DEFINE K(n) == {k \in 1 .. Len(p.recs) :
                k < n /\ p.recs[k].cmd \in KnownCmds /\ p.recs[k].ok}
  <2>1. \A n : Before(p, n) = {Msg(p.recs[j]) : j \in K(n)}
    BY Zenon DEF Before
  <2>2. CASE p.recs[i].cmd \in KnownCmds /\ p.recs[i].ok
    <3>1. K(i + 1) = K(i) \cup {i}
      BY <2>2
    <3>2. QED
      BY <2>1, <2>2, <3>1
  <2>3. CASE ~(p.recs[i].cmd \in KnownCmds /\ p.recs[i].ok)
    <3>1. K(i + 1) = K(i)
      BY <2>3
    <3>2. QED
      BY <2>1, <2>3, <3>1
  <2>4. QED
    BY <2>2, <2>3
<1>4. QED
  BY <1>1, <1>2, <1>3

\* A skip that stays inside the buffer does not wrap.
LEMMA SoughtExact ==
    ASSUME NEW b \in Buffers, NEW n \in Nat, n * 8 < IntMod \div 2,
           b.pos + 8 * n <= DataBits, ~b.overflow
    PROVE  /\ Sought(b, ToInt(8 * n)).pos = b.pos + 8 * n
           /\ ~Sought(b, ToInt(8 * n)).overflow
<1>1. ToInt(8 * n) = 8 * n
  BY ToIntExact, IntModFacts
<1>2. b.pos \in Nat
  BY IntModFacts DEF Buffers
<1>3. ToInt(b.pos + 8 * n) = b.pos + 8 * n
  BY <1>2, ToIntExact, IntModFacts
<1> DEFINE t == b.pos + 8 * n
<1>4. t \in 0 .. DataBits
  BY <1>2, IntModFacts
<1>5. Sought(b, 8 * n) = [b EXCEPT !.pos = t]
  BY <1>3, <1>4 DEF Sought
<1> HIDE DEF t
<1>6. Sought(b, 8 * n).pos = t /\ ~Sought(b, 8 * n).overflow
  BY <1>5 DEF Buffers
<1>7. QED
  BY <1>1, <1>6 DEF t

\* The commands of a laid out packet are a finite list.
LEMMA LaidOutLen ==
    \A p \in Packets : p.laidOut => Len(p.recs) \in Nat
<1> SUFFICES ASSUME NEW p \in Packets, p.laidOut
             PROVE  Len(p.recs) \in Nat
  OBVIOUS
<1>1. LaidOut(p)
  BY PacketFacts, Zenon
<1>2. p.recs \in Seq(Commands)
  BY <1>1, Zenon DEF LaidOut
<1>3. QED
  BY <1>2

\* Commands start at byte offsets.
LEMMA StartOfType ==
    ASSUME NEW p \in Packets, p.laidOut, NEW i \in 1 .. Len(p.recs) + 1
    PROVE  StartOf(p, i) \in Nat
<1>1. Len(p.recs) \in Nat /\ p.size \in Nat
  BY LaidOutLen, PacketSize
<1>2. CASE i \in 1 .. Len(p.recs)
  <2>1. p.recs[i] \in Commands /\ StartOf(p, i) = p.recs[i].at
    BY <1>2, LaidOutCommand
  <2>2. QED
    BY <2>1 DEF Commands
<1>3. CASE i = Len(p.recs) + 1
  BY <1>1, <1>3 DEF StartOf
<1>4. QED
  BY <1>1, <1>2, <1>3

\* The offsets inside a command.
LEMMA CommandPlaces ==
    ASSUME NEW c \in Commands
    PROVE  /\ c.at \in Nat /\ c.cmdLen \in 1 .. 5 /\ c.sizeLen \in 1 .. 5
           /\ c.size \in Nat /\ c.cmd \in Int /\ c.ok \in BOOLEAN
           /\ BodyAt(c) \in Nat /\ c.at < BodyAt(c)
           /\ EndOf(c) \in Nat /\ EndOf(c) = BodyAt(c) + c.size
<1>1. /\ c.at \in Nat /\ c.cmdLen \in 1 .. 5 /\ c.sizeLen \in 1 .. 5
      /\ c.size \in Nat /\ c.cmd \in Ints /\ c.ok \in BOOLEAN
  BY DEF Commands, VarIntBytes
<1>2. c.cmd \in Int
  BY <1>1, IntModFacts DEF Ints
<1>3. BodyAt(c) \in Nat /\ c.at < BodyAt(c)
  BY <1>1 DEF BodyAt
<1>4. EndOf(c) \in Nat /\ EndOf(c) = BodyAt(c) + c.size
  BY <1>1, <1>3 DEF EndOf
<1>5. QED
  BY <1>1, <1>2, <1>3, <1>4

\* What is printed has a byte offset.
LEMMA PrintedAt ==
    ASSUME NEW s \in Seq([cmd : Int, at : Nat, size : Int])
    PROVE  \A m \in {s[i] : i \in 1 .. Len(s)} : m.at \in Nat
<1> DEFINE M == [cmd : Int, at : Nat, size : Int]
<1>1. s \in Seq(M)
  OBVIOUS
<1>2. \A m \in M : m.at \in Nat
  OBVIOUS
<1> HIDE DEF M
<1>3. \A i \in 1 .. Len(s) : s[i] \in M
  BY <1>1
<1>4. QED
  BY <1>2, <1>3

\* Appending a message that lies behind all printed ones.
LEMMA AppendInOrder ==
    ASSUME NEW s \in Seq([cmd : Int, at : Nat, size : Int]),
           NEW e \in [cmd : Int, at : Nat, size : Int],
           \A i, j \in 1 .. Len(s) : i < j => s[i].at < s[j].at,
           \A i \in 1 .. Len(s) : s[i].at < e.at
    PROVE  LET t == Append(s, e) IN
           /\ {t[i] : i \in 1 .. Len(t)} = {s[i] : i \in 1 .. Len(s)} \cup {e}
           /\ \A i, j \in 1 .. Len(t) : i < j => t[i].at < t[j].at
<1> DEFINE M == [cmd : Int, at : Nat, size : Int]
           t == Append(s, e)
<1>1. s \in Seq(M) /\ e \in M
  OBVIOUS
<1> HIDE DEF M
<1>2. /\ Len(s) \in Nat
      /\ Len(t) = Len(s) + 1
      /\ \A i \in 1 .. Len(s) : t[i] = s[i]
      /\ t[Len(s) + 1] = e
  BY <1>1
<1> HIDE DEF t
<1>3. {t[i] : i \in 1 .. Len(t)} = {s[i] : i \in 1 .. Len(s)} \cup {e}
  <2>1. 1 .. Len(t) = (1 .. Len(s)) \cup {Len(s) + 1}
    BY <1>2
  <2> DEFINE I == 1 .. Len(s)
             k == Len(s) + 1
  <2>2. 1 .. Len(t) = I \cup {k} /\ t[k] = e /\ \A i \in I : t[i] = s[i]
    BY <1>2, <2>1
  <2> HIDE DEF I, k
  <2>3. {t[i] : i \in I \cup {k}} = {s[i] : i \in I} \cup {e}
    BY <2>2, ZenonT(60)
  <2>4. QED
    BY <2>2, <2>3, Zenon DEF I
<1>4. ASSUME NEW i \in 1 .. Len(t), NEW j \in 1 .. Len(t), i < j
      PROVE  t[i].at < t[j].at
  <2>1. i \in 1 .. Len(s) /\ t[i] = s[i]
    BY <1>2, <1>4, SMTT(60)
  <2>2. CASE j \in 1 .. Len(s)
    BY <1>2, <1>4, <2>1, <2>2
  <2>3. CASE j = Len(s) + 1
    BY <1>2, <2>1, <2>3
  <2>4. QED
    BY <1>2, <2>2, <2>3
<1>5. QED
  BY <1>3, <1>4 DEF t

\* Every step leads the walk over a laid out packet on as PrintInv says.
LEMMA NextPrint == CursorInv /\ PrintInv /\ [Next]_rpVars => PrintInv'
<1> SUFFICES ASSUME CursorInv, PrintInv, [Next]_rpVars, packet'.laidOut
             PROVE  /\ InOrder'
                    /\ rpc' # "fault"
                    /\ rpc' \in {"loop", "command"} => Walked(packet')
                    /\ rpc' = "header" => printed' = << >>
                    /\ rpc' = "loop" =>
                         /\ ~buf'.overflow
                         /\ \E i \in 1 .. Len(packet'.recs) + 1 : AtLoop(i)'
                    /\ rpc' = "command" =>
                         \E i \in 1 .. Len(packet'.recs) : AtCommand(i)'
                    /\ rpc' = "returned" =>
                         IF Walked(packet')
                           THEN PrintedSet' =
                                  Before(packet', Len(packet'.recs) + 1)
                           ELSE printed' = << >>
  BY DEF PrintInv
<1>type. /\ buf \in Buffers
         /\ rpc \in {"returned", "header", "loop", "command", "fault"}
         /\ printed \in Seq([cmd : Int, at : Nat, size : Int])
         /\ buf.pos % 8 = 0
  BY DEF CursorInv, TypeOK, Buffers
<1>1. CASE ReadHeader
  <2>1. /\ packet \in Packets /\ buf.pos = 0 /\ ~buf.overflow
        /\ packet' = packet /\ printed' = printed /\ packet.laidOut
    BY <1>1 DEF ReadHeader, CursorInv
  <2>2. printed = << >>
    BY <1>1, <2>1 DEF ReadHeader, PrintInv
  <2>3. PICK f \in VarIntsAt(packet, 8) :
          \E u \in VarIntsAt(packet, 8 + f.n + 2) :
            /\ buf' = Taken(Taken(Taken(Taken(buf, 8), f.n), 2), u.n)
            /\ rpc' = IF f.val = 0 \/ f.val % 256 >= 225
                        THEN "loop" ELSE "returned"
    BY <1>1 DEF ReadHeader
  <2>4. PICK u \in VarIntsAt(packet, 8 + f.n + 2) :
            buf' = Taken(Taken(Taken(Taken(buf, 8), f.n), 2), u.n)
    BY <2>3
  <2>5. f.n \in 1 .. 5
    BY <2>1, VarIntsAtType
  <2>6. u.n \in 1 .. 5
    <3>1. 8 + f.n + 2 \in Nat
      BY <2>5
    <3>2. QED
      BY <2>1, <3>1, VarIntsAtType
  <2>7. buf'.pos = 8 * (8 + f.n + 2 + u.n) /\ ~buf'.overflow
    BY <1>type, <2>1, <2>4, <2>5, <2>6, HeaderTaken, ZenonT(60)
  <2>8. /\ f = packet.varints[8]
        /\ Len(packet.recs) \in Nat
        /\ 8 + f.n + 2 + u.n = StartOf(packet, 1)
    BY <2>1, LaidOutHeader
  <2>9. rpc' = IF Walked(packet) THEN "loop" ELSE "returned"
    BY <2>3, <2>8, Zenon DEF Walked
  <2>10. InOrder' /\ PrintedSet' = {}
    BY <2>1, <2>2 DEF InOrder, PrintedSet
  <2>11. Before(packet, 1) = {}
    BY <2>8, BeforeSteps
  <2>12. AtLoop(1)'
    BY <2>1, <2>7, <2>8, <2>10, <2>11 DEF AtLoop
  <2>13. CASE Walked(packet)
    BY <2>1, <2>7, <2>8, <2>9, <2>10, <2>12, <2>13
  <2>14. CASE ~Walked(packet)
    BY <2>1, <2>2, <2>9, <2>10, <2>14
  <2>15. QED
    BY <2>13, <2>14
<1>2. CASE ReadCommand
  <2> DEFINE at == GetNumBytesRead(buf)
  <2>1. /\ packet \in Packets /\ at < packet.size /\ ~buf.overflow
        /\ packet' = packet /\ printed' = printed /\ packet.laidOut
        /\ rpc' = "command" /\ InOrder /\ Walked(packet)
    BY <1>2 DEF ReadCommand, MoreToRead, CursorInv, PrintInv
  <2>2. at \in Nat /\ buf.pos = 8 * at
    BY <1>type, <2>1, BytesOfCursor
  <2>3. PICK i \in 1 .. Len(packet.recs) + 1 : AtLoop(i)
    BY <1>2, <2>1 DEF ReadCommand, MoreToRead, PrintInv
  <2>4. at = StartOf(packet, i) /\ Len(packet.recs) \in Nat
    <3>1. Len(packet.recs) \in Nat
      BY <2>1, LaidOutLen
    <3>2. StartOf(packet, i) \in Nat
      BY <2>1, <2>3, <3>1, StartOfType
    <3>3. QED
      BY <2>2, <2>3, <3>1, <3>2 DEF AtLoop
  <2>5. i \in 1 .. Len(packet.recs)
    <3>1. ASSUME i = Len(packet.recs) + 1
          PROVE  FALSE
      <4>1. StartOf(packet, i) = packet.size /\ packet.size \in Nat
        BY <2>1, <2>4, <3>1, PacketSize DEF StartOf
      <4>2. QED
        BY <2>1, <2>4, <4>1
    <3>2. QED
      BY <2>3, <2>4, <3>1
  <2> DEFINE c == packet.recs[i]
  <2>6. /\ c \in Commands /\ StartOf(packet, i) = c.at
        /\ VarIntsAt(packet, c.at) = {[val |-> c.cmd, n |-> c.cmdLen]}
        /\ VarIntsAt(packet, c.at + c.cmdLen)
             = {[val |-> c.size, n |-> c.sizeLen]}
    BY <2>1, <2>5, LaidOutCommand
  <2>7. /\ command' = [cmd |-> c.cmd, size |-> c.size]
        /\ buf' = Taken(Taken(buf, c.cmdLen), c.sizeLen)
    BY <1>2, <2>4, <2>6 DEF ReadCommand, MoreToRead
  <2>8. c.at \in Nat /\ c.cmdLen \in 1 .. 5 /\ c.sizeLen \in 1 .. 5
    BY <2>6, CommandPlaces
  <2> HIDE DEF c
  <2>9. buf'.pos = 8 * BodyAt(c)
    <3>1. at + 10 < MaxPayload
      BY <2>1, <2>2, PacketSize, IntModFacts
    <3>2. buf'.pos = 8 * (at + c.cmdLen + c.sizeLen)
      BY <1>type, <2>1, <2>2, <2>7, <2>8, <3>1, CommandTaken
    <3>3. QED
      BY <2>4, <2>6, <3>2 DEF BodyAt
  <2>10. InOrder' /\ PrintedSet' = PrintedSet
    BY <2>1 DEF InOrder, PrintedSet
  <2>11. \A m \in PrintedSet : m.at < BodyAt(c)
    <3>1. \A m \in PrintedSet : m.at \in Nat
      BY <1>type, PrintedAt DEF PrintedSet
    <3>2. c.at < BodyAt(c) /\ BodyAt(c) \in Nat
      BY <2>6, CommandPlaces
    <3>3. QED
      BY <2>3, <2>6, <2>8, <3>1, <3>2 DEF AtLoop
  <2>12. AtCommand(i)'
    BY <2>1, <2>3, <2>7, <2>9, <2>10, <2>11 DEF AtCommand, AtLoop, c
  <2>13. QED
    BY <2>1, <2>5, <2>10, <2>12
<1>3. CASE HandleCommand
  <2>1. /\ packet \in Packets /\ ~buf.overflow /\ packet' = packet
        /\ packet.laidOut /\ rpc' = "loop" /\ InOrder /\ Walked(packet)
        /\ buf' = Sought(buf, ToInt(8 * command.size))
    BY <1>3 DEF HandleCommand, CursorInv, PrintInv
  <2>2. PICK i \in 1 .. Len(packet.recs) : AtCommand(i)
    BY <1>3, <2>1 DEF HandleCommand, PrintInv
  <2> DEFINE c == packet.recs[i]
  <2>3. /\ c \in Commands
        /\ StartOf(packet, i + 1) = EndOf(c) /\ EndOf(c) <= packet.size
        /\ c.size * 8 < IntMod \div 2
        /\ ParsesAt(packet, BodyAt(c), c.size) = {Answer(c)}
    BY <2>1, <2>2, LaidOutCommand
  <2>4. /\ c.at \in Nat /\ c.cmdLen \in 1 .. 5 /\ c.sizeLen \in 1 .. 5
        /\ c.size \in Nat /\ c.cmd \in Int /\ c.ok \in BOOLEAN
    BY <2>3, CommandPlaces
  <2>5. BodyAt(c) \in Nat /\ EndOf(c) = BodyAt(c) + c.size
    BY <2>3, CommandPlaces
  <2>6. /\ command.cmd = c.cmd /\ command.size = c.size
        /\ buf.pos = 8 * BodyAt(c) /\ PrintedSet = Before(packet, i)
        /\ \A m \in PrintedSet : m.at < BodyAt(c)
    BY <2>2 DEF AtCommand
  <2> HIDE DEF c
  <2>7. GetNumBytesRead(buf) = BodyAt(c)
    BY <2>5, <2>6 DEF GetNumBytesRead
  <2>8. buf'.pos = 8 * EndOf(c) /\ ~buf'.overflow
    <3>0. packet.size \in Nat /\ packet.size + 10 <= MaxPayload
      BY <2>1, PacketSize
    <3>1. buf.pos + 8 * c.size <= DataBits
      BY <2>3, <2>4, <2>5, <2>6, <3>0, IntModFacts, SMTT(60)
    <3>2. /\ Sought(buf, ToInt(8 * c.size)).pos = buf.pos + 8 * c.size
          /\ ~Sought(buf, ToInt(8 * c.size)).overflow
      BY <1>type, <2>1, <2>3, <2>4, <3>1, SoughtExact
    <3>3. QED
      BY <2>1, <2>4, <2>5, <2>6, <3>2
  <2>9. Len(packet.recs) \in Nat
    BY <2>1, LaidOutLen
  <2>10. /\ InOrder' /\ PrintedSet' = Before(packet, i + 1)
         /\ \A m \in PrintedSet' : m.at <= BodyAt(c)
    <3>1. \A m \in PrintedSet : m.at \in Nat
      BY <1>type, PrintedAt DEF PrintedSet
    <3>2. CASE c.cmd \in KnownCmds /\ c.ok
      <4>1. printed' = Append(printed, Msg(c))
        <5>1. ParsesAt(packet, BodyAt(c), c.size) = {"parsed"}
          BY <2>3, <3>2, Zenon DEF Answer
        <5>2. "refused" # "parsed"
          OBVIOUS
        <5>3. QED
          BY <1>3, <2>1, <2>6, <2>7, <3>2, <5>1, <5>2, Zenon
             DEF HandleCommand, SwitchCmd, Record, Message, Body, Msg
      <4>2. Msg(c) \in [cmd : Int, at : Nat, size : Int] /\ Msg(c).at = BodyAt(c)
        BY <2>4, <2>5 DEF Msg
      <4>3. \A k \in 1 .. Len(printed) : printed[k].at < Msg(c).at
        BY <2>6, <4>2 DEF PrintedSet
      <4>4. InOrder' /\ PrintedSet' = PrintedSet \cup {Msg(c)}
        <5>1. \A k, j \in 1 .. Len(printed) :
                k < j => printed[k].at < printed[j].at
          BY <2>1 DEF InOrder
        <5>2. QED
          <6> DEFINE t == Append(printed, Msg(c))
          <6>1. /\ {t[k] : k \in 1 .. Len(t)}
                     = {printed[k] : k \in 1 .. Len(printed)} \cup {Msg(c)}
                /\ \A k, j \in 1 .. Len(t) : k < j => t[k].at < t[j].at
            BY <1>type, <4>2, <4>3, <5>1, AppendInOrder
          <6>2. printed' = t
            BY <4>1
          <6> HIDE DEF t
          <6>3. QED
            BY <6>1, <6>2 DEF InOrder, PrintedSet
      <4>5. Before(packet, i + 1) = Before(packet, i) \cup {Msg(c)}
        BY <2>2, <2>9, <3>2, BeforeSteps DEF c
      <4>6. \A m \in PrintedSet' : m.at <= BodyAt(c)
        BY <2>5, <2>6, <3>1, <4>2, <4>4
      <4>7. QED
        BY <2>6, <4>4, <4>5, <4>6
    <3>3. CASE ~(c.cmd \in KnownCmds /\ c.ok)
      <4>1. c.cmd \in KnownCmds =>
              "parsed" \notin ParsesAt(packet, BodyAt(c), c.size)
        <5>1. "refused" # "parsed"
          OBVIOUS
        <5>2. QED
          BY <2>3, <3>3, <5>1, Zenon DEF Answer
      <4>2. printed' = printed
        BY <1>3, <2>6, <2>7, <4>1, Zenon DEF HandleCommand, SwitchCmd, Body
      <4>3. InOrder' /\ PrintedSet' = PrintedSet
        BY <2>1, <4>2 DEF InOrder, PrintedSet
      <4>4. Before(packet, i + 1) = Before(packet, i)
        BY <2>2, <2>9, <3>3, BeforeSteps DEF c
      <4>5. QED
        BY <2>5, <2>6, <3>1, <4>3, <4>4
    <3>4. QED
      BY <3>2, <3>3
  <2>11. \A m \in PrintedSet' : m.at <= EndOf(c)
    <3>1. \A m \in PrintedSet' : m.at \in Nat
      <4>1. printed' \in Seq([cmd : Int, at : Nat, size : Int])
        BY NextCursor DEF CursorInv, TypeOK
      <4>2. QED
        BY <4>1, PrintedAt DEF PrintedSet
    <3>2. QED
      BY <2>4, <2>5, <2>10, <3>1
  <2>12. AtLoop(i + 1)'
    BY <2>1, <2>3, <2>8, <2>10, <2>11 DEF AtLoop
  <2>13. i + 1 \in 1 .. Len(packet.recs) + 1
    BY <2>2, <2>9
  <2>14. QED
    BY <2>1, <2>8, <2>10, <2>12, <2>13
<1>4. CASE Return
  <2>1. /\ packet \in Packets /\ packet' = packet /\ printed' = printed
        /\ packet.laidOut /\ rpc' = "returned" /\ InOrder
        /\ ~(GetNumBytesRead(buf) < packet.size)
    BY <1>4 DEF Return, MoreToRead, CursorInv, PrintInv
  <2>2. PICK i \in 1 .. Len(packet.recs) + 1 : AtLoop(i)
    BY <1>4, <2>1 DEF Return, MoreToRead, PrintInv
  <2>3. Len(packet.recs) \in Nat
    BY <2>1, LaidOutLen
  <2>4. i = Len(packet.recs) + 1
    <3>1. SUFFICES ASSUME i \in 1 .. Len(packet.recs)
                   PROVE  FALSE
      BY <2>2, <2>3
    <3>2. /\ StartOf(packet, i) = packet.recs[i].at
          /\ EndOf(packet.recs[i]) <= packet.size
          /\ packet.recs[i] \in Commands
      BY <2>1, <3>1, LaidOutCommand
    <3>3. /\ packet.recs[i].at \in Nat
          /\ packet.recs[i].at < EndOf(packet.recs[i])
          /\ EndOf(packet.recs[i]) \in Nat
      <4> DEFINE c == packet.recs[i]
      <4>1. c.at \in Nat /\ c.at < BodyAt(c) /\ BodyAt(c) \in Nat
            /\ c.size \in Nat /\ EndOf(c) = BodyAt(c) + c.size
        BY <3>2, CommandPlaces
      <4> HIDE DEF c
      <4>2. c.at \in Nat /\ c.at < EndOf(c) /\ EndOf(c) \in Nat
        BY <4>1
      <4>3. QED
        BY <4>2 DEF c
    <3>4. GetNumBytesRead(buf) = packet.recs[i].at
      BY <2>2, <3>2, <3>3, SMTT(60) DEF AtLoop, GetNumBytesRead
    <3>5. packet.size \in Nat
      BY <2>1, PacketSize
    <3>6. QED
      BY <2>1, <3>2, <3>3, <3>4, <3>5
  <2>5. PrintedSet' = Before(packet, Len(packet.recs) + 1) /\ InOrder'
    BY <2>1, <2>2, <2>4 DEF AtLoop, PrintedSet, InOrder
  <2>6. Walked(packet)
    BY <1>4, <2>1 DEF Return, MoreToRead, PrintInv
  <2>7. QED
    BY <2>1, <2>5, <2>6

<1>5. CASE \E p \in Packets : Call(p)
  <2>1. PICK p \in Packets : Call(p)
    BY <1>5
  <2>2. packet' = p /\ printed' = << >>
    BY <2>1 DEF Call
  <2>3. p.size >= 8 /\ p.size \in Nat
    BY <2>2, LaidOutSize, PacketSize
  <2>4. rpc' = "header"
    BY <2>1, <2>3 DEF Call
  <2>5. InOrder'
    BY <2>2 DEF InOrder
  <2>6. QED
    BY <2>2, <2>4, <2>5
<1>6. CASE UNCHANGED rpVars
  <2>1. /\ rpc' = rpc /\ packet' = packet /\ buf' = buf
        /\ command' = command /\ printed' = printed
    BY <1>6 DEF rpVars
  <2>2. QED
    BY <2>1 DEF PrintInv, InOrder, AtLoop, AtCommand, PrintedSet
<1>7. CASE ParseFaults
  <2>1. /\ packet \in Packets /\ packet.laidOut
        /\ "fault" \in ParsesAt(packet, Body, command.size)
    BY <1>7 DEF ParseFaults, CursorInv
  <2>2. PICK i \in 1 .. Len(packet.recs) : AtCommand(i)
    BY <1>7, <2>1 DEF ParseFaults, PrintInv
  <2> DEFINE c == packet.recs[i]
  <2>3. c \in Commands /\ ParsesAt(packet, BodyAt(c), c.size) = {Answer(c)}
    BY <2>1, <2>2, LaidOutCommand
  <2>4. BodyAt(c) \in Nat
    BY <2>3, CommandPlaces
  <2>5. command.size = c.size /\ buf.pos = 8 * BodyAt(c)
    BY <2>2 DEF AtCommand
  <2> HIDE DEF c
  <2>6. Body = BodyAt(c)
    BY <2>4, <2>5 DEF Body, GetNumBytesRead
  <2>7. "fault" = Answer(c)
    <3>1. "fault" \in ParsesAt(packet, BodyAt(c), c.size)
      BY <2>1, <2>5, <2>6
    <3>2. QED
      BY <2>3, <3>1
  <2>8. Answer(c) \in {"parsed", "refused"}
    BY Zenon DEF Answer
  <2>9. QED
    BY <2>7, <2>8
<1>8. QED
  BY <1>1, <1>2, <1>3, <1>4, <1>5, <1>6, <1>7 DEF Next, Step, Walk, Faulted

----------------------------------------------------------------------------
(* The order of the commands *)

Below == {ss \in Nat \X Nat : ss[1] < ss[2]}

\* Every nonempty set of naturals has a least element: the form in which
\* induction is used here.
LEMMA LeastNatural ==
    ASSUME NEW T, T \subseteq Nat, T # {}
    PROVE  \E x \in T : \A y \in T : x <= y
<1>1. IsWellFoundedOn(Below, Nat)
  BY NatLessThanWellFounded, Zenon DEF OpToRel, Below
<1>2. \A x, y \in Nat : ~(<<x, y>> \in Below) => y <= x
  BY DEF Below
<1>3. PICK x \in T : \A y \in T : ~(<<y, x>> \in Below)
  BY <1>1, WFMin, Zenon
<1>4. ASSUME NEW y \in T
      PROVE  x <= y
  <2>1. x \in Nat /\ y \in Nat
    OBVIOUS
  <2>2. QED
    BY <1>2, <1>3, <2>1, Zenon
<1>5. QED
  BY <1>4

\* LaidOut relates a command to the next one only; the message of a later
\* command never lies before that of an earlier one.
LEMMA CommandsInOrder ==
    ASSUME NEW p \in Packets, p.laidOut,
           NEW i \in 1 .. Len(p.recs), NEW j \in 1 .. Len(p.recs), i <= j
    PROVE  BodyAt(p.recs[i]) <= BodyAt(p.recs[j])
<1> DEFINE N == 1 .. Len(p.recs)
           T == {k \in N : i <= k /\ ~(BodyAt(p.recs[i]) <= BodyAt(p.recs[k]))}
<1>1. Len(p.recs) \in Nat
  BY LaidOutLen
<1>2. \A k \in N : BodyAt(p.recs[k]) \in Nat
  BY LaidOutCommand, CommandPlaces
<1>3. ASSUME T # {}
      PROVE  FALSE
  <2>1. T \subseteq Nat
    BY <1>1
  <2>2. PICK k \in T : \A m \in T : k <= m
    BY <1>3, <2>1, LeastNatural, Zenon
  <2>3. k \in N /\ k > i
    BY <1>1, <1>2, <2>2
  <2>4. k - 1 \in N /\ k - 1 >= i /\ k - 1 \notin T
    BY <1>1, <2>2, <2>3
  <2>5. BodyAt(p.recs[i]) <= BodyAt(p.recs[k - 1])
    BY <2>4
  <2> DEFINE c == p.recs[k - 1]
             d == p.recs[k]
  <2>6. /\ c \in Commands /\ StartOf(p, (k - 1) + 1) = EndOf(c)
        /\ d \in Commands /\ StartOf(p, k) = d.at
    BY <2>3, <2>4, LaidOutCommand
  <2>7. d.at = EndOf(c)
    BY <1>1, <2>3, <2>6
  <2>8. /\ BodyAt(c) \in Nat /\ c.size \in Nat /\ EndOf(c) = BodyAt(c) + c.size
        /\ BodyAt(d) \in Nat /\ d.at < BodyAt(d) /\ d.at \in Nat
    BY <2>6, CommandPlaces
  <2>9. BodyAt(p.recs[k - 1]) <= BodyAt(p.recs[k])
    <3> HIDE DEF c, d
    <3>1. BodyAt(c) <= BodyAt(d)
      BY <2>7, <2>8
    <3>2. QED
      BY <3>1 DEF c, d
  <2>10. BodyAt(p.recs[i]) <= BodyAt(p.recs[k])
    BY <1>2, <2>3, <2>4, <2>5, <2>9
  <2>11. QED
    BY <2>2, <2>10
<1>4. QED
  BY <1>3

\* When the i-th command's message is to be printed, it is the first of those
\* not printed yet.
LEMMA FirstMissing ==
    ASSUME NEW p \in Packets, p.laidOut, NEW i \in 1 .. Len(p.recs),
           p.recs[i].cmd \in KnownCmds, p.recs[i].ok
    PROVE  /\ Msg(p.recs[i]) \in ToPrint(p)
           /\ Msg(p.recs[i]).at = BodyAt(p.recs[i])
           /\ \A n \in ToPrint(p) \ Before(p, i) :
                 Msg(p.recs[i]).at <= n.at
<1>1. Len(p.recs) \in Nat
  BY LaidOutLen
<1>2. Msg(p.recs[i]) \in ToPrint(p)
  BY DEF ToPrint, Msg
<1>3. \A c : Msg(c).at = BodyAt(c)
  BY DEF Msg
<1>4. ASSUME NEW n \in ToPrint(p), n \notin Before(p, i)
      PROVE  Msg(p.recs[i]).at <= n.at
  <2>1. PICK j \in 1 .. Len(p.recs) :
           /\ n = Msg(p.recs[j])
           /\ p.recs[j].cmd \in KnownCmds /\ p.recs[j].ok
    BY DEF ToPrint, Msg
  <2>2. ~(j < i)
    BY <1>4, <2>1 DEF Before
  <2>3. BodyAt(p.recs[i]) <= BodyAt(p.recs[j])
    BY <1>1, <2>2, CommandsInOrder
  <2>4. QED
    BY <1>3, <2>1, <2>3
<1>5. QED
  BY <1>2, <1>3, <1>4

\* The walk over a packet its sender laid out prints the messages of known
\* commands that parse, each once and in their order, and when ReadPacket
\* returns none is missing, whatever else the packet holds.
THEOREM WalkPrintsTheMessages == Spec => []PrintsTheMessages
<1>1. Init => PrintInv
  BY DEF Init, PrintInv, NoPacket
<1>2. CursorInv /\ PrintInv => PrintsTheMessages
  <2> SUFFICES ASSUME CursorInv, PrintInv, packet.laidOut
               PROVE  /\ PrintedSet \subseteq ToPrint(packet)
                      /\ InOrder
                      /\ rpc = "returned" /\ Walked(packet) =>
                            PrintedSet = ToPrint(packet)
    BY Zenon DEF PrintsTheMessages, InOrder
  <2>1. InOrder
    BY DEF PrintInv
  <2>2. packet \in Packets
    <3>1. NoPacket.laidOut = FALSE
      BY DEF NoPacket
    <3>2. QED
      BY <3>1 DEF CursorInv, TypeOK
  <2>3. Len(packet.recs) \in Nat
    BY <2>2, LaidOutLen
  <2>4. \A i : Before(packet, i) \subseteq ToPrint(packet)
    BY DEF Before, ToPrint, Msg
  <2>5. Before(packet, Len(packet.recs) + 1) = ToPrint(packet)
    BY <2>3, BeforeSteps
  <2>6. printed = << >> => PrintedSet = {}
    BY DEF PrintedSet
  <2>7. rpc \in {"returned", "header", "loop", "command"}
    BY DEF CursorInv, TypeOK, PrintInv
  <2>8. CASE rpc = "header"
    BY <2>1, <2>6, <2>8 DEF PrintInv
  <2>9. CASE rpc = "loop"
    BY <2>1, <2>4, <2>9 DEF PrintInv, AtLoop
  <2>10. CASE rpc = "command"
    BY <2>1, <2>4, <2>10 DEF PrintInv, AtCommand
  <2>11. CASE rpc = "returned"
    BY <2>1, <2>5, <2>6, <2>11 DEF PrintInv
  <2>12. QED
    BY <2>7, <2>8, <2>9, <2>10, <2>11
<1>3. QED
  BY <1>1, <1>2, CursorInvariant, NextPrint, PTL DEF Spec
============================================================================
