----------------------------- MODULE ReadPacket -----------------------------
(***************************************************************************)
(* ReadPacket (sniffles.cpp): walks the commands of one decrypted packet   *)
(* and prints the messages it knows.                                       *)
(*                                                                         *)
(* A packet is known by what decoding finds in it: packet.varints maps     *)
(* byte offsets to the value and the length of the varint that starts      *)
(* there, packet.parses maps offsets to whether the bytes from there on    *)
(* parse as the message that was put there, packet.size is the number of   *)
(* bytes received.  What decoding finds at any other offset is not         *)
(* determined: bytes nobody laid out, or the bytes behind the packet,      *)
(* which the code leaves uninitialized.  A packet whose sender laid it out *)
(* command by command lists them in packet.recs; an arbitrary one has no   *)
(* such list.                                                              *)
(*                                                                         *)
(* The reader is used at its specification, BitStream: a position and the  *)
(* overflow flag.  Offsets and sizes are in bytes, the reader's position   *)
(* in bits.                                                                *)
(***************************************************************************)
EXTENDS Integers, Sequences

CONSTANTS
    Packets,    \* the packets ReadPacket is called with
    MaxPayload, \* NET_MAX_PAYLOAD, the bytes of the local buffer
    IntMod,     \* 2^32: int arithmetic wraps at this modulus
    Values,     \* what decoding an undetermined varint can yield, as an int
    KnownCmds,  \* net_Tick, net_SignonState, svc_ServerInfo, svc_PacketEntities
    MaxShown    \* bound: how many messages of an arbitrary packet are recorded

VARIABLES
    rpc,        \* where ReadPacket is
    packet,     \* packetData and size
    buf,        \* the CBitRead over the local buffer
    command,    \* Cmd and Size of the command being handled
    printed     \* history: the messages printed for this packet, in order

rpVars == <<rpc, packet, buf, command, printed>>

----------------------------------------------------------------------------
(* int arithmetic *)

Ints == (-(IntMod \div 2)) .. ((IntMod \div 2) - 1)

\* The int an exact result wraps to.
ToInt(x) == ((x + IntMod \div 2) % IntMod) - (IntMod \div 2)

----------------------------------------------------------------------------
(* Packets *)

VarIntBytes == 1 .. 5

\* A packet as its sender lays it out: after two 32-bit numbers the flags,
\* 16 bits and another varint; then commands, each the varints Cmd and Size
\* and a message of Size bytes.  A command is known by the offset at which
\* it starts, the lengths of its two varints, and whether its message parses.
Commands ==
    [at : Nat, cmd : Ints, cmdLen : VarIntBytes, size : Nat,
     sizeLen : VarIntBytes, ok : BOOLEAN]

BodyAt(c) == c.at + c.cmdLen + c.sizeLen

EndOf(c) == BodyAt(c) + c.size

LaidOut(p) ==
    /\ p.laidOut
    /\ p.recs \in Seq(Commands)
    /\ 8 \in DOMAIN p.varints
    /\ LET f == p.varints[8]
           u == 8 + f.n + 2
       IN  /\ u \in DOMAIN p.varints
           /\ p.size >= u + p.varints[u].n
           /\ p.recs = << >> => p.size = u + p.varints[u].n
           /\ p.recs # << >> => p.recs[1].at = u + p.varints[u].n
    /\ p.recs # << >> => p.size = EndOf(p.recs[Len(p.recs)])
    /\ \A i \in 1 .. Len(p.recs) :
          LET c == p.recs[i] IN
          /\ i < Len(p.recs) => p.recs[i + 1].at = EndOf(c)
          /\ EndOf(c) <= p.size
          /\ c.size * 8 < IntMod \div 2
          /\ {c.at, c.at + c.cmdLen} \subseteq DOMAIN p.varints
          /\ p.varints[c.at] = [val |-> c.cmd, n |-> c.cmdLen]
          /\ p.varints[c.at + c.cmdLen] = [val |-> c.size, n |-> c.sizeLen]
          /\ BodyAt(c) \in DOMAIN p.parses
          /\ p.parses[BodyAt(c)] = c.ok

\* The header of the longest packet, and the two varints of a command that
\* starts at its last byte, lie inside the local buffer; int positions in the
\* buffer are far from wrapping.
WidthsFit ==
    /\ MaxPayload \in Nat /\ MaxPayload >= 20
    /\ IntMod \in Nat /\ IntMod > 0 /\ IntMod % 256 = 0
    /\ 16 * MaxPayload < IntMod \div 2
    /\ Values \subseteq Ints
    /\ MaxShown \in Nat

\* What a packet handed to ReadPacket is.
IsPacket(p) ==
    /\ p.size \in Nat
    /\ p.size + 10 <= MaxPayload
    /\ p.laidOut \in BOOLEAN
    /\ \A b \in DOMAIN p.varints :
          p.varints[b] \in [val : Ints, n : VarIntBytes]
    /\ p.laidOut => LaidOut(p)

ASSUME ReadPacketAssumption == WidthsFit /\ \A p \in Packets : IsPacket(p)

\* What ReadVarInt32 can find at offset b of the buffer; behind the buffer it
\* finds zeros.
VarIntsAt(p, b) ==
    IF b \in DOMAIN p.varints
      THEN {p.varints[b]}
      ELSE IF b < MaxPayload
             THEN [val : Values, n : VarIntBytes]
             ELSE {[val |-> 0, n |-> 1]}

\* The n bytes from offset b on are bytes of the local buffer.
InLocalBuffer(b, n) == n >= 0 /\ b + n <= MaxPayload

\* What ParseFromArray can do with the message of n bytes at offset b.  It
\* compares neither with the buffer, and with n below zero its end lies in
\* front of its start, where the decoder does not stop: over memory of others
\* it gives either answer, or stops the process.
ParsesAt(p, b, n) ==
    IF ~InLocalBuffer(b, n)
      THEN {"parsed", "refused", "fault"}
      ELSE IF b \in DOMAIN p.parses
             THEN {IF p.parses[b] THEN "parsed" ELSE "refused"}
             ELSE {"parsed", "refused"}

----------------------------------------------------------------------------
(* The reader *)

DataBits == 8 * MaxPayload

\* n bytes are read.
Taken(b, n) ==
    IF b.pos + 8 * n <= DataBits
      THEN [b EXCEPT !.pos = @ + 8 * n]
      ELSE [pos |-> DataBits, overflow |-> TRUE]

\* Fault: the target is not checked.
SoughtUnchecked(b, d) == [b EXCEPT !.pos = ToInt(b.pos + d)]

\* Fault: a seek out of the buffer stays where it was.
SoughtNowhere(b, d) ==
    IF ToInt(b.pos + d) \in 0 .. DataBits
      THEN [b EXCEPT !.pos = ToInt(b.pos + d)]
      ELSE [b EXCEPT !.overflow = TRUE]

\* Fault: the seek is from the start of the buffer.
SoughtFromStart(b, d) ==
    IF d \in 0 .. DataBits
      THEN [b EXCEPT !.pos = d]
      ELSE [pos |-> DataBits, overflow |-> TRUE]

\* SeekRelative(d)
Sought(b, d) ==
    LET target == ToInt(b.pos + d)
    IN  IF target \in 0 .. DataBits
          THEN [b EXCEPT !.pos = target]
          ELSE [pos |-> DataBits, overflow |-> TRUE]

GetNumBytesRead(b) == (b.pos + 7) \div 8

----------------------------------------------------------------------------
\* Fault: the loop waits for the last byte to be reached exactly.
NotAtTheEnd == GetNumBytesRead(buf) # packet.size

\* The condition of the loop.
MoreToRead == GetNumBytesRead(buf) < packet.size

NoCommand == [cmd |-> 0, size |-> 0]

\* The packet is copied to the local buffer and the reader put at its start.
Call(p) ==
    /\ rpc = "returned"
    /\ packet' = p
    /\ buf' = [pos |-> 0, overflow |-> FALSE]
    /\ command' = NoCommand
    /\ printed' = << >>
    /\ rpc' = IF p.size < 8 THEN "returned" ELSE "header"

\* The sequence numbers, the flags and two more numbers.  Only packets
\* without flags, or with the low byte of the flags from 0xE1 on, are walked.
ReadHeader ==
    /\ rpc = "header"
    /\ \E f \in VarIntsAt(packet, 8) :
       \E u \in VarIntsAt(packet, 8 + f.n + 2) :
          /\ buf' = Taken(Taken(Taken(Taken(buf, 8), f.n), 2), u.n)
          /\ rpc' = IF f.val = 0 \/ f.val % 256 >= 225
                      THEN "loop" ELSE "returned"
    /\ UNCHANGED <<packet, command, printed>>

\* The head of the loop: Cmd and Size.
ReadCommand ==
    /\ rpc = "loop"
    /\ MoreToRead
    /\ \E c \in VarIntsAt(packet, GetNumBytesRead(buf)) :
       \E s \in VarIntsAt(packet, GetNumBytesRead(buf) + c.n) :
          /\ command' = [cmd |-> c.val, size |-> s.val]
          /\ buf' = Taken(Taken(buf, c.n), s.n)
    /\ rpc' = "command"
    /\ UNCHANGED <<packet, printed>>

Body == GetNumBytesRead(buf)

Message == [cmd |-> command.cmd, at |-> Body, size |-> command.size]

\* The walk over an arbitrary packet can go back and print for ever: of what
\* it prints the first MaxShown messages are recorded.
Record(m) ==
    IF packet.laidOut \/ Len(printed) < MaxShown
      THEN Append(printed, m) ELSE printed

\* The switch: a message of a known command that parses is printed.
SwitchCmd ==
    \/ /\ command.cmd \in KnownCmds
       /\ "parsed" \in ParsesAt(packet, Body, command.size)
       /\ printed' = Record(Message)
    \/ /\ command.cmd \in KnownCmds
             => "refused" \in ParsesAt(packet, Body, command.size)
       /\ printed' = printed

\* Fault: Size is taken for a number of bits.
HandleInBits ==
    /\ rpc = "command"
    /\ SwitchCmd
    /\ buf' = Sought(buf, command.size)
    /\ rpc' = "loop"
    /\ UNCHANGED <<packet, command>>

\* Fault: only the messages of known commands are skipped.
HandleWithoutSkip ==
    /\ rpc = "command"
    /\ SwitchCmd
    /\ buf' = IF command.cmd \in KnownCmds
                THEN Sought(buf, ToInt(8 * command.size)) ELSE buf
    /\ rpc' = "loop"
    /\ UNCHANGED <<packet, command>>

\* The body of the loop: the message is printed or not, and skipped in any
\* case.
HandleCommand ==
    /\ rpc = "command"
    /\ SwitchCmd
    /\ buf' = Sought(buf, ToInt(8 * command.size))
    /\ rpc' = "loop"
    /\ UNCHANGED <<packet, command>>

\* The parse stops the process.
ParseFaults ==
    /\ rpc = "command"
    /\ command.cmd \in KnownCmds
    /\ "fault" \in ParsesAt(packet, Body, command.size)
    /\ rpc' = "fault"
    /\ UNCHANGED <<packet, buf, command, printed>>

Return ==
    /\ rpc = "loop"
    /\ ~MoreToRead
    /\ rpc' = "returned"
    /\ UNCHANGED <<packet, buf, command, printed>>

Walk == ReadHeader \/ ReadCommand \/ HandleCommand \/ Return

Step == Walk \/ ParseFaults

\* The process is gone.
Faulted ==
    /\ rpc = "fault"
    /\ UNCHANGED rpVars

NoPacket ==
    [size |-> 0, laidOut |-> FALSE, recs |-> << >>,
     varints |-> << >>, parses |-> << >>]

Init ==
    /\ rpc = "returned"
    /\ packet = NoPacket
    /\ buf = [pos |-> 0, overflow |-> FALSE]
    /\ command = NoCommand
    /\ printed = << >>

Next == Step \/ Faulted \/ \E p \in Packets : Call(p)

Spec == Init /\ [][Next]_rpVars

\* ReadPacket runs in the sniffer's only thread until it returns or the process
\* is gone.
FairSpec == Spec /\ WF_rpVars(Step)

----------------------------------------------------------------------------
(* Properties *)

\* The cursor stays inside the local buffer and the ints stay ints.
TypeOK ==
    /\ rpc \in {"returned", "header", "loop", "command", "fault"}
    /\ packet \in Packets \cup {NoPacket}
    /\ buf \in [pos : 0 .. DataBits, overflow : BOOLEAN]
    /\ command \in [cmd : Int, size : Int]
    /\ printed \in Seq([cmd : Int, at : Nat, size : Int])

\* The cursor stands at a byte boundary whenever its byte offset is taken, so
\* that the address given to ParseFromArray, the base pointer plus the bytes
\* read rounded up, is that of the next unread byte: also after a Size * 8
\* that wrapped.
CursorOnByte == buf.pos % 8 = 0

\* A value is only ever read while the overflow flag is clear, where the
\* reader promises the right bits: the one seek that sets the flag leaves
\* the cursor behind the packet, and ends the loop.
NoReadAfterOverflow == buf.overflow => rpc \in {"loop", "returned"}
                                       /\ GetNumBytesRead(buf) >= packet.size

\* The messages of p that are to be printed: of known commands, and parsing.
ToPrint(p) ==
    {[cmd |-> c.cmd, at |-> BodyAt(c), size |-> c.size] :
        c \in {p.recs[i] : i \in {j \in 1 .. Len(p.recs) :
                 p.recs[j].cmd \in KnownCmds /\ p.recs[j].ok}}}

Walked(p) ==
    p.varints[8].val = 0 \/ p.varints[8].val % 256 >= 225

PrintedSet == {printed[i] : i \in 1 .. Len(printed)}

\* The messages printed are the known ones of the packet, each once, in the
\* order in which the packet holds them, with the bytes its sender put there;
\* when ReadPacket returns none is missing.
PrintsTheMessages ==
    packet.laidOut =>
      /\ PrintedSet \subseteq ToPrint(packet)
      /\ \A i, j \in 1 .. Len(printed) :
            i < j => printed[i].at < printed[j].at
      /\ rpc = "returned" /\ Walked(packet) => PrintedSet = ToPrint(packet)

\* The README: "prints out each cmd message that is contained in each packet".
\* Each message that parses is printed, whatever its command.
EachCommandPrinted ==
    packet.laidOut /\ rpc = "returned" =>
        \A i \in {j \in 1 .. Len(packet.recs) : packet.recs[j].ok} :
            BodyAt(packet.recs[i]) \in {m.at : m \in PrintedSet}

\* The walk over a packet that its sender laid out ends, whatever was walked
\* before, and none of its parses stops the process; a command of an arbitrary
\* packet can move the cursor back, or have memory of others parsed.
LaidOutWalkEnds == (packet.laidOut /\ rpc # "returned") ~> (rpc = "returned")

\* A walk over any packet ends, with the process if a parse stops it, unless
\* the cursor is moved back again and again: only a Size that is negative, or
\* whose eightfold wraps, does that.
EndsOrGoesBack ==
    \/ []<>(rpc \in {"returned", "fault"})
    \/ []<><<buf'.pos < buf.pos>>_rpVars
=============================================================================
