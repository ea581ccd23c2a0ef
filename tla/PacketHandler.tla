--------------------------- MODULE PacketHandler ---------------------------
(***************************************************************************)
(* packet_loop_handler (sniffles.cpp): what happens to one captured        *)
(* datagram.  The payload of a datagram from the server's port is          *)
(* decrypted block by block into a new buffer, the frame around the packet *)
(* is checked, the packet is copied out and read.                          *)
(*                                                                         *)
(* A datagram is a record:                                                 *)
(*   kind    "udp", or "other" when it has no IP or no UDP part            *)
(*   sport, dport                                                          *)
(*   size    bytes of payload; a datagram without has no RawPDU            *)
(*   delta   the first byte of the decrypted payload                       *)
(*   len     the big-endian number in the four bytes behind delta further  *)
(*           ones                                                          *)
(*   body    the packet in the bytes that follow (see ReadPacket)          *)
(***************************************************************************)
EXTENDS Integers, Sequences, FiniteSets

CONSTANTS
    Datagrams,  \* the datagrams on the network
    CfgPort,    \* the port in the configuration: the capture filter's port
    MaxBlocks,  \* the blocks that fit the heap: malloc returns NULL then
    MaxPayload, IntMod, Values, KnownCmds, MaxShown     \* see ReadPacket

VARIABLES
    hpc,        \* where packet_loop_handler is
    dg,         \* the datagram being handled, or the last one
    bytesLeft,
    out,        \* how each byte of pDataOut was produced
    live,       \* the blocks the handler has allocated and not freed
    leaked,     \* how many blocks earlier calls have left allocated
    outcome,    \* what became of dg
    rejected,   \* history: how many frames did not fit
    rpc, packet, buf, command, printed      \* see ReadPacket

handlerVars ==
    <<hpc, dg, bytesLeft, out, live, leaked, outcome, rejected>>

rpVars == <<rpc, packet, buf, command, printed>>

vars == <<handlerVars, rpVars>>

RP == INSTANCE ReadPacket WITH Packets <- {d.body : d \in Datagrams}

ASSUME PacketHandlerAssumption ==
    /\ CfgPort \in Nat
    /\ MaxBlocks \in Nat
    /\ RP!WidthsFit
    /\ \A d \in Datagrams :
          /\ d.size \in Nat /\ d.size < IntMod \div 2
          /\ d.delta \in 0 .. 255
          /\ d.len \in 0 .. IntMod - 1
          /\ d.size + 5 <= MaxPayload
          /\ RP!IsPacket(d.body)
          /\ "size" \in DOMAIN d.body
          /\ d.body = [field \in DOMAIN d.body |-> d.body[field]]
          /\ d.delta + 5 < d.size => d.body.size = d.size - d.delta - 5

----------------------------------------------------------------------------
\* Fault: the wrong port.
OtherPort == 27016

\* The port in the source.
ServerPort == 27015

\* IceKey::blockSize()
blockSize == 8

NoDatagram ==
    [kind |-> "other", sport |-> 0, dport |-> 0, size |-> 0, delta |-> 0,
     len |-> 0, body |-> RP!NoPacket]

\* The capture filter "port N" (pcap).
Captured(d) == d.sport = CfgPort \/ d.dport = CfgPort

malloc_fails == leaked + Cardinality(live) >= MaxBlocks

\* A call with the datagram d: the stack frames of earlier calls are gone.
Enter(d) ==
    /\ hpc = "idle"
    /\ Captured(d)
    /\ dg' = d
    /\ rpc' = "returned" /\ packet' = RP!NoPacket
    /\ buf' = [pos |-> 0, overflow |-> FALSE]
    /\ command' = RP!NoCommand /\ printed' = << >>

\* A return while the blocks bs are allocated: nobody has their address any
\* more, and what is in them is forgotten.
LeaveWith(bs) ==
    /\ hpc' = "idle"
    /\ live' = {}
    /\ leaked' = leaked + Cardinality(bs)

FromServer(d) == d.kind = "udp" /\ d.sport = ServerPort

\* A captured datagram the handler returns from at once.
Ignore(d) ==
    /\ Enter(d)
    /\ ~FromServer(d)
    /\ outcome' = "ignored"
    /\ UNCHANGED <<hpc, bytesLeft, out, live, leaked, rejected>>

\* raw->payload() without a RawPDU, or the first use of a NULL pDataOut.
FaultAtPayload(d) ==
    /\ Enter(d)
    /\ FromServer(d)
    /\ d.size = 0 \/ malloc_fails
    /\ hpc' = "fault"
    /\ outcome' = "fault"
    /\ UNCHANGED <<bytesLeft, out, live, leaked, rejected>>

\* The payload is taken and pDataOut allocated.
Receive(d) ==
    /\ Enter(d)
    /\ FromServer(d)
    /\ d.size > 0
    /\ ~malloc_fails
    /\ hpc' = "decrypt"
    /\ bytesLeft' = d.size
    /\ out' = [k \in 0 .. d.size - 1 |-> "unset"]
    /\ live' = live \cup {"pDataOut"}
    /\ outcome' = "pending"
    /\ UNCHANGED <<leaked, rejected>>

\* Fault: the pointers are not advanced.
DoneStuck == 0

\* p1 - pData = p2 - pDataOut
Done == dg.size - bytesLeft

\* Fault: a last, incomplete block is decrypted too.
DecryptLastBlock ==
    /\ hpc = "decrypt"
    /\ bytesLeft > 0
    /\ bytesLeft' = bytesLeft - blockSize
    /\ UNCHANGED <<hpc, dg, out, live, leaked, outcome, rejected, rpVars>>

DecryptBlock ==
    /\ hpc = "decrypt"
    /\ bytesLeft >= blockSize
    /\ out' = [k \in DOMAIN out |->
                 IF k \in Done .. Done + blockSize - 1
                   THEN "decrypted" ELSE out[k]]
    /\ bytesLeft' = bytesLeft - blockSize
    /\ UNCHANGED <<hpc, dg, live, leaked, outcome, rejected, rpVars>>

\* The bytes behind the last whole block are not encrypted.
CopyTail ==
    /\ hpc = "decrypt"
    /\ bytesLeft < blockSize
    /\ out' = [k \in DOMAIN out |->
                 IF k \in Done .. Done + bytesLeft - 1
                   THEN "copied" ELSE out[k]]
    /\ hpc' = "frame"
    /\ UNCHANGED <<dg, bytesLeft, live, leaked, outcome, rejected, rpVars>>

\* Fault: the offset is not compared with the size.
FrameFitsSomehow ==
    dg.delta > 0 /\ (dg.len + dg.delta + 5) % IntMod = dg.size

\* Fault: one byte less in front of the packet.
FrameFitsOffByOne ==
    /\ dg.delta > 0
    /\ dg.delta + 4 < dg.size
    /\ (dg.len + dg.delta + 4) % IntMod = dg.size

\* deltaOffset and dataFinalSize, in uint32 arithmetic.
FrameFits ==
    /\ dg.delta > 0
    /\ dg.delta + 5 < dg.size
    /\ (dg.len + dg.delta + 5) % IntMod = dg.size

\* The handler returns 1; pDataOut is not freed.
RejectFrame ==
    /\ hpc = "frame"
    /\ ~FrameFits
    /\ LeaveWith(live)
    /\ outcome' = "rejected"
    /\ rejected' = rejected + 1
    /\ bytesLeft' = 0
    /\ out' = << >>
    /\ UNCHANGED <<dg, rpVars>>

\* memcpy to a NULL packetData: the test for NULL comes after it.
FaultAtCopy ==
    /\ hpc = "frame"
    /\ FrameFits
    /\ malloc_fails
    /\ hpc' = "fault"
    /\ outcome' = "fault"
    /\ UNCHANGED <<dg, bytesLeft, out, live, leaked, rejected, rpVars>>

\* Fault: pDataOut is not freed.
AcceptAndKeep ==
    /\ hpc = "frame"
    /\ FrameFits
    /\ ~malloc_fails
    /\ live' = live \cup {"packetData"}
    /\ RP!Call([dg.body EXCEPT !.size = dg.len])
    /\ hpc' = "reading"
    /\ bytesLeft' = 0
    /\ out' = << >>
    /\ UNCHANGED <<dg, leaked, outcome, rejected>>

\* packetData is allocated and filled, pDataOut freed, ReadPacket called.
AcceptFrame ==
    /\ hpc = "frame"
    /\ FrameFits
    /\ ~malloc_fails
    /\ live' = (live \cup {"packetData"}) \ {"pDataOut"}
    /\ RP!Call([dg.body EXCEPT !.size = dg.len])
    /\ hpc' = "reading"
    /\ bytesLeft' = 0
    /\ out' = << >>
    /\ UNCHANGED <<dg, leaked, outcome, rejected>>

Reading ==
    /\ hpc = "reading"
    /\ RP!Walk
    /\ UNCHANGED handlerVars

\* A parse in ReadPacket stops the process.
FaultAtParse ==
    /\ hpc = "reading"
    /\ RP!ParseFaults
    /\ hpc' = "fault"
    /\ outcome' = "fault"
    /\ UNCHANGED <<dg, bytesLeft, out, live, leaked, rejected>>

\* Fault: packetData is not freed.
FinishAndKeep ==
    /\ hpc = "reading"
    /\ rpc = "returned"
    /\ LeaveWith(live)
    /\ outcome' = "read"
    /\ UNCHANGED <<dg, bytesLeft, out, rejected, rpVars>>

\* ReadPacket has returned; packetData is freed.
Finish ==
    /\ hpc = "reading"
    /\ rpc = "returned"
    /\ LeaveWith(live \ {"packetData"})
    /\ outcome' = "read"
    /\ UNCHANGED <<dg, bytesLeft, out, rejected, rpVars>>

\* The process is gone.
Faulted ==
    /\ hpc = "fault"
    /\ UNCHANGED vars

Handle ==
    DecryptBlock \/ CopyTail \/ RejectFrame \/ AcceptFrame \/ FaultAtCopy
       \/ Reading \/ FaultAtParse \/ Finish

Init ==
    /\ hpc = "idle"
    /\ dg = NoDatagram
    /\ bytesLeft = 0
    /\ out = << >>
    /\ live = {}
    /\ leaked = 0
    /\ outcome = "ignored"
    /\ rejected = 0
    /\ RP!Init

Next ==
    \/ \E d \in Datagrams : Ignore(d) \/ FaultAtPayload(d) \/ Receive(d)
    \/ Handle
    \/ Faulted

\* The handler runs in the sniffer's only thread until it returns.
Spec == Init /\ [][Next]_vars /\ WF_vars(Handle)

----------------------------------------------------------------------------
(* Properties *)

\* The handler never counts below zero or above the payload, and
\* produces bytes of pDataOut in the two ways it knows.
TypeOK ==
    /\ hpc \in {"idle", "decrypt", "frame", "reading", "fault"}
    /\ dg \in Datagrams \cup {NoDatagram}
    /\ bytesLeft \in 0 .. dg.size
    /\ out \in [DOMAIN out -> {"unset", "decrypted", "copied"}]
    /\ live \subseteq {"pDataOut", "packetData"}
    /\ leaked \in Nat
    /\ rejected \in Nat
    /\ outcome \in {"ignored", "pending", "rejected", "read", "fault"}

\* Bytes before this one are in whole blocks: the sender encrypts those only.
WholeBlocks == dg.size - (dg.size % blockSize)

\* When the frame is checked each byte of the payload has been produced, the
\* encrypted ones by decryption and the others by copying, whatever the size.
PayloadRecovered ==
    hpc = "frame" =>
        /\ DOMAIN out = 0 .. dg.size - 1
        /\ \A k \in DOMAIN out :
              out[k] = IF k < WholeBlocks THEN "decrypted" ELSE "copied"

\* A frame: the offset, as many further bytes, the length, and as many bytes
\* as the length says.
WellFramed(d) == d.delta > 0 /\ d.len > 0 /\ d.size = d.delta + 5 + d.len

\* The wrapping comparison accepts the well-formed frames only, and all of
\* them: the copy reads no byte from outside pDataOut, ends with its last
\* byte, and fits the local buffer of ReadPacket.
FramesExact ==
    /\ hpc = "reading" =>
          /\ WellFramed(dg)
          /\ packet.size = dg.len
          /\ packet.size <= MaxPayload
    /\ outcome = "rejected" => ~WellFramed(dg)

\* A datagram whose frame is accepted leaves no block behind, and a rejected
\* one leaves one: that is what is allocated between two datagrams.
OnlyRejectedLeak == hpc = "idle" => live = {} /\ leaked = rejected

\* A frame of the server around a packet that it did not lay out: what the
\* walk over it finds is not determined.
Undetermined(d) == FromServer(d) /\ WellFramed(d) /\ ~d.body.laidOut

\* While rejected datagrams have left two blocks free, the process is stopped
\* by a datagram without payload, or by a framed packet that its sender did
\* not lay out, at a message of a known command whose Size leads out of the
\* local buffer; a packet that was laid out never stops it.
FaultsAccounted ==
    hpc = "fault" =>
        \/ dg.size = 0
        \/ rejected + 1 >= MaxBlocks
        \/ /\ Undetermined(dg)
           /\ rpc = "fault"
           /\ command.cmd \in KnownCmds
           /\ ~RP!InLocalBuffer(RP!Body, command.size)

\* A server packet from the port the user asked for.
Desired(d) ==
    /\ d.kind = "udp" /\ d.sport = CfgPort
    /\ d.size > 0
    /\ WellFramed(d)

\* The README: "Parses packets coming from desired port".
DesiredPortParsed ==
    hpc = "idle" /\ Desired(dg) => outcome = "read"

\* Every datagram whose packet is laid out by its sender is dealt with, and
\* if it is framed its messages have then been printed, known ones all.
LaidOutHandled ==
    \A d \in {e \in Datagrams : e.body.laidOut /\ WellFramed(e)} :
        (hpc = "decrypt" /\ dg = d)
          ~> \/ hpc = "fault"
             \/ /\ outcome = "read" /\ dg = d
                /\ RP!Walked(d.body) => RP!PrintedSet = RP!ToPrint(d.body)

\* The messages a datagram has to show: the known ones of a packet that the
\* server laid out, framed and sent with flags that are walked.
Messages(d) ==
    IF FromServer(d) /\ WellFramed(d) /\ d.body.laidOut
         /\ RP!Walked(d.body)
      THEN RP!ToPrint(d.body) ELSE {}

\* What a walk over undetermined bytes can take for a message.
Possible == [cmd : KnownCmds, at : 0 .. MaxPayload, size : Int]

Promise == INSTANCE Sniffer WITH
    status <- CASE hpc = "idle" -> "waiting"
                [] hpc = "fault" -> "stopped"
                [] OTHER -> "handling",
    datagram <- dg,
    shown <- printed

\* The handler keeps what the sniffer promises, datagram after datagram: each
\* message of a server's packet is printed once and in its place, none is
\* left out before the next datagram is taken, whatever was rejected or
\* ignored before.  Nothing is printed for datagrams of others, for ones
\* without a frame and for laid out packets whose flags are not walked.  A
\* framed packet that its sender did not lay out prints messages of known
\* commands, if any, and only such a one can stop the process after it printed
\* something.
ImplementsSniffer == Promise!SnifferSpec
============================================================================
