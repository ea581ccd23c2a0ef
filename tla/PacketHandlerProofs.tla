------------------------ MODULE PacketHandlerProofs ------------------------
(***************************************************************************)
(* Proofs about PacketHandler, for every set of datagrams, port, memory    *)
(* and width of the integers, and the proof that it implements Sniffer.    *)
(***************************************************************************)
EXTENDS PacketHandler, FiniteSetTheorems, TLAPS

\* Blocks are counted as expected.
LEMMA Blocks ==
    /\ Cardinality({}) = 0
    /\ \A b : Cardinality({b}) = 1
BY FS_EmptySet, FS_Singleton

\* What is assumed of the widths and of the datagrams.
LEMMA HandlerFacts ==
    /\ MaxBlocks \in Nat
    /\ IntMod \in Nat /\ MaxPayload \in Nat
    /\ \A d \in Datagrams :
          /\ d.size \in Nat /\ d.size < IntMod \div 2
          /\ d.delta \in 0 .. 255
          /\ d.len \in 0 .. IntMod - 1
          /\ d.size + 5 <= MaxPayload
          /\ "size" \in DOMAIN d.body
BY PacketHandlerAssumption, Zenon DEF RP!WidthsFit

\* What is known of the datagrams.
LEMMA DatagramFacts ==
    \A d \in Datagrams :
        /\ d.size \in Nat /\ d.size < IntMod
        /\ d.size + 5 <= MaxPayload
        /\ d.delta \in Nat
        /\ d.len \in Nat /\ d.len < IntMod
<1> SUFFICES ASSUME NEW d \in Datagrams
             PROVE  /\ d.size \in Nat /\ d.size < IntMod
                    /\ d.size + 5 <= MaxPayload
                    /\ d.delta \in Nat
                    /\ d.len \in Nat /\ d.len < IntMod
  OBVIOUS
<1>1. IntMod \in Nat /\ d.size \in Nat /\ d.size < IntMod \div 2
  BY HandlerFacts
<1>2. d.delta \in 0 .. 255 /\ d.len \in 0 .. IntMod - 1
      /\ d.size + 5 <= MaxPayload
  BY HandlerFacts
<1>3. QED
  BY <1>1, <1>2

\* The remainder of a number that wraps once.
LEMMA WrapsOnce ==
    ASSUME NEW x \in Nat, NEW m \in Nat, m > 0, x >= m, x < 2 * m
    PROVE  x % m = x - m
<1> DEFINE q == x \div m
           r == x % m
<1>1. q \in Int /\ r \in 0 .. m - 1 /\ x = m * q + r
  OBVIOUS
<1> HIDE DEF q, r
<1>2. ASSUME q >= 2 PROVE FALSE
  <2>1. m * q >= m * 2
    BY <1>1, <1>2
  <2>2. QED
    BY <1>1, <2>1
<1>3. ASSUME q <= 0 PROVE FALSE
  <2>1. m * q <= 0
    BY <1>1, <1>3
  <2>2. QED
    BY <1>1, <2>1
<1>4. q = 1
  BY <1>1, <1>2, <1>3
<1>5. r = x - m
  BY <1>1, <1>4
<1>6. QED
  BY <1>5 DEF r

\* The wrapping comparison of FrameFits is the exact one: no length makes the
\* sum wrap to the size of the datagram.
LEMMA FitsIsWellFramed ==
    ASSUME dg \in Datagrams
    PROVE  FrameFits <=> WellFramed(dg)
<1> DEFINE M == IntMod
           x == dg.len + dg.delta + 5
<1>1. /\ M \in Nat /\ dg.size \in Nat /\ dg.size < M
      /\ dg.delta \in Nat /\ dg.len \in Nat /\ dg.len < M
  BY DatagramFacts, HandlerFacts
<1>2. ASSUME FrameFits
      PROVE  WellFramed(dg)
  <2>1. dg.delta > 0 /\ dg.delta + 5 < dg.size /\ x % M = dg.size
    BY <1>2 DEF FrameFits
  <2>2. M > 0 /\ x \in Nat /\ x < 2 * M
    BY <1>1, <2>1
  <2>3. CASE x < M
    <3>1. x % M = x
      BY <1>1, <2>2, <2>3
    <3>2. QED
      BY <1>1, <2>1, <3>1 DEF WellFramed
  <2>4. CASE x >= M
    <3>1. x % M = x - M
      BY <1>1, <2>2, <2>4, WrapsOnce
    <3>2. QED
      BY <1>1, <2>1, <2>4, <3>1
  <2>5. QED
    BY <1>1, <2>2, <2>3, <2>4
<1>3. ASSUME WellFramed(dg)
      PROVE  FrameFits
  <2>1. dg.delta > 0 /\ dg.len > 0 /\ dg.size = dg.delta + 5 + dg.len
    BY <1>3 DEF WellFramed
  <2>2. x = dg.size /\ x \in 0 .. M - 1
    BY <1>1, <2>1
  <2>3. x % M = x
    BY <1>1, <2>2
  <2>4. QED
    BY <1>1, <2>1, <2>2, <2>3 DEF FrameFits
<1>4. QED
  BY <1>2, <1>3

----------------------------------------------------------------------------
(* The invariant *)

\* What is in pDataOut while it is filled, and when it has been.
OutInv ==
    /\ hpc \in {"decrypt", "frame"} =>
          /\ bytesLeft \in 0 .. dg.size
          /\ DOMAIN out = 0 .. dg.size - 1
          /\ Done % blockSize = 0
    /\ hpc = "decrypt" =>
          \A k \in DOMAIN out :
              out[k] = IF k < Done THEN "decrypted" ELSE "unset"
    /\ hpc = "frame" =>
          /\ bytesLeft < blockSize
          /\ \A k \in DOMAIN out :
                out[k] = IF k < Done THEN "decrypted" ELSE "copied"
    /\ hpc \in {"idle", "reading"} => bytesLeft = 0

\* The process stops without payload, without memory, or in a parse.
FaultsKnown ==
    hpc = "fault" =>
        dg.size = 0 \/ rejected + 1 >= MaxBlocks \/ rpc = "fault"

\* Which blocks the handler holds.
LiveInv ==
    /\ leaked = rejected
    /\ hpc = "idle" => live = {}
    /\ hpc \in {"decrypt", "frame"} => live = {"pDataOut"}
    /\ hpc = "reading" => live = {"packetData"}
    /\ FaultsKnown

\* What is known of the frame.
FrameInv ==
    /\ hpc \in {"decrypt", "frame", "reading"} =>
          dg \in Datagrams /\ outcome = "pending"
    /\ hpc = "reading" => WellFramed(dg) /\ packet.size = dg.len
    /\ outcome = "rejected" => dg \in Datagrams /\ ~WellFramed(dg)

HandlerInv == TypeOK /\ OutInv /\ LiveInv /\ FrameInv

\* Before the first datagram.
LEMMA InitHandler == Init => HandlerInv
<1> SUFFICES ASSUME Init PROVE HandlerInv
  OBVIOUS
<1>1. NoDatagram.size = 0
  BY DEF NoDatagram
<1>2. TypeOK
  BY <1>1 DEF Init, TypeOK
<1>3. QED
  BY <1>2 DEF Init, HandlerInv, OutInv, LiveInv, FrameInv,
              FaultsKnown

\* The size of the datagram at hand.
LEMMA SizeType == TypeOK => dg.size \in Nat
<1>1. NoDatagram.size = 0
  BY DEF NoDatagram
<1>2. QED
  BY <1>1, DatagramFacts DEF TypeOK

\* Each action of the handler keeps the invariant.
LEMMA IgnoreKeeps ==
    ASSUME HandlerInv, NEW d \in Datagrams, Ignore(d)
    PROVE  HandlerInv'
<1>1. /\ hpc = "idle" /\ hpc' = "idle" /\ dg' = d /\ outcome' = "ignored"
      /\ bytesLeft' = bytesLeft /\ out' = out /\ live' = live
      /\ leaked' = leaked /\ rejected' = rejected
  BY DEF Ignore, Enter
<1>2. d.size \in Nat
  BY DatagramFacts
<1>3. bytesLeft = 0
  BY <1>1 DEF HandlerInv, OutInv
<1>4. TypeOK'
  BY <1>1, <1>2, <1>3 DEF HandlerInv, TypeOK
<1>5. QED
  BY <1>1, <1>3, <1>4 DEF HandlerInv, OutInv, LiveInv, FrameInv,
                          FaultsKnown

\* A fault at the payload is one without payload or without memory.
LEMMA FaultAtPayloadKeeps ==
    ASSUME HandlerInv, NEW d \in Datagrams, FaultAtPayload(d)
    PROVE  HandlerInv'
<1>1. /\ hpc = "idle" /\ hpc' = "fault" /\ dg' = d /\ outcome' = "fault"
      /\ bytesLeft' = bytesLeft /\ out' = out /\ live' = live
      /\ leaked' = leaked /\ rejected' = rejected
      /\ d.size = 0 \/ malloc_fails
  BY DEF FaultAtPayload, Enter
<1>2. d.size \in Nat
  BY DatagramFacts
<1>3. bytesLeft = 0 /\ live = {} /\ leaked = rejected /\ rejected \in Nat
  BY <1>1 DEF HandlerInv, OutInv, LiveInv, TypeOK
<1>4. TypeOK'
  BY <1>1, <1>2, <1>3 DEF HandlerInv, TypeOK
<1>5. malloc_fails => rejected + 1 >= MaxBlocks
  BY <1>3, Blocks, HandlerFacts DEF malloc_fails
<1>6. FaultsKnown'
  BY <1>1, <1>5 DEF FaultsKnown
<1>7. QED
  BY <1>1, <1>3, <1>4, <1>6 DEF HandlerInv, OutInv, LiveInv, FrameInv

\* A new buffer has nothing in it.
LEMMA ReceiveKeeps ==
    ASSUME HandlerInv, NEW d \in Datagrams, Receive(d)
    PROVE  HandlerInv'
<1>1. /\ hpc = "idle" /\ hpc' = "decrypt" /\ dg' = d /\ outcome' = "pending"
      /\ bytesLeft' = d.size /\ out' = [k \in 0 .. d.size - 1 |-> "unset"]
      /\ live' = live \cup {"pDataOut"}
      /\ leaked' = leaked /\ rejected' = rejected
  BY DEF Receive, Enter
<1>2. d.size \in Nat
  BY DatagramFacts
<1>3. live = {} /\ leaked = rejected
  BY <1>1 DEF HandlerInv, LiveInv
<1>4. TypeOK'
  BY <1>1, <1>2, <1>3 DEF HandlerInv, TypeOK
<1>5. Done' = 0
  BY <1>1, <1>2 DEF Done
<1>6. OutInv'
  BY <1>1, <1>2, <1>5 DEF OutInv, blockSize
<1>7. QED
  BY <1>1, <1>3, <1>4, <1>6 DEF HandlerInv, LiveInv, FrameInv,
                                FaultsKnown

\* Decrypting a block extends the decrypted part of the buffer by it.
LEMMA DecryptBlockKeeps ==
    ASSUME HandlerInv, DecryptBlock
    PROVE  HandlerInv'
<1>1. /\ hpc = "decrypt" /\ hpc' = hpc /\ dg' = dg /\ outcome' = outcome
      /\ bytesLeft >= 8 /\ bytesLeft' = bytesLeft - 8
      /\ live' = live /\ leaked' = leaked /\ rejected' = rejected
      /\ packet' = packet
  BY DEF DecryptBlock, blockSize, rpVars
<1>2. out' = [k \in DOMAIN out |-> IF k \in Done .. Done + 7
                                     THEN "decrypted" ELSE out[k]]
  BY DEF DecryptBlock, blockSize
<1>3. dg.size \in Nat /\ bytesLeft \in 0 .. dg.size /\ Done = dg.size - bytesLeft
  BY <1>1, SizeType DEF HandlerInv, OutInv, Done
<1>4. Done \in Nat /\ Done' = Done + 8
  BY <1>1, <1>3 DEF Done
<1>5. /\ DOMAIN out = 0 .. dg.size - 1 /\ Done % 8 = 0
      /\ \A k \in DOMAIN out :
            out[k] = IF k < Done THEN "decrypted" ELSE "unset"
  BY <1>1 DEF HandlerInv, OutInv, blockSize
<1>6. \A k \in DOMAIN out' :
          out'[k] = IF k < Done' THEN "decrypted" ELSE "unset"
  BY <1>2, <1>4, <1>5
<1>7. DOMAIN out' = 0 .. dg.size - 1 /\ Done' % 8 = 0
  BY <1>2, <1>4, <1>5
<1>8. TypeOK'
  <2>1. out' \in [DOMAIN out' -> {"unset", "decrypted", "copied"}]
    BY <1>2, <1>6
  <2>2. bytesLeft' \in 0 .. dg.size
    BY <1>1, <1>3
  <2>3. QED
    BY <1>1, <2>1, <2>2 DEF HandlerInv, TypeOK
<1>9. OutInv'
  BY <1>1, <1>3, <1>6, <1>7 DEF OutInv, blockSize
<1>10. QED
  BY <1>1, <1>8, <1>9 DEF HandlerInv, LiveInv, FrameInv,
                          FaultsKnown, WellFramed

\* Copying the tail produces the bytes that were left.
LEMMA CopyTailKeeps ==
    ASSUME HandlerInv, CopyTail
    PROVE  HandlerInv'
<1>1. /\ hpc = "decrypt" /\ hpc' = "frame" /\ dg' = dg /\ outcome' = outcome
      /\ bytesLeft < 8 /\ bytesLeft' = bytesLeft
      /\ live' = live /\ leaked' = leaked /\ rejected' = rejected
      /\ packet' = packet
  BY DEF CopyTail, blockSize, rpVars
<1>2. out' = [k \in DOMAIN out |-> IF k \in Done .. Done + bytesLeft - 1
                                     THEN "copied" ELSE out[k]]
  BY DEF CopyTail
<1>3. dg.size \in Nat /\ bytesLeft \in 0 .. dg.size /\ Done = dg.size - bytesLeft
  BY <1>1, SizeType DEF HandlerInv, OutInv, Done
<1>4. Done \in Nat /\ Done' = Done
  BY <1>1, <1>3 DEF Done
<1>5. /\ DOMAIN out = 0 .. dg.size - 1 /\ Done % 8 = 0
      /\ \A k \in DOMAIN out :
            out[k] = IF k < Done THEN "decrypted" ELSE "unset"
  BY <1>1 DEF HandlerInv, OutInv, blockSize
<1>6. \A k \in DOMAIN out' :
          out'[k] = IF k < Done' THEN "decrypted" ELSE "copied"
  BY <1>2, <1>3, <1>4, <1>5
<1>7. DOMAIN out' = 0 .. dg.size - 1 /\ Done' % 8 = 0
  BY <1>2, <1>4, <1>5
<1>8. TypeOK'
  <2>1. out' \in [DOMAIN out' -> {"unset", "decrypted", "copied"}]
    BY <1>2, <1>6
  <2>2. QED
    BY <1>1, <1>3, <2>1 DEF HandlerInv, TypeOK
<1>9. OutInv'
  BY <1>1, <1>3, <1>6, <1>7 DEF OutInv, blockSize
<1>10. QED
  BY <1>1, <1>8, <1>9 DEF HandlerInv, LiveInv, FrameInv,
                          FaultsKnown, WellFramed

\* A rejected frame leaves its one block behind.
LEMMA RejectFrameKeeps ==
    ASSUME HandlerInv, RejectFrame
    PROVE  HandlerInv'
<1>1. /\ hpc = "frame" /\ hpc' = "idle" /\ dg' = dg /\ outcome' = "rejected"
      /\ bytesLeft' = 0 /\ out' = << >> /\ live' = {} /\ ~FrameFits
      /\ leaked' = leaked + Cardinality(live) /\ rejected' = rejected + 1
  BY DEF RejectFrame, LeaveWith
<1>2. /\ live = {"pDataOut"} /\ leaked = rejected /\ dg \in Datagrams
      /\ rejected \in Nat
  BY <1>1 DEF HandlerInv, LiveInv, FrameInv, TypeOK
<1>3. leaked' = rejected' /\ leaked' \in Nat
  <2>1. Cardinality(live) = 1
    BY <1>2, Blocks
  <2>2. QED
    BY <1>1, <1>2, <2>1
<1>4. ~WellFramed(dg)
  BY <1>1, <1>2, FitsIsWellFramed
<1>5. dg.size \in Nat
  BY SizeType DEF HandlerInv
<1>6. TypeOK'
  BY <1>1, <1>2, <1>3, <1>5 DEF HandlerInv, TypeOK
<1>7. QED
  BY <1>1, <1>2, <1>3, <1>4, <1>6 DEF HandlerInv, OutInv, LiveInv,
            FrameInv, FaultsKnown, WellFramed

\* The second allocation fails only when rejected frames left one block free.
LEMMA FaultAtCopyKeeps ==
    ASSUME HandlerInv, FaultAtCopy
    PROVE  HandlerInv'
<1>1. /\ hpc = "frame" /\ hpc' = "fault" /\ dg' = dg /\ outcome' = "fault"
      /\ bytesLeft' = bytesLeft /\ out' = out /\ live' = live
      /\ leaked' = leaked /\ rejected' = rejected /\ malloc_fails
  BY DEF FaultAtCopy
<1>2. live = {"pDataOut"} /\ leaked = rejected
  BY <1>1 DEF HandlerInv, LiveInv
<1>3. rejected + 1 >= MaxBlocks
  BY <1>1, <1>2, Blocks DEF malloc_fails
<1>4. TypeOK'
  BY <1>1 DEF HandlerInv, TypeOK
<1>5. QED
  BY <1>1, <1>2, <1>3, <1>4 DEF HandlerInv, OutInv, LiveInv, FrameInv,
                                FaultsKnown

\* An accepted frame is well formed, and only the packet stays allocated.
LEMMA AcceptFrameKeeps ==
    ASSUME HandlerInv, AcceptFrame
    PROVE  HandlerInv'
<1>1. /\ hpc = "frame" /\ hpc' = "reading" /\ dg' = dg /\ outcome' = outcome
      /\ bytesLeft' = 0 /\ out' = << >> /\ FrameFits
      /\ live' = (live \cup {"packetData"}) \ {"pDataOut"}
      /\ leaked' = leaked /\ rejected' = rejected
      /\ packet' = [dg.body EXCEPT !.size = dg.len]
  BY DEF AcceptFrame, RP!Call
<1>2. live = {"pDataOut"} /\ dg \in Datagrams
  BY <1>1 DEF HandlerInv, LiveInv, FrameInv
<1>3. live' = {"packetData"}
  BY <1>1, <1>2
<1>4. WellFramed(dg)
  BY <1>1, <1>2, FitsIsWellFramed
<1>5. packet'.size = dg.len
  <2>1. "size" \in DOMAIN dg.body
    BY <1>2, HandlerFacts
  <2>2. QED
    BY <1>1, <2>1
<1>6. dg.size \in Nat
  BY SizeType DEF HandlerInv
<1>7. TypeOK'
  BY <1>1, <1>3, <1>6 DEF HandlerInv, TypeOK
<1>8. QED
  BY <1>1, <1>2, <1>3, <1>4, <1>5, <1>7 DEF HandlerInv, OutInv, LiveInv,
            FrameInv, FaultsKnown, WellFramed

\* ReadPacket does not touch what the handler keeps, nor its own arguments.
LEMMA ReadingKeeps ==
    ASSUME HandlerInv, Reading
    PROVE  HandlerInv'
<1>1. /\ hpc' = hpc /\ dg' = dg /\ outcome' = outcome
      /\ bytesLeft' = bytesLeft /\ out' = out /\ live' = live
      /\ leaked' = leaked /\ rejected' = rejected
  BY DEF Reading, handlerVars
<1>2. packet' = packet
  BY DEF Reading, RP!Walk, RP!ReadHeader, RP!ReadCommand, RP!HandleCommand,
         RP!Return
<1>3. hpc = "reading"
  BY DEF Reading
<1>4. QED
  BY <1>1, <1>2, <1>3 DEF HandlerInv, TypeOK, OutInv, LiveInv, FrameInv, Done,
                          FaultsKnown, WellFramed

\* A parse that stops the process leaves the handler where it was.
LEMMA FaultAtParseKeeps ==
    ASSUME HandlerInv, FaultAtParse
    PROVE  HandlerInv'
<1>1. /\ hpc = "reading" /\ hpc' = "fault" /\ dg' = dg /\ outcome' = "fault"
      /\ bytesLeft' = bytesLeft /\ out' = out /\ live' = live
      /\ leaked' = leaked /\ rejected' = rejected /\ rpc' = "fault"
  BY DEF FaultAtParse, RP!ParseFaults
<1>2. TypeOK'
  BY <1>1 DEF HandlerInv, TypeOK
<1>3. QED
  BY <1>1, <1>2 DEF HandlerInv, OutInv, LiveInv, FrameInv, FaultsKnown

\* After ReadPacket nothing stays allocated.
LEMMA FinishKeeps ==
    ASSUME HandlerInv, Finish
    PROVE  HandlerInv'
<1>1. /\ hpc = "reading" /\ hpc' = "idle" /\ dg' = dg /\ outcome' = "read"
      /\ bytesLeft' = bytesLeft /\ out' = out /\ live' = {}
      /\ leaked' = leaked + Cardinality(live \ {"packetData"})
      /\ rejected' = rejected
  BY DEF Finish, LeaveWith
<1>2. live \ {"packetData"} = {} /\ leaked = rejected /\ leaked \in Nat
  BY <1>1 DEF HandlerInv, LiveInv, TypeOK
<1>3. leaked' = leaked
  BY <1>1, <1>2, Blocks
<1>4. TypeOK'
  BY <1>1, <1>2, <1>3 DEF HandlerInv, TypeOK
<1>5. QED
  BY <1>1, <1>2, <1>3, <1>4 DEF HandlerInv, OutInv, LiveInv, FrameInv,
                                FaultsKnown

\* Every step keeps the invariant.
LEMMA NextHandler == HandlerInv /\ [Next]_vars => HandlerInv'
<1> SUFFICES ASSUME HandlerInv, [Next]_vars
             PROVE  HandlerInv'
  OBVIOUS
<1>1. CASE \E d \in Datagrams : Ignore(d) \/ FaultAtPayload(d) \/ Receive(d)
  BY <1>1, IgnoreKeeps, FaultAtPayloadKeeps, ReceiveKeeps
<1>2. CASE Handle
  BY <1>2, DecryptBlockKeeps, CopyTailKeeps, RejectFrameKeeps,
     FaultAtCopyKeeps, AcceptFrameKeeps, ReadingKeeps, FaultAtParseKeeps,
     FinishKeeps DEF Handle
<1>3. CASE UNCHANGED vars
  BY <1>3 DEF vars, handlerVars, rpVars, HandlerInv, TypeOK, OutInv, LiveInv,
              FrameInv, Done, FaultsKnown, WellFramed
<1>4. QED
  BY <1>1, <1>2, <1>3 DEF Next, Faulted

\* HandlerInv holds throughout.
THEOREM HandlerInvariant == Spec => []HandlerInv
<1>1. QED
  BY InitHandler, NextHandler, PTL DEF Spec

\* The types of the handler's variables.
THEOREM HandlerTypeOK == Spec => []TypeOK
<1>1. HandlerInv => TypeOK
  BY DEF HandlerInv
<1>2. QED
  BY <1>1, HandlerInvariant, PTL

\* For every payload size the loop and the copy together produce each byte
\* once, the whole blocks by decryption and the rest by copying.
THEOREM HandlerPayloadRecovered == Spec => []PayloadRecovered
<1>1. HandlerInv => PayloadRecovered
  <2> SUFFICES ASSUME HandlerInv, hpc = "frame"
               PROVE  /\ DOMAIN out = 0 .. dg.size - 1
                      /\ \A k \in DOMAIN out :
                            out[k] = IF k < WholeBlocks
                                       THEN "decrypted" ELSE "copied"
    BY DEF PayloadRecovered
  <2>1. dg.size \in Nat
    BY SizeType DEF HandlerInv
  <2>2. /\ bytesLeft \in 0 .. dg.size /\ bytesLeft < 8
        /\ (dg.size - bytesLeft) % 8 = 0
    BY DEF HandlerInv, OutInv, Done, blockSize
  <2>3. dg.size % 8 = bytesLeft
    BY <2>1, <2>2
  <2>4. WholeBlocks = Done
    BY <2>3 DEF WholeBlocks, Done, blockSize
  <2>5. QED
    BY <2>4 DEF HandlerInv, OutInv
<1>2. QED
  BY <1>1, HandlerInvariant, PTL

\* Exactly the well-formed frames are read, for every offset, length and
\* size, although the comparison wraps.
THEOREM HandlerFramesExact == Spec => []FramesExact
<1>1. HandlerInv => FramesExact
  <2> SUFFICES ASSUME HandlerInv
               PROVE  FramesExact
    OBVIOUS
  <2>1. ASSUME hpc = "reading"
        PROVE  WellFramed(dg) /\ packet.size = dg.len /\ dg.len <= MaxPayload
    <3>1. WellFramed(dg) /\ packet.size = dg.len /\ dg \in Datagrams
      BY <2>1 DEF HandlerInv, FrameInv
    <3>2. /\ dg.size \in Nat /\ dg.delta \in Nat /\ dg.len \in Nat
          /\ dg.size + 5 <= MaxPayload
      BY <3>1, DatagramFacts
    <3>3. dg.size = dg.delta + 5 + dg.len
      BY <3>1 DEF WellFramed
    <3>4. MaxPayload \in Nat
      BY HandlerFacts
    <3>5. QED
      BY <3>1, <3>2, <3>3, <3>4
  <2>2. outcome = "rejected" => ~WellFramed(dg)
    BY DEF HandlerInv, FrameInv
  <2>3. QED
    BY <2>1, <2>2 DEF FramesExact
<1>2. QED
  BY <1>1, HandlerInvariant, PTL

\* Between two datagrams exactly the rejected ones have left a block.
THEOREM HandlerLeaks == Spec => []OnlyRejectedLeak
<1>1. HandlerInv => OnlyRejectedLeak
  BY DEF HandlerInv, LiveInv, OnlyRejectedLeak
<1>2. QED
  BY <1>1, HandlerInvariant, PTL

----------------------------------------------------------------------------
(* PacketHandler implements Sniffer: the refinement mapping Promise.  The   *)
(* walk over a packet is the one of ReadPacketProofs, whose lemmas are used *)
(* for the packets that the datagrams hold.                                 *)

Bodies == {d.body : d \in Datagrams}

RPP == INSTANCE ReadPacketProofs WITH Packets <- Bodies

\* The packets in the datagrams are ones ReadPacket can be called with.
LEMMA BodiesArePackets == RPP!ReadPacketAssumption
<1>1. RPP!WidthsFit
  BY PacketHandlerAssumption, Zenon
     DEF RP!WidthsFit, RPP!WidthsFit, RP!Ints, RPP!Ints
<1>2. ASSUME NEW p \in Bodies
      PROVE  RPP!IsPacket(p)
  <2>1. RP!IsPacket(p)
    BY PacketHandlerAssumption, Zenon DEF Bodies
  <2>2. RP!LaidOut(p) => RPP!LaidOut(p)
    BY Zenon
       DEF RP!LaidOut, RPP!LaidOut, RP!Commands, RPP!Commands, RP!EndOf,
           RPP!EndOf, RP!BodyAt, RPP!BodyAt, RP!Ints, RPP!Ints,
           RP!VarIntBytes, RPP!VarIntBytes
  <2>3. QED
    BY <2>1, <2>2, Zenon DEF RP!IsPacket, RPP!IsPacket, RP!Ints, RPP!Ints,
                             RP!VarIntBytes, RPP!VarIntBytes
<1>3. QED
  BY <1>1, <1>2, Zenon

\* Both names of a step of ReadPacket mean the same.
LEMMA SameStep == RP!Walk \/ RP!ParseFaults => RPP!Next
<1>1. RP!ReadHeader => RPP!ReadHeader
  BY Zenon DEF RP!ReadHeader, RPP!ReadHeader, RP!VarIntsAt, RPP!VarIntsAt,
         RP!VarIntBytes, RPP!VarIntBytes, RP!Taken, RPP!Taken, RP!DataBits,
         RPP!DataBits
<1>2. RP!ReadCommand => RPP!ReadCommand
  BY Zenon DEF RP!ReadCommand, RPP!ReadCommand, RP!VarIntsAt, RPP!VarIntsAt,
         RP!VarIntBytes, RPP!VarIntBytes, RP!Taken, RPP!Taken, RP!DataBits,
         RPP!DataBits, RP!MoreToRead, RPP!MoreToRead, RP!GetNumBytesRead,
         RPP!GetNumBytesRead
<1>3. /\ RP!Body = RPP!Body
      /\ RP!Message = RPP!Message
      /\ \A m : RP!Record(m) = RPP!Record(m)
      /\ \A q, b, n : RP!ParsesAt(q, b, n) = RPP!ParsesAt(q, b, n)
      /\ \A b, d : RP!Sought(b, d) = RPP!Sought(b, d)
      /\ \A x : RP!ToInt(x) = RPP!ToInt(x)
  BY Zenon DEF RP!Body, RPP!Body, RP!GetNumBytesRead, RPP!GetNumBytesRead,
         RP!Message, RPP!Message, RP!Record, RPP!Record, RP!ParsesAt,
         RPP!ParsesAt, RP!InLocalBuffer, RPP!InLocalBuffer, RP!Sought,
         RPP!Sought, RP!ToInt, RPP!ToInt, RP!DataBits, RPP!DataBits
<1>4. RP!SwitchCmd => RPP!SwitchCmd
  BY <1>3, Zenon DEF RP!SwitchCmd, RPP!SwitchCmd
<1>5. RP!HandleCommand => RPP!HandleCommand
  BY <1>3, <1>4, Zenon DEF RP!HandleCommand, RPP!HandleCommand
<1>6. RP!ParseFaults => RPP!ParseFaults
  BY <1>3, Zenon DEF RP!ParseFaults, RPP!ParseFaults
<1>7. RP!Return => RPP!Return
  BY Zenon DEF RP!Return, RPP!Return, RP!MoreToRead, RPP!MoreToRead,
         RP!GetNumBytesRead, RPP!GetNumBytesRead
<1>8. QED
  BY <1>1, <1>2, <1>5, <1>6, <1>7, Zenon DEF RP!Walk, RPP!Walk, RPP!Step,
     RPP!Next

----------------------------------------------------------------------------
(* The walk inside the handler *)

\* The size written into an accepted packet is the one it has.
LEMMA AcceptedBody ==
    ASSUME HandlerInv, AcceptFrame
    PROVE  /\ dg \in Datagrams
           /\ WellFramed(dg)
           /\ [dg.body EXCEPT !.size = dg.len] = dg.body
<1>1. dg \in Datagrams
  BY DEF HandlerInv, FrameInv, AcceptFrame
<1>2. WellFramed(dg)
  BY <1>1, FitsIsWellFramed DEF AcceptFrame
<1>3. /\ dg.size \in Nat /\ dg.delta \in Nat /\ dg.len \in Nat
  BY <1>1, DatagramFacts
<1>4. dg.delta + 5 < dg.size /\ dg.size - dg.delta - 5 = dg.len
  BY <1>2, <1>3 DEF WellFramed
<1>5. dg.body.size = dg.len
  <2>1. dg.delta + 5 < dg.size => dg.body.size = dg.size - dg.delta - 5
    BY <1>1, PacketHandlerAssumption, Zenon
  <2>2. QED
    BY <1>4, <2>1
<1>6. dg.body = [field \in DOMAIN dg.body |-> dg.body[field]]
  BY <1>1, PacketHandlerAssumption, Zenon
<1> DEFINE b == dg.body
<1>7. [b EXCEPT !.size = dg.len] = b
  <2>1. b = [field \in DOMAIN b |-> b[field]] /\ b["size"] = dg.len
    BY <1>5, <1>6
  <2> HIDE DEF b
  <2>2. QED
    BY <2>1
<1>8. QED
  BY <1>1, <1>2, <1>7

\* A step of the handler forgets the last walk, or is one of ReadPacket.
LEMMA WalkStep ==
    ASSUME HandlerInv, [Next]_vars
    PROVE  RPP!Init' \/ [RPP!Next]_RPP!rpVars
<1>1. ASSUME NEW d \in Datagrams, Enter(d)
      PROVE  RPP!Init'
  BY <1>1, Zenon DEF Enter, RPP!Init, RP!NoPacket, RPP!NoPacket, RP!NoCommand,
                     RPP!NoCommand
<1>2. CASE \E d \in Datagrams : Ignore(d) \/ FaultAtPayload(d) \/ Receive(d)
  BY <1>1, <1>2 DEF Ignore, FaultAtPayload, Receive
<1>3. CASE AcceptFrame
  <2>1. dg.body \in Bodies /\ RP!Call(dg.body)
    BY <1>3, AcceptedBody, Zenon DEF AcceptFrame, Bodies
  <2>2. RPP!Call(dg.body)
    BY <2>1, Zenon DEF RP!Call, RPP!Call, RP!NoCommand, RPP!NoCommand
  <2>3. QED
    BY <2>1, <2>2, Zenon DEF RPP!Next
<1>4. CASE Reading \/ FaultAtParse
  BY <1>4, SameStep DEF Reading, FaultAtParse
<1>5. CASE DecryptBlock \/ CopyTail \/ RejectFrame \/ FaultAtCopy \/ Finish
             \/ Faulted \/ UNCHANGED vars
  <2>1. UNCHANGED rpVars
    BY <1>5 DEF DecryptBlock, CopyTail, RejectFrame, FaultAtCopy, Finish,
                Faulted, vars, rpVars
  <2>2. QED
    BY <2>1 DEF rpVars, RPP!rpVars
<1>6. QED
  BY <1>2, <1>3, <1>4, <1>5 DEF Next, Handle

WalkInv == RPP!CursorInv /\ RPP!PrintInv

\* Before a walk.
LEMMA InitWalk == RPP!Init => WalkInv
<1>1. RPP!Init => RPP!CursorInv
  BY BodiesArePackets, RPP!InitCursor
<1>2. RPP!Init => RPP!PrintInv
  BY DEF RPP!Init, RPP!PrintInv, RPP!NoPacket
<1>3. QED
  BY <1>1, <1>2 DEF WalkInv

\* ReadPacket is used as its own proofs take it to be used.
LEMMA NextWalk == HandlerInv /\ WalkInv /\ [Next]_vars => WalkInv'
<1>1. HandlerInv /\ [Next]_vars => RPP!Init' \/ [RPP!Next]_RPP!rpVars
  BY WalkStep
<1>2. WalkInv /\ [RPP!Next]_RPP!rpVars => WalkInv'
  BY BodiesArePackets, RPP!NextCursor, RPP!NextPrint DEF WalkInv
<1>3. QED
  BY <1>1, <1>2, InitWalk, PTL

\* Where a parse has stopped the process.
ParseFaultInv ==
    /\ Undetermined(dg)
    /\ command.cmd \in KnownCmds
    /\ ~RP!InLocalBuffer(RP!Body, command.size)

\* Which packet is read, that nothing is printed before its walk, and that
\* only bytes of an undetermined packet stop the process in a parse.
ShownInv ==
    /\ hpc \in {"decrypt", "frame", "reading"} => FromServer(dg)
    /\ hpc \in {"decrypt", "frame"} => printed = << >> /\ rpc = "returned"
    /\ hpc = "reading" =>
          /\ dg \in Datagrams /\ packet = dg.body
          /\ printed \in Seq(Possible)
    /\ hpc = "fault" /\ rpc = "fault" => ParseFaultInv
    /\ hpc = "idle" => outcome \in {"ignored", "rejected", "read"}
    /\ outcome = "ignored" => ~FromServer(dg)

\* Before the first datagram.
LEMMA InitShown == Init => ShownInv
<1>1. NoDatagram.kind = "other"
  BY DEF NoDatagram
<1>2. QED
  BY <1>1 DEF Init, ShownInv, FromServer

\* What is printed is printed for a known command, from inside the buffer.
LEMMA PrintedPossible ==
    ASSUME WalkInv, RP!HandleCommand, printed \in Seq(Possible)
    PROVE  printed' \in Seq(Possible)
<1> DEFINE new == RP!Message
<1>1. /\ buf \in RPP!Buffers /\ buf.pos % 8 = 0
      /\ buf.pos \in 0 .. RPP!DataBits
      /\ command \in [cmd : Int, size : Int]
  BY DEF WalkInv, RPP!CursorInv, RPP!TypeOK, RPP!Buffers
<1>2. RPP!GetNumBytesRead(buf) \in Nat
      /\ buf.pos = 8 * RPP!GetNumBytesRead(buf)
  BY <1>1, BodiesArePackets, RPP!BytesOfCursor
<1>3. MaxPayload \in Nat /\ RPP!DataBits = 8 * MaxPayload
  BY HandlerFacts DEF RPP!DataBits
<1>4. RPP!GetNumBytesRead(buf) \in 0 .. MaxPayload
  BY <1>1, <1>2, <1>3
<1>5. RP!Body = RPP!GetNumBytesRead(buf)
  BY Zenon DEF RP!Body, RP!GetNumBytesRead, RPP!GetNumBytesRead
<1>6. ASSUME command.cmd \in KnownCmds
      PROVE  new \in Possible
  BY <1>1, <1>4, <1>5, <1>6 DEF RP!Message, Possible
<1>7. \/ printed' = printed
      \/ command.cmd \in KnownCmds /\ printed' = Append(printed, new)
  BY Zenon DEF RP!HandleCommand, RP!SwitchCmd, RP!Record
<1> HIDE DEF new
<1>8. QED
  BY <1>6, <1>7

\* Every step keeps ShownInv.
LEMMA NextShown ==
    ASSUME HandlerInv, WalkInv, ShownInv, [Next]_vars
    PROVE  ShownInv'
<1>1. CASE \E d \in Datagrams : Ignore(d)
  <2>1. PICK d \in Datagrams : Ignore(d)
    BY <1>1
  <2>2. hpc' = "idle" /\ dg' = d /\ outcome' = "ignored" /\ ~FromServer(d)
    BY <2>1 DEF Ignore, Enter
  <2>3. QED
    BY <2>2 DEF ShownInv, FromServer
<1>2. CASE \E d \in Datagrams : FaultAtPayload(d)
  <2>1. hpc' = "fault" /\ rpc' = "returned" /\ outcome' = "fault"
    BY <1>2 DEF FaultAtPayload, Enter
  <2>2. QED
    BY <2>1 DEF ShownInv
<1>3. CASE \E d \in Datagrams : Receive(d)
  <2>1. PICK d \in Datagrams : Receive(d)
    BY <1>3
  <2>2. /\ hpc' = "decrypt" /\ dg' = d /\ outcome' = "pending"
        /\ FromServer(d) /\ printed' = << >> /\ rpc' = "returned"
    BY <2>1 DEF Receive, Enter
  <2>3. QED
    BY <2>2 DEF ShownInv, FromServer
<1>4. CASE DecryptBlock \/ CopyTail
  <2>1. /\ hpc \in {"decrypt"} /\ hpc' \in {"decrypt", "frame"} /\ dg' = dg
        /\ outcome' = outcome /\ printed' = printed /\ rpc' = rpc
    BY <1>4 DEF DecryptBlock, CopyTail, rpVars
  <2>2. outcome = "pending"
    BY <2>1 DEF HandlerInv, FrameInv
  <2>3. QED
    BY <2>1, <2>2 DEF ShownInv, FromServer
<1>5. CASE RejectFrame
  BY <1>5 DEF RejectFrame, LeaveWith, ShownInv
<1>6. CASE FaultAtCopy
  BY <1>6 DEF FaultAtCopy, ShownInv, rpVars
<1>7. CASE AcceptFrame
  <2>1. /\ hpc = "frame" /\ hpc' = "reading" /\ dg' = dg
        /\ outcome' = outcome /\ printed' = << >> /\ packet' = dg.body
    BY <1>7, AcceptedBody DEF AcceptFrame, RP!Call
  <2>2. dg \in Datagrams /\ outcome = "pending"
    BY <2>1 DEF HandlerInv, FrameInv
  <2>3. printed' \in Seq(Possible)
    BY <2>1
  <2>4. QED
    BY <2>1, <2>2, <2>3 DEF ShownInv, FromServer
<1>8. CASE Reading
  <2>1. hpc = "reading" /\ hpc' = hpc /\ dg' = dg /\ outcome' = outcome
    BY <1>8 DEF Reading, handlerVars
  <2>2. packet' = packet
    BY <1>8 DEF Reading, RP!Walk, RP!ReadHeader, RP!ReadCommand,
                RP!HandleCommand, RP!Return
  <2>3. outcome = "pending"
    BY <2>1 DEF HandlerInv, FrameInv
  <2>4. printed \in Seq(Possible)
    BY <2>1 DEF ShownInv
  <2>5. printed' = printed \/ RP!HandleCommand
    BY <1>8 DEF Reading, RP!Walk, RP!ReadHeader, RP!ReadCommand, RP!Return
  <2>6. printed' \in Seq(Possible)
    BY <2>4, <2>5, PrintedPossible
  <2>7. QED
    BY <2>1, <2>2, <2>3, <2>6 DEF ShownInv, FromServer
<1>9. CASE FaultAtParse
  <2>1. /\ hpc = "reading" /\ hpc' = "fault" /\ dg' = dg
        /\ outcome' = "fault" /\ rpc' = "fault" /\ packet' = packet
        /\ buf' = buf /\ command' = command
        /\ command.cmd \in KnownCmds
        /\ "fault" \in RP!ParsesAt(packet, RP!Body, command.size)
    BY <1>9 DEF FaultAtParse, RP!ParseFaults
  <2>2. packet = dg.body /\ FromServer(dg) /\ WellFramed(dg)
    BY <2>1 DEF ShownInv, HandlerInv, FrameInv
  <2>3. ~packet.laidOut
    <3>1. RPP!PrintInv'
      BY NextWalk DEF WalkInv
    <3>2. QED
      BY <2>1, <3>1 DEF RPP!PrintInv
  <2>4. ~RP!InLocalBuffer(RP!Body, command.size)
    <3>1. "fault" # "parsed" /\ "fault" # "refused"
      OBVIOUS
    <3>2. QED
      BY <2>1, <3>1, Zenon DEF RP!ParsesAt
  <2>5. ParseFaultInv
    BY <2>1, <2>2, <2>3, <2>4, Zenon DEF ParseFaultInv, Undetermined
  <2>6. ParseFaultInv'
    BY <2>1, <2>5, Zenon DEF ParseFaultInv, Undetermined, FromServer,
       WellFramed, RP!Body, RP!GetNumBytesRead, RP!InLocalBuffer
  <2>7. QED
    BY <2>1, <2>6 DEF ShownInv
<1>10. CASE Finish
  BY <1>10 DEF Finish, LeaveWith, ShownInv
<1>11. CASE UNCHANGED vars
  <2>1. ParseFaultInv => ParseFaultInv'
    BY <1>11, Zenon DEF vars, handlerVars, rpVars, ParseFaultInv,
       Undetermined, FromServer, WellFramed, RP!Body, RP!GetNumBytesRead,
       RP!InLocalBuffer
  <2>2. QED
    BY <1>11, <2>1 DEF vars, handlerVars, rpVars, ShownInv, FromServer
<1>12. QED
  BY <1>1, <1>2, <1>3, <1>4, <1>5, <1>6, <1>7, <1>8, <1>9, <1>10,
     <1>11
     DEF Next, Handle, Faulted

SnifferInv == HandlerInv /\ WalkInv /\ ShownInv

\* The handler's invariant, the walk's and ShownInv hold together.
THEOREM SnifferInvariant == Spec => []SnifferInv
<1>1. Init => SnifferInv
  <2>1. Init => RPP!Init
    BY Zenon DEF Init, RP!Init, RPP!Init, RP!NoPacket, RPP!NoPacket,
                 RP!NoCommand, RPP!NoCommand
  <2>2. QED
    BY <2>1, InitHandler, InitWalk, InitShown DEF SnifferInv
<1>2. SnifferInv /\ [Next]_vars => SnifferInv'
  BY NextHandler, NextWalk, NextShown DEF SnifferInv
<1>3. QED
  BY <1>1, <1>2, PTL DEF Spec

\* The process stops on datagrams without payload, once rejected frames have
\* left less than two blocks free, or in the parse of a known command whose
\* Size leads out of the local buffer, in a packet that its sender did not
\* lay out: never on a packet that was laid out while there is memory.
THEOREM HandlerFaults == Spec => []FaultsAccounted
<1>1. SnifferInv => FaultsAccounted
  BY Zenon DEF SnifferInv, HandlerInv, LiveInv, FaultsKnown, ShownInv,
     ParseFaultInv, FaultsAccounted
<1>2. QED
  BY <1>1, SnifferInvariant, PTL

\* When the configured port is the one the source names, no framed packet of
\* a datagram from it is passed over.
THEOREM ServerPortParsed ==
    ASSUME CfgPort = ServerPort
    PROVE  Spec => []DesiredPortParsed
<1>1. SnifferInv => DesiredPortParsed
  BY DEF SnifferInv, ShownInv, HandlerInv, FrameInv, DesiredPortParsed,
         Desired, FromServer
<1>2. QED
  BY <1>1, SnifferInvariant, PTL

----------------------------------------------------------------------------
(* The refinement *)

\* A datagram that is not from the server, or not framed, shows nothing.
LEMMA NothingToShow ==
    ASSUME NEW d, ~FromServer(d) \/ ~WellFramed(d)
    PROVE  Messages(d) = {}
BY DEF Messages

\* The handling of a datagram begins, or it is passed over, or it stops the
\* process.
LEMMA EnterImplements ==
    ASSUME NEW d \in Datagrams, Ignore(d) \/ FaultAtPayload(d) \/ Receive(d)
    PROVE  Promise!SnifferNext
<1>1. hpc = "idle" /\ dg' = d /\ printed' = << >>
  BY DEF Ignore, FaultAtPayload, Receive, Enter
<1>2. Promise!Look(d)
  BY <1>1 DEF Promise!Look
<1>3. CASE Ignore(d)
  <2>1. Messages(d) = {} /\ hpc' = hpc
    BY <1>3, NothingToShow DEF Ignore
  <2>2. Promise!Pass(d)
    BY <1>2, <2>1 DEF Promise!Pass
  <2>3. QED
    BY <2>2 DEF Promise!SnifferNext
<1>4. CASE FaultAtPayload(d)
  <2>1. hpc' = "fault"
    BY <1>4 DEF FaultAtPayload
  <2>2. Promise!Fail(d)
    BY <1>2, <2>1 DEF Promise!Fail
  <2>3. QED
    BY <2>2 DEF Promise!SnifferNext
<1>5. CASE Receive(d)
  <2>1. hpc' = "decrypt"
    BY <1>5 DEF Receive
  <2>2. Promise!Begin(d)
    BY <1>2, <2>1 DEF Promise!Begin
  <2>3. QED
    BY <2>2 DEF Promise!SnifferNext
<1>6. QED
  BY <1>3, <1>4, <1>5

\* A frame that does not fit holds nothing to show.
LEMMA RejectImplements ==
    ASSUME SnifferInv, RejectFrame
    PROVE  Promise!SnifferNext
<1>1. /\ hpc = "frame" /\ hpc' = "idle" /\ dg' = dg /\ printed' = printed
      /\ ~FrameFits
  BY DEF RejectFrame, LeaveWith, rpVars
<1>2. ~WellFramed(dg)
  BY <1>1, FitsIsWellFramed DEF SnifferInv, HandlerInv, FrameInv
<1>3. Promise!Missing = {}
  BY <1>2, NothingToShow DEF Promise!Missing
<1>4. Promise!End
  BY <1>1, <1>3 DEF Promise!End
<1>5. QED
  BY <1>4 DEF Promise!SnifferNext

\* A parse stops the process at an undetermined datagram only, whatever that
\* one has shown.
LEMMA ParseFaultImplements ==
    ASSUME SnifferInv, SnifferInv', FaultAtParse
    PROVE  Promise!SnifferNext
<1>1. /\ hpc = "reading" /\ hpc' = "fault" /\ dg' = dg /\ printed' = printed
      /\ rpc' = "fault"
  BY DEF FaultAtParse, RP!ParseFaults
<1>2. Undetermined(dg')
  BY <1>1 DEF SnifferInv, ShownInv, ParseFaultInv
<1>3. Undetermined(dg)
  BY <1>1, <1>2
<1>4. Promise!FailLater
  BY <1>1, <1>3 DEF Promise!FailLater
<1>5. QED
  BY <1>4 DEF Promise!SnifferNext

\* A failing copy fails before anything is shown.
LEMMA FaultImplements ==
    ASSUME SnifferInv, FaultAtCopy
    PROVE  Promise!SnifferNext
<1>1. /\ hpc = "frame" /\ hpc' = "fault" /\ dg' = dg /\ printed' = printed
      /\ printed = << >>
  BY DEF FaultAtCopy, rpVars, SnifferInv, ShownInv
<1>2. Promise!FailLater
  BY <1>1 DEF Promise!FailLater
<1>3. QED
  BY <1>2 DEF Promise!SnifferNext

\* Decrypting and copying show nothing.
LEMMA DecryptStutters ==
    ASSUME SnifferInv, DecryptBlock \/ CopyTail \/ AcceptFrame
    PROVE  UNCHANGED Promise!snifferVars
<1>1. /\ hpc \in {"decrypt", "frame"}
      /\ hpc' \in {"decrypt", "frame", "reading"}
      /\ dg' = dg /\ printed' = printed
  BY DEF DecryptBlock, CopyTail, AcceptFrame, RP!Call, rpVars, SnifferInv,
         ShownInv
<1>2. QED
  BY <1>1 DEF Promise!snifferVars

\* After the walk nothing is missing.
LEMMA FinishImplements ==
    ASSUME SnifferInv, Finish
    PROVE  Promise!SnifferNext
<1>1. /\ hpc = "reading" /\ hpc' = "idle" /\ dg' = dg /\ printed' = printed
      /\ rpc = "returned"
  BY DEF Finish, LeaveWith, rpVars
<1>2. dg \in Datagrams /\ packet = dg.body
  BY <1>1 DEF SnifferInv, ShownInv
<1>3. Promise!Missing = {}
  <2>1. CASE dg.body.laidOut /\ RP!Walked(dg.body)
    <3>1. RPP!PrintedSet = RPP!Before(packet, Len(packet.recs) + 1)
      BY <1>1, <1>2, <2>1
         DEF SnifferInv, WalkInv, RPP!PrintInv, RP!Walked, RPP!Walked
    <3>2. packet \in Bodies
      BY <1>2 DEF Bodies
    <3>3. Len(packet.recs) \in Nat
      BY <1>2, <2>1, <3>2, BodiesArePackets, RPP!LaidOutLen
    <3>4. RPP!Before(packet, Len(packet.recs) + 1) = RPP!ToPrint(packet)
      BY <3>3, BodiesArePackets, RPP!BeforeSteps
    <3>5. RPP!ToPrint(packet) = RP!ToPrint(dg.body)
      BY <1>2, Zenon DEF RP!ToPrint, RPP!ToPrint, RP!BodyAt, RPP!BodyAt
    <3>6. RPP!PrintedSet = Promise!ShownSet
      BY Zenon DEF RPP!PrintedSet, Promise!ShownSet
    <3>7. Messages(dg) \subseteq RP!ToPrint(dg.body)
      BY DEF Messages
    <3>8. QED
      BY <3>1, <3>4, <3>5, <3>6, <3>7 DEF Promise!Missing
  <2>2. CASE ~(dg.body.laidOut /\ RP!Walked(dg.body))
    <3>1. Messages(dg) = {}
      BY <2>2, Zenon DEF Messages
    <3>2. QED
      BY <3>1 DEF Promise!Missing
  <2>3. QED
    BY <2>1, <2>2
<1>4. Promise!End
  BY <1>1, <1>3 DEF Promise!End
<1>5. QED
  BY <1>4 DEF Promise!SnifferNext

\* A message is printed when the walk has reached it, and it is then the
\* first one missing.
LEMMA HandleCommandImplements ==
    ASSUME SnifferInv, hpc = "reading", RP!HandleCommand,
           UNCHANGED handlerVars
    PROVE  Promise!Show \/ Promise!ShowSome \/ UNCHANGED Promise!snifferVars
<1>1. /\ hpc' = hpc /\ dg' = dg /\ rpc = "command"
      /\ dg \in Datagrams /\ packet = dg.body /\ FromServer(dg)
      /\ WellFramed(dg)
  BY DEF handlerVars, RP!HandleCommand, SnifferInv, ShownInv, HandlerInv,
         FrameInv
<1>2. CASE printed' = printed
  BY <1>1, <1>2 DEF Promise!snifferVars
<1>3. CASE printed' # printed /\ ~packet.laidOut
  <2>1. /\ printed' = Append(printed, RP!Message)
        /\ printed \in Seq(Possible)
    BY <1>1, <1>3, Zenon DEF RP!HandleCommand, RP!SwitchCmd, RP!Record,
       SnifferInv, ShownInv
  <2>2. printed' \in Seq(Possible)
    BY <2>1, PrintedPossible DEF SnifferInv
  <2>3. /\ Len(printed') = Len(printed) + 1
        /\ \A i \in 1 .. Len(printed) : printed'[i] = printed[i]
    BY <2>1
  <2>4. Undetermined(dg)
    BY <1>1, <1>3, Zenon DEF Undetermined
  <2>5. Promise!ShowSome
    BY <1>1, <2>2, <2>3, <2>4 DEF Promise!ShowSome
  <2>6. QED
    BY <2>5
<1>4. CASE printed' # printed /\ packet.laidOut
  <2> DEFINE at == RP!GetNumBytesRead(buf)
             new == [cmd |-> command.cmd, at |-> at, size |-> command.size]
  <2>1. /\ command.cmd \in KnownCmds /\ packet.laidOut
        /\ "parsed" \in RP!ParsesAt(packet, at, command.size)
        /\ printed' = Append(printed, new)
    BY <1>4, Zenon DEF RP!HandleCommand, RP!SwitchCmd, RP!Record, RP!Message,
       RP!Body
  <2>2. packet \in Bodies
    BY <1>1 DEF Bodies
  <2>3. RPP!Walked(packet)
    BY <1>1, <2>1 DEF SnifferInv, WalkInv, RPP!PrintInv
  <2>4. PICK i \in 1 .. Len(packet.recs) : RPP!AtCommand(i)
    BY <1>1, <2>1 DEF SnifferInv, WalkInv, RPP!PrintInv
  <2> DEFINE c == packet.recs[i]
  <2>5. /\ buf.pos = 8 * RPP!BodyAt(c)
        /\ command = [cmd |-> c.cmd, size |-> c.size]
        /\ RPP!PrintedSet = RPP!Before(packet, i)
        /\ \A m \in RPP!PrintedSet : m.at < RPP!BodyAt(c)
    BY <2>4 DEF RPP!AtCommand
  <2>6. /\ c \in RPP!Commands
        /\ RPP!ParsesAt(packet, RPP!BodyAt(c), c.size) = {RPP!Answer(c)}
    BY <2>1, <2>2, BodiesArePackets, RPP!LaidOutCommand
  <2>7. RPP!BodyAt(c) \in Nat /\ c.ok \in BOOLEAN
    BY <2>6, BodiesArePackets, RPP!CommandPlaces
  <2>8. at = RPP!BodyAt(c)
    BY <2>5, <2>7 DEF RP!GetNumBytesRead
  <2>9. c.ok /\ c.cmd \in KnownCmds
    <3>1. RP!ParsesAt(packet, at, command.size)
            = RPP!ParsesAt(packet, at, command.size)
      BY Zenon DEF RP!ParsesAt, RPP!ParsesAt, RP!InLocalBuffer,
         RPP!InLocalBuffer
    <3>2. "parsed" \in {RPP!Answer(c)}
      <4>1. command.size = c.size
        BY <2>5
      <4>2. QED
        BY <2>1, <2>6, <2>8, <3>1, <4>1
    <3>3. c.ok
      BY <3>2 DEF RPP!Answer
    <3>4. QED
      BY <2>1, <2>5, <3>3
  <2>10. new = RPP!Msg(c)
    BY <2>5, <2>8 DEF RPP!Msg
  <2>11. /\ new \in RPP!ToPrint(packet) /\ new.at = RPP!BodyAt(c)
         /\ \A n \in RPP!ToPrint(packet) \ RPP!Before(packet, i) :
               new.at <= n.at
    BY <2>1, <2>2, <2>9, <2>10, BodiesArePackets, RPP!FirstMissing
  <2>12. Messages(dg) = RPP!ToPrint(packet)
    <3>1. Messages(dg) = RP!ToPrint(dg.body)
      BY <1>1, <2>1, <2>3, Zenon DEF Messages, RP!Walked, RPP!Walked
    <3>2. QED
      BY <1>1, <3>1, Zenon DEF RP!ToPrint, RPP!ToPrint, RP!BodyAt, RPP!BodyAt
  <2>13. RPP!PrintedSet = Promise!ShownSet
    BY Zenon DEF RPP!PrintedSet, Promise!ShownSet
  <2>14. Promise!Missing = RPP!ToPrint(packet) \ RPP!Before(packet, i)
    BY <2>5, <2>12, <2>13, Zenon DEF Promise!Missing
  <2>15. new \notin RPP!PrintedSet
    BY <2>5, <2>7, <2>11
  <2> HIDE DEF new, at, c
  <2>16. new \in Promise!Missing /\ \A n \in Promise!Missing : new.at <= n.at
    BY <2>5, <2>11, <2>14, <2>15, Zenon DEF c
  <2>17. Promise!Show
    BY <1>1, <2>1, <2>16 DEF Promise!Show
  <2>18. QED
    BY <2>17
<1>5. QED
  BY <1>2, <1>3, <1>4

\* Every step of the handler is a step of the sniffer or shows nothing.
LEMMA NextImplements ==
    ASSUME SnifferInv, [Next]_vars
    PROVE  [Promise!SnifferNext]_Promise!snifferVars
<1>1. CASE \E d \in Datagrams : Ignore(d) \/ FaultAtPayload(d) \/ Receive(d)
  BY <1>1, EnterImplements
<1>2. CASE DecryptBlock \/ CopyTail \/ AcceptFrame
  BY <1>2, DecryptStutters
<1>3. CASE RejectFrame
  BY <1>3, RejectImplements
<1>4. CASE FaultAtCopy
  BY <1>4, FaultImplements
<1>5. CASE Finish
  BY <1>5, FinishImplements
<1>6. CASE Reading
  <2>1. CASE RP!HandleCommand
    <3>1. Promise!Show \/ Promise!ShowSome \/ UNCHANGED Promise!snifferVars
      BY <1>6, <2>1, HandleCommandImplements DEF Reading
    <3>2. QED
      BY <3>1 DEF Promise!SnifferNext
  <2>2. CASE RP!ReadHeader \/ RP!ReadCommand \/ RP!Return
    <3>1. hpc' = hpc /\ dg' = dg /\ printed' = printed
      BY <1>6, <2>2 DEF Reading, handlerVars, RP!ReadHeader, RP!ReadCommand,
                        RP!Return
    <3>2. QED
      BY <3>1 DEF Promise!snifferVars
  <2>3. QED
    BY <1>6, <2>1, <2>2 DEF Reading, RP!Walk
<1>7. CASE FaultAtParse
  <2>1. SnifferInv'
    BY NextHandler, NextWalk, NextShown DEF SnifferInv
  <2>2. QED
    BY <1>7, <2>1, ParseFaultImplements
<1>8. CASE UNCHANGED vars
  BY <1>8 DEF vars, handlerVars, rpVars, Promise!snifferVars
<1>9. QED
  BY <1>1, <1>2, <1>3, <1>4, <1>5, <1>6, <1>7, <1>8 DEF Next, Handle, Faulted

\* packet_loop_handler keeps the sniffer's promise for every network, heap
\* and width of an int: every message of a packet that the server framed and
\* laid out is printed, once, in its place, before the next datagram is
\* looked at.  Nothing is printed for datagrams of others, without a frame or
\* with flags that are not walked; a framed packet that was not laid out
\* prints messages of known commands only, and only such a packet stops the
\* process after something of it was printed.
THEOREM HandlerImplementsSniffer == Spec => ImplementsSniffer
<1>1. Init => Promise!SnifferInit
  BY DEF Init, RP!Init, Promise!SnifferInit
<1>2. SnifferInv /\ [Next]_vars => [Promise!SnifferNext]_Promise!snifferVars
  BY NextImplements
<1>3. QED
  BY <1>1, <1>2, SnifferInvariant, PTL
     DEF Spec, ImplementsSniffer, Promise!SnifferSpec
============================================================================
