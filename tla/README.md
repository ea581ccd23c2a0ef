# A TLA+ model of Sniffles

Sniffles captures the UDP traffic of a CS:GO server, decrypts each datagram,
walks the commands of the packet inside and prints the messages it knows. It is
a Windows console program with one thread; its own code is in `src/Sniffles`.
Everything else in the repository is third-party (WinPcap, libtins, protobuf,
snappy) or generated from protocol definitions. There are no tests.

This directory holds modules that model the program's own code, TLC models that
check them on small instances, and proofs, checked by TLAPS, for every value of
the constants. `PROJECT.json` lists the runs, the source lines each definition
stands for, the hazards the properties are aimed at, and the findings.

## The system

| Component | State | Operations | Correct when |
|---|---|---|---|
| Startup, `_tmain` (`sniffles.cpp`) | the dialogue, device list, device and port | use or create the configuration, choose device and port, store them, listen | it listens on what was chosen, and stores it |
| Configuration (`cfg.h`, `mem.h`) | `g_config` in memory, the file `cfg` | load, create, look a value up, replace a value, save | the next start finds what was stored, whatever bytes the values have and wherever the process ended |
| Device list (`net.h`) | the list `pcap_findalldevs` gives, new at each start | enumerate | the stored number denotes a device |
| Datagram handler, `packet_loop_handler` (`sniffles.cpp`) | the buffers of one call | decrypt block by block, copy the tail, check the frame, call `ReadPacket` | the payload is recovered, exactly the well-formed frames are read, no memory is lost |
| ICE cipher, `IceKey` (`ice.cpp`) | key schedule | constructor, `set`, `encrypt`, `decrypt` | decryption inverts encryption; every round has a subkey |
| Packet walk, `ReadPacket` (`sniffles.cpp`) | a `CBitRead` over a copy of the packet | header, then command after command: decode, print if known, skip | the known messages are printed, each once and in order; the walk ends |
| Bit reader, `CBitRead` (`packetbitbuf.*`) | pointer, bit count, current word, overflow flag | open, seek, read 1 to 32 bits | reads return the bits of the buffer in order, and zero with the flag set behind its end |
| Composite decoders of `CBitRead` | none of their own | varints, strings, coordinates, normals, angles | they return what a sender wrote for them and stop behind it; the flag tells when they ran out |
| LZSS codec, `CLZSS` (`lzss.*`) | window of positions in linked lists | `Compress`, `Uncompress` | uncompressing gives the input back |
| `CPacket` (`packet.h`) | a copy of a packet and a position | sequential reads | unused by the program |
| Strings, output, types (`str.h`, `err.h`, `platform.h`, ...) | none that matters | | |

The parts call one another in one direction. `_tmain` reads or creates the
configuration, lets the user choose, saves, and hands libtins a callback with a
capture filter for the port. For each captured datagram libtins calls
`packet_loop_handler`, which makes an `IceKey`, decrypts, checks the frame and
calls `ReadPacket`; that reads through a `CBitRead`. The codec is part of the
tree and is called by nothing. Startup and handler share no state but the port,
which the handler does not take from the configuration.

What is hard here is not concurrency: there is one thread. It is that state is
kept twice and must agree (pointer, bit count and word of the reader; the links
and the window of the codec; the configuration in memory and in the file), that
numbers come from outside and are used in arithmetic that wraps, that a loop
moves a cursor by such a number, that buffers are freed on some paths, and that
the process can be ended and started again on another set of devices.

## Modules

| Module | Models | Notes |
|---|---|---|
| `BitWords` | 32-bit words and their shifts and masks | bits are symbolic: bit *k* of the buffer, 0, or unknown |
| `BitStream` | what a bit reader promises | abstract specification |
| `BitRead` | `CBitRead`: `StartReading`, `Seek`, `SeekRelative`, `ReadUBitLong`, `ReadSBitLong`, `ReadOneBit`, `ReadBit` | implements `BitStream` |
| `BitFields` | the decoders of `CBitRead` that make several reads: varints and zigzag, `ReadUBitVar`, `ReadVarUBit`, plain integers, strings, raw bits, coordinates, normals, angles, floats | extends `BitRead`: every read is an action of the reader |
| `FieldLayouts` | fields as a sender writes them, with the values to be read | inputs of `BitFields` |
| `Sniffer` | what the program promises its user | abstract specification, implemented by `PacketHandler` |
| `ReadPacket` | `ReadPacket` | uses the reader at its promise: a cursor and a flag |
| `PacketLayouts` | packets as a sender lays them out, and packets whose contents are arbitrary | inputs of the two modules around it |
| `PacketHandler` | `packet_loop_handler`, with an instance of `ReadPacket` | composition; the decryption of a block at its effect |
| `IceTables`, `IceKey` | `ice.cpp` | exact: words are sets of bit numbers |
| `Lzss` | `lzss.cpp` | one compression and one decompression, node by node |
| `Setup` | `_tmain`, `cfg.h`, the device list | the configuration is a sequence of bytes |
| `BitReadProofs`, `BitFieldsProofs`, `ReadPacketProofs`, `PacketHandlerProofs`, `IceKeyProofs`, `SetupProofs`, `LzssProofs` | | theorems about the module they are named after; `PacketHandlerProofs` also has the one that `PacketHandler` implements `Sniffer`, and uses `ReadPacketProofs` through an instance |
| `RoundTripProofs` | | `Uncompress` gives back what `CompressNoAlloc` was given; extends `LzssProofs` |
| `MC...` | | constants for TLC |

Some modules hold definitions whose comment starts with "Fault:". No
specification uses them. Each is a variant of the definition it precedes, with
one plausible mistake; put in its place it makes a property fail, which shows
that the property is about that code (`PROJECT.json`, "mutants").

### The bit reader

`rd` holds the members of `CBitRead`. A buffer is opened so that its odd bytes
(size mod 4) come first: then the pointer, which advances by whole dwords,
meets `m_pBufferEnd` exactly, and the end test can be an equality. `Aligned`
states this, `InStep` that the word holds the bits the pointer and the count
say it holds, `LoadsInBounds` that no dword outside the buffer is loaded.
`ImplementsStream` says that every operation is one of `BitStream`. That
specification is exact about what clients get: reads inside the buffer, a read
that runs out (zero, flag set, position at the end), seeks, and the one state
in which nothing is promised: after an overflow and a seek back a read that
straddles two words returns 0, since it takes the sticky flag for its own.

`history` components (`inBounds`, `call`) record what happened and influence
nothing. `InBuffer` and `LoadEagerly` keep the load that `ReadBit` makes apart
from the others: `LoadsInBounds` is about the reads and seeks that test before
they load, `EagerLoadsInBounds` about `ReadBit`, and fails.

### The composite decoders

A decoder has no state but its locals, and these are functions of the values it
has read so far. So each of them is two operators on the sequence of these
values: the reads it is known to make (`VarIntReads`, `CoordReads`, ...; the next
read is the one behind the values there are) and what it returns (`ReadVarInt`,
`ReadBitCoord`, ...). `ReadNext` makes the next read of the call in progress, as
the action `ReadUBitLong`, `ReadSBitLong` or `ReadOneBit` of `BitRead`, so that
words, straddling, the end of the buffer and the sticky flag are all below them.
Integers are sets of bit numbers, so 64-bit values and `& 0x7F`, shifts out of
the word and zigzag are exact. Coordinates and normals are integers in units of
their resolution; multiplication by a power of two is exact in the code's
floats. Of the z of `ReadBitVec3Normal`, a square root, only the sign is kept.

`FieldLayouts` is the sender: from the value to be sent it writes the bits, by
the format and not by the decoder, and says which calls have to return what.
`SentIsRead` compares. `PlainRun` is a decoder that reads from a string of bits
instead, without words, counts and a flag: `ReadsInPlace` says that as long as
there are bits a call on the reader has got the same values and is at the same
bit as this one, whatever happened to the reader before. `FlagIsExact` is about every call, also on bits that no
sender wrote or that end too early: flag and cursor say exactly whether the
bits asked for were there. It has one exception, which the run found: at the end
of a buffer of less than four bytes single-bit reads go on unnoticed, since the
count is zero there and is decremented past the test.

### The packet walk

`buf` is the position and flag of the reader. `packet.varints` says what is at
the offsets where a sender put a varint; anywhere else, and in arbitrary
packets, decoding yields any of `Values` and any length of one to five bytes.
`int` arithmetic wraps modulo `IntMod`, as the x86 build does, in `Size * 8`, and
again in `SeekRelative`.

`ParsesAt` is `ParseFromArray` of the protobuf library in the tree, at its entry:
`CodedInputStream` takes the address and the `Size` as they come. If these bytes
are bytes of the local buffer the parser stays among them, and parses or refuses
the message. `ReadPacket` compares `Size` with nothing, so it can also be
negative, or larger than what is left of the buffer on the stack: then the parser
may do either over memory of others, or stop the process (`ParseFaults`). What is
printed is recorded for every packet; as the walk over an arbitrary packet can go
back and print for ever, of such a one the first `MaxShown` messages.

### The datagram handler

A datagram has a source port, a payload size, and the two numbers a frame is
checked with. `out` says for each byte of `pDataOut` how it was produced.
`live` and `leaked` count heap blocks; `malloc` fails when `MaxBlocks` are in
use. The comparison of the frame is in uint32 arithmetic, modulo `IntMod`.
The process is stopped in three places: `FaultAtPayload` (no payload, or no
memory for the output), `FaultAtCopy` (no memory for the packet) and
`FaultAtParse` (the walk). `FaultsAccounted` says what can lead there, and that a
packet as its sender lays it out does not.

`Sniffer` is what the handler and the walk promise together, without buffers,
frames and cursors: a datagram is looked at, its messages are shown first to
last, and only then is it done with; one that is not a server's, or not framed,
shows nothing. Bytes that the server framed and that are no packet as it lays
them out are `Undetermined`: they can show anything that looks like a message of
a known command (`Possible`), and stop the process at any point. A failure on any
other datagram comes before anything of it was shown. The mapping takes `hpc` for
the status and `printed` for what is shown. `Messages` is given by the datagram
alone, so the refinement joins the port, the frame, the header's flags and the
walk: no step between them can lose, repeat or invent a message of a packet that
was laid out.

### The cipher

All of `ice.cpp` that computes something: Galois field arithmetic, P-box,
S-boxes, the round function, the key schedule and both loops. A word is the set
of its bits, so xor is a symmetric difference. In the key schedule the four
shift registers are given in closed form: bit *t* that a register gives is its
bit *t* mod 16, inverted once for every time round.

### The codec

The output is bytes, so the packing of a distance and a length, and the command
bytes with their shifts, are what the code does. `HashLists` says what the
linked lists must be: exactly the positions in the window, the last one first.

### Startup and configuration

`End` ends the process at any point, `CreateFile` and `WriteDefault` are the
two effects that creating the file has, and `SetValue` covers what `realloc`
may do: keep the block, shrink it (the code still reads behind the new end), or
move it, which it may do whether the size grows, shrinks or stays; then both
writes go to the block that was released, and the new one has the old bytes. On the first start the configuration is a static array and `realloc`
of it ends in `fault`. `unread` says that something is on stdin that is not a
number. `getchar` takes the first letter of an answer to "Y or N?", so the rest
of a word is in front of the prompt for the device, and `scanf` never takes it:
`Stuck` is the set of states in which a prompt repeats for ever. The port is read
into a variable nobody has set (`StackPorts`), which is taken for the answer if
`scanf` finds no number. `scanf` stores four bytes where an `unsigned short` is
declared: the lower two are the port. `memcpy` with overlapping operands is taken to copy as
`memmove`, as the Microsoft run-time does.

## Runs

| Run | Shows |
|---|---|
| `bitread` | reads, `ReadBit` among them, and seeks in every mix on buffers of 1, 3, 4, 6 and 8 bytes: all properties of the reader |
| `bitread_readbit` | violation: `ReadBit` loads the dword at the end of the buffer |
| `bitfields` | every decoder on what its sender wrote, at other places and across the end: `SentIsRead`, `ReadsInPlace`, `FlagIsExact`, and that every call returns, `ReadString` without a terminator too |
| `readpacket` | `CursorOnByte`, `NoReadAfterOverflow`, `PrintsTheMessages` on laid out and arbitrary packets with negative and wrapping sizes; laid out packets are walked to their end; any other walk ends, stops the process at a parse that leaves the buffer, or moves the cursor back again and again |
| `readpacket_each` | violation: messages of other commands and flags are not printed |
| `handler` | `PayloadRecovered`, `FramesExact`, `OnlyRejectedLeak`, `FaultsAccounted`, that laid out datagrams are printed in the end, and that the handler implements `Sniffer` |
| `handler_port` | violation: with another configured port nothing is parsed |
| `icekey` | exact cipher with thin, one- and two-part keys: inverse, complete schedule, S-box rows that are permutations |
| `lzss` | windows of 8 and 32 bytes: round trip, lists, longest match, output inside its buffer, termination; distances of one and of two bytes |
| `setup` | `StoredIsUsed`, `FileKeepsItsSize`, `KnownFailures` over any number of starts; the dialogue ends or a prompt is stuck for a known reason |
| `setup_device` | violation: the device index is not checked |
| `setup_move` | violation: a block that `realloc` moved, whatever its new size, does not get the new value |

Bounds, and why they are enough:

- *Reader.* The sizes have every kind of head (none, one, two and three bytes
  with and without a dword behind it), the widths fit, leave a rest and
  straddle, the positions are the ends, the head and outside. `MaxRun` limits
  how far single-bit reads go behind the end, where each step is alike. The
  proofs have no such bounds.
- *Decoders.* Each form of each field with the least and the largest values it
  holds, a cell coordinate whose 32 bits are a negative `int` among them, several
  fields one behind the other so that they start at odd bits and
  cross dwords, in buffers with every kind of head; the calls of a buffer also
  at the places of each other's fields and after seeks to eleven places, and on
  buffers of ones (no varint, string or vector ends there): every decoder on 3
  bytes, those of several reads on 5, the longest two on 12. `MaxReads` = 20 is above the reads of every
  decoder but `ReadString`, whose reads behind it are all alike; `MaxRun` = 8 is
  the `MaxRun` of the reader: no decoder makes more single-bit reads behind the
  end.
- *Walk and handler.* `IntMod` = 2048 instead of 2^32, so that sizes that wrap
  are small numbers, and a local buffer of 48 bytes instead of 262140. Packets
  have up to a few commands: known, unknown, empty, not parsing. `Values`, which
  arbitrary packets hold, has flags that are walked and not, known and unknown
  commands, and sizes that are negative, zero, inside the buffer, behind it, and
  whose eightfold wraps to both signs. `MaxShown`, how many messages of an
  arbitrary packet are recorded, is 1 for the walk and 2 for the handler: enough
  for a stop after a print, and for one print behind another. The proofs are for
  every modulus, buffer size and `MaxShown` that the assumptions allow.
- *Handler.* `MaxBlocks` = 3: one block more than a datagram uses, so that one
  rejected datagram is survived and the next allocations fail.
- *Cipher.* Sample keys and blocks; the inverse is proved for all.
- *Codec.* Windows of 8 and 32 bytes (the size is a parameter of the class) and
  periodic inputs with periods below, at and above it: too short, given up, and
  compressed. The input must be 17 bytes longer than its compressed form, so
  inputs are long and there is one behaviour for each.
- *Startup.* Ports with a `'|'` in no, the first and the second byte;
  `MaxFile` = 28 lets the file of 19 bytes grow twice and shrink again. Answers
  are valid, refused, out of range and text, at both prompts and left over from
  the question before them; stack contents are a port and zero.

Symmetry is not used: positions, sizes and bytes are numbers.

Fairness. `ReadPacket`, `packet_loop_handler`, the decoders and the codec are
sequential code that nothing can suspend: once called they go on, so weak
fairness of their steps is what the thread gives. Nothing is assumed about
datagrams arriving. `DialogueEnds` is a property of a user who answers: weak
fairness of a valid answer at each question, and no assumption on what else is
typed in between; without it no prompt could be left. Deadlock is checked except for the codec, which stops when its
call is done.

## Proofs

All theorems hold for every value of the constants that the assumptions in the
modules allow: any buffer sizes, widths, positions; any set of packets with the
shape a sender gives them; any datagrams; any levels, keys and blocks; any
machines, answers and numbers of starts; any inputs, addresses and window sizes.
Each invariant named below was checked by TLC on the run's instance before it
was proved.

- `BitReadProofs`. `IInv` = `TypeOK`, `Aligned`, `InStep`, `LoadsInBounds`. They
  are inductive only together: without the alignment the pointer could step over
  the end, and without `InStep` a straddling read would merge wrong bits. Each
  operation has a lemma saying what it does to a good reader; from these follow
  `ReaderTypeOK`, `ReaderInStep`, `ReaderAligned`, `ReaderLoadsInBounds` and,
  with the mapping in
  `BitRead`, `ReaderImplementsStream` (initial states and steps; the stream has
  no fairness).
- `BitFieldsProofs`. `FieldInv` is `IInv` with `FieldOK`, whose part `Tracks`
  relates the reader to the call: while the flag was clear at its start, the
  cursor is as many bits behind the start as were asked for, or at the end, and
  then the flag is set. It needs the reader's alignment, since a single-bit read
  notices the end only by the count. From it follow `FieldsFlagIsExact` and,
  because each step of a decoder is a step of the reader or leaves it alone,
  `FieldsUseReader`: all that is proved of `BitRead` holds below the decoders,
  for every buffer and call. `ZigZagInverse` is for every width.

  `FieldsReadInPlace`: `ReadsInPlace` is inductive with `FieldInv`, since a good
  reader merges the right bits of two words (`ReadsVal`) and its cursor is where
  the plain one is (`Tracks`). That the recursion of `PlainRun` has a solution is
  `RunExists`, a least counterexample under `<`.

  `FieldsSentIsRead` has the hypothesis `AllSent`: of every field that a buffer
  lists, the decoder on plain bits makes some number of reads, all inside the
  buffer, and returns the value. It says nothing of words or of what was read
  before; that the reader then returns the same, from any place and after any
  seeks, is the theorem. `SentInv` carries it through the reads of a call.
  `IntegersAreRead` proves the hypothesis for every buffer of integers, whatever
  their values (`IntegerField`: the groups of a varint, the forms of the two
  encodings of selected size, bytes and words): `VarIntRun` follows the groups of
  a varint to the last one, the one without bit 7, `VarIntValue` puts them
  together again, and `TwoPartsSent` handles the encodings with one or two reads.
  Evaluated by TLC on the buffers of the run, `AllSent` is true of all fields and
  `IntegerField` of the integers among them.
- `ReadPacketProofs`. `CursorInv` says where the cursor and the flag are at each
  place of the code; the multiple of 8 survives every wrap because 8 divides the
  modulus. `PrintInv` adds, for laid out packets, that at the head of the loop
  the cursor is at the start of some command and exactly the messages before it
  have been printed; and that no parse stops the walk, since the bytes of every
  message then lie in the packet, and so in the local buffer. Theorems:
  `WalkTypeOK`, `WalkOnBytes`,
  `WalkNoReadAfterOverflow`, `WalkPrintsTheMessages`.
- `PacketHandlerProofs`. `HandlerInv` joins what is in the output buffer
  (`OutInv`), which blocks are allocated (`LiveInv`) and what is known of the
  frame (`FrameInv`). The key lemma is `FitsIsWellFramed`: although the sum
  wraps, the comparison accepts exactly the well-formed frames, because payload
  and offset are small. Theorems: `HandlerTypeOK`, `HandlerPayloadRecovered`,
  `HandlerFramesExact`, `HandlerLeaks`.

  `HandlerImplementsSniffer`. The walk inside the handler is the one of `ReadPacketProofs`,
  for the packets that are in datagrams: `BodiesArePackets` proves that the
  assumption of `ReadPacket` holds for them, and `WalkStep` that each step of the
  handler is one of the walk, leaves it alone, or forgets it. So `CursorInv` and
  `PrintInv` hold inside the handler too. `ShownInv` ties them to the datagram:
  which packet is being walked, and what has been printed when the handler is
  somewhere else, and which command a parse that stopped the process was at.
  `HandlerFaults` rests on it and on `PrintInv`, by which a stop at a parse means
  that the packet was not laid out. `NextImplements` then maps every action to a step of `Sniffer`
  or a stutter; the case that carries the proof is `HandleCommand`, where the
  message printed must be the first one of the packet that is still missing, or,
  in a packet that was not laid out, one more of those that are possible there.
  `ServerPortParsed` has the hypothesis that the configured port is the one in
  the source; without it the property is false (run `handler_port`).
- `SetupProofs`. `SetupInv` says what may be in the file and in `g_config`.
  `Shape`: a device of one byte below 124 (so no `'|'`) and three zero bytes, a
  delimiter, and the port's two bytes behind it. It is what is left when a port
  contains a `'|'`: then the next edit cuts the value short and the block may
  grow or shrink, but the places of both values stay. `Clean` adds that no port
  had one; then the size is that of the default file. `StoredInv` follows the
  two numbers from the dialogue through `SetPort`, `SetDevice` and `Save`, as long
  as no block moved, and `End` may come between any two of these. A block that
  moved (`MovedBlock`) keeps its shape, so what was lost is the value and not the
  places. The assumption that lists have at most 123 devices is stronger than the
  code and is needed: the byte of device 124 is the delimiter, and from then on
  the lookup of the port would start inside the device.
- `LzssProofs`. `CompressInv` has the types and `Room`: at the head of the loop
  the output is at least 17 bytes shorter than the input (8 of them the header),
  a token adds at most three, and the end mark at most three, so nothing is
  written behind the buffer. `HashInv` says what the lists are for the positions
  in the window, in a form that can be taken apart (`Hold`, for any set of
  positions less than a window apart): recycling removes the least position of
  its list (`RecycledNode`), entering adds the greatest (`EnteredNode`), and
  `Fresh` says that until the window is full the node taken is an unused one.
  `SearchInv` says that at each node the best match among the candidates passed
  so far is known; with `HashInv` the next pointer leads to the greatest
  candidate that is left, and `MatchOfByte` gives that positions outside the list
  match in no byte, so the best candidate is the best of the window.
- `RoundTripProofs`. `RoundTripInv` is an account of all tokens written so far.
  A point is a place between two tokens: a position in the input, one in the
  output, and a bit of a command byte. The output is a `Chain`: a set of points
  each of which, but the last, has a token behind it (`Coded`) that stands for
  the bytes of the input up to the next point (`Stands`: a byte, or a copy of
  earlier bytes of the input, or the end). While a command byte is open its flags
  are at its top and move down with every flag that is pushed, so what a token
  looks like depends on how many flags there are; the lemmas `PushedTokens`,
  `OpenedTokens` and `ClosedTokens` say that every change of the output carries
  all tokens over. `EmitCopy` needs `LongestMatch`, and that the window is at
  most 4096 bytes, for its distance to fit twelve bits. On the way back
  `DecoderAt` says that `Uncompress` is at a point of the chain and has the
  input up to it; the next token then takes it to the next point. A copy may
  overlap what it writes: `CopiedBegins` shows that it still gives the input, as
  the input repeats itself at that distance. So the decoder never reads behind
  the output or in front of its own, which is the rest of `TypeOK`. The invariant
  was checked by TLC with the set of points as a history variable. Theorems:
  `LzssRoundTripInvariant`, `LzssRoundTrip`, `LzssTypeOK`.
- `IceKeyProofs`. `SchedInv` follows the two ends of the schedule towards each
  other; `TrackInv` keeps the words of encryption every two rounds and says that
  decryption stands on them with the words exchanged. Of the round function only
  its type is used, so the argument is about the two loops. Theorems:
  `ScheduleIsComplete`, `CipherDecryptInverts`, `CipherTypeOK`.

The greatest and least elements that `CHOOSE` picks in `NextBar`, `SlotOfMax` and
others exist because a nonempty set of naturals has a least one; `LeastNatural`
derives this from the library's theorem that `<` is well founded, and takes the
place of induction.

The assumptions on the constants are those of the source: window sizes are powers
of two up to the 4096 that twelve bits of distance can express; a port is an
`unsigned short`; `ReadPacket` is called with packets (`IsPacket`) that fit its
local buffer, on a machine whose ints are wide enough for positions in it
(`WidthsFit`).

Only model-checked:

- Everything about termination (`LaidOutWalkEnds`, `EndsOrGoesBack`,
  `LaidOutHandled`, `CallEnds`, `CallReturns`, `DialogueEnds`), which needs
  fairness.
- `AllSent` for strings, raw bits, coordinates, normals and angles, and so
  `SentIsRead` for them: what they return is a sum over the bits of a value, or a
  sequence of any length, whose encoder takes induction over data.
- `SBoxesPermute`, a statement about 1024 computed table entries without a
  parameter; the run evaluates all of it.

## Findings

1. `ReadBit` loads a dword at the end of the buffer (`packetbitbuf.cpp:147`,
   against the assertion before it).
2. The README's "prints out each cmd message" holds for four commands and some
   flags only (`sniffles.cpp:71`).
3. The handler compares with port 27015, not with the desired port
   (`sniffles.cpp:93`).
4. The stored device number is not compared with the length of the list
   (`sniffles.cpp:240`).
5. `set_config_value` writes through pointers from before `realloc`
   (`cfg.h:70`).

The runs also show things no text denies: datagrams that are not frames leave
their buffer allocated, a first start cannot get to the sniffer, and an answer
of a whole word to "Y or N?" leaves the next prompt repeating for ever; a packet
that its sender did not lay out can make `ParseFromArray` read outside the local
buffer and stop the process.

Observed while modelling, without a run: the diagrams in `coordsize.h` count four
bits for the fraction of a coordinate (7, 17 and 21 bits), while the constants,
which the decoders use, say five (8, 17 and 22), and 14 bits for a normal vector
with one part, which takes 15; the assertions of `ReadUBitVar`
(`packetbitbuf.cpp:227`) do not hold of a field that is cut by the end, or that
its sender wrote in a longer form than it needs; `PeekUBitLong`, `ReadLong` and
`ReadFloat` are declared and nowhere defined.

## Not modelled

- `CPacket`: four accessors over a byte string that nothing includes. They keep
  a position and compare it with nothing; what order they are called in, and on
  what, no code says, so there is no behaviour to check them in.
- The rest of `packetbitbuf.cpp` and `packetbitbuf.h` (from lines 742 and 245 on)
  is commented out: an older bit buffer.
- The square root of `ReadBitVec3Normal`, and rounding: the numbers of the other
  decoders are exact in a `float`, save cell coordinates of more than 19 bits.
- `String`, printing, protocol constants: no state the properties speak of.
- What a message contains: `ParseFromArray` is modelled at its entry, by whether
  it parses and whether it can leave the buffer. That it stays among the bytes it
  is given when these are in the buffer is taken from protobuf.
- The upper two bytes that `scanf` stores behind the port (`sniffles.cpp:229`):
  they are taken to fall on stack that nothing uses later, such as the padding of
  the slot of a `short`. Neither are the writes to a released block
  (`cfg.h:70`) followed further than that the new value is missing.
- A negative length given to `CompressNoAlloc`, which its comparison with an
  unsigned size takes for a large one (`lzss.cpp:88`), and a `malloc` that fails
  there (`lzss.cpp:94`): an input is a buffer that exists, and there is memory.
- Generated messages and third-party libraries: used through the answers they
  can give. They are nearly all of the repository's lines (some 399000 in 724
  files, of which `src/Sniffles` has 6200, and some 2800 of these are neither
  blank nor comment); the map covers the program's own code that keeps state.
- A first `fopen` or `fread` that fails ends the process with a message, as any
  end does.

## Plan

Done, in this order: `BitStream` and `BitRead` with the refinement; `ReadPacket`;
`PacketHandler` composed with it; `Setup`; `IceKey`; `Lzss`; proofs for all but
`Setup` and `Lzss`; `BitFields` over `BitRead`, with proofs; `Sniffer` and its
implementation by `PacketHandler`; the liveness of the dialogue; the proof of that
implementation; proofs for `Setup`; proofs for the compressing half of `Lzss`; its
round trip; the decoders on plain bits, and integers of every form.

Next: `AllSent` for the fields with a fixed number of reads (normals, cell
coordinates), with their values as sets of bits in place of sums.
