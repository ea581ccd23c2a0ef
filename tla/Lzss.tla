-------------------------------- MODULE Lzss --------------------------------
(***************************************************************************)
(* The LZSS codec (CLZSS in lzss.cpp and lzss.h): one buffer is compressed *)
(* and, if that succeeds, uncompressed.  The positions of the last window  *)
(* bytes are kept in doubly linked lists, one per byte value, whose nodes  *)
(* are recycled in the order of the positions.                             *)
(*                                                                         *)
(* Positions in the input count from 0.  The header of the output, an id   *)
(* and a size, is the variable header; out holds the bytes behind it.      *)
(***************************************************************************)
EXTENDS Integers, Sequences

CONSTANTS
    WindowSizes, \* the arguments of the constructor
    Inputs,      \* the buffers a caller compresses
    Bases        \* the addresses they have

\* "windowsize must be a power of two", and a distance has twelve bits.
ASSUME LzssAssumption ==
    /\ WindowSizes \subseteq 1 .. 4096
    /\ \A w \in WindowSizes : \E k \in 0 .. 12 : w = 2 ^ k
    /\ Inputs \subseteq Seq(0 .. 255)
    /\ Bases \subseteq Nat

VARIABLES
    pc,         \* where the codec is
    window,     \* m_nWindowSize
    input, base,
    ahead,      \* pLookAhead
    header,     \* actualSize of the header; 0 if there is none
    out,        \* the bytes written behind the header
    cmdAt, put, \* pCmdByte and putCmdByte
    node,       \* pHash
    encLen, encPos, \* encodedLength and pEncodedPosition
    pending,    \* the bytes of the token that BuildHash has still to enter
    table,      \* m_pHashTable
    target,     \* m_pHashTarget
    from,       \* how many bytes of out Uncompress has read
    cmd, get,   \* cmdByte and getCmdByte
    back,       \* what Uncompress has written
    result      \* what Uncompress returns, -1 before

caller == <<window, input, base>>

output == <<out, cmdAt, put>>

match == <<node, encLen, encPos>>

hash == <<table, target>>

decoder == <<from, cmd, get, back, result>>

vars == <<pc, caller, ahead, header, output, match, pending, hash, decoder>>

----------------------------------------------------------------------------
(* The hash lists *)

None == -1

LookAhead == 16

HeaderSize == 8

InputAt(p) == input[p + 1]

Slot(p) == (base + p) % window

EmptyList == [start |-> None, end |-> None]

EmptyNode == [data |-> None, prev |-> None, next |-> None]

\* The lists and the nodes after a recycled node left the end of its list.
TableWithout(t) ==
    IF t.data = None THEN table
    ELSE IF t.prev # None
         THEN [table EXCEPT ![InputAt(t.data)].end = t.prev]
         ELSE [table EXCEPT ![InputAt(t.data)] = EmptyList]

\* Fault: the node in front of the recycled one still points to it.
TargetStillLinked(t) == target

TargetWithout(t) ==
    IF t.data # None /\ t.prev # None
      THEN [target EXCEPT ![t.prev].next = None] ELSE target

\* The node of position p is recycled, and put at the start of its byte's list.
BuildHash(p) ==
    LET slot  == Slot(p)
        b     == InputAt(p)
        lists == TableWithout(target[slot])
        nodes == TargetWithout(target[slot])
        first == lists[b].start
        added == [nodes EXCEPT ![slot] =
                    [data |-> p, prev |-> None, next |-> first]]
    IN  /\ table' = [lists EXCEPT ![b] =
                       [start |-> slot,
                        end   |-> IF first = None THEN slot ELSE @.end]]
        /\ target' = IF first = None THEN added
                     ELSE [added EXCEPT ![first].prev = slot]

----------------------------------------------------------------------------
(* Compress *)

inputLength == Len(input) - ahead

\* Fault: a match may be one byte too long for its four bits.
LookAheadTooLong ==
    IF inputLength < LookAhead + 1 THEN inputLength ELSE LookAhead + 1

LookAheadLength ==
    IF inputLength < LookAhead THEN inputLength ELSE LookAhead

MatchLength(p) ==
    CHOOSE m \in 0 .. LookAheadLength :
        /\ \A j \in 0 .. m - 1 : InputAt(p + j) = InputAt(ahead + j)
        /\ m = LookAheadLength \/ InputAt(p + m) # InputAt(ahead + m)

\* Fault: the limit is where the buffer ends.
FullAtTheEnd(o) == HeaderSize + Len(o) >= Len(input)

\* pOutput >= pEnd.
Full(o) == HeaderSize + Len(o) >= Len(input) - HeaderSize - 8

\* Work buffers and header are made; a short input is not compressed.  The
\* length is that of a buffer, so it is not negative, and there is memory for
\* the work buffers.
Start(w, x, a) ==
    /\ pc = "idle"
    /\ window' = w
    /\ target' = [s \in 0 .. w - 1 |-> EmptyNode]
    /\ input' = x
    /\ base' = a
    /\ IF Len(x) <= HeaderSize + 8
         THEN pc' = "abandoned" /\ header' = 0
         ELSE pc' = "loop" /\ header' = Len(x)
    /\ UNCHANGED <<ahead, output, match, pending, table, decoder>>

\* An iteration begins: every eighth opens a command byte.
BeginToken ==
    /\ pc = "loop"
    /\ inputLength > 0
    /\ IF put = 0
         THEN out' = Append(out, 0) /\ cmdAt' = Len(out) + 1
         ELSE UNCHANGED <<out, cmdAt>>
    /\ put' = (put + 1) % 8
    /\ encLen' = 0
    /\ node' = table[InputAt(ahead)].start
    /\ pc' = "search"
    /\ UNCHANGED <<caller, ahead, header, encPos, pending, hash, decoder>>

\* Fault: the first match that is worth a copy ends the search.
SearchGreedily ==
    /\ pc = "search"
    /\ node # None
    /\ LET m == MatchLength(target[node].data) IN
          /\ IF m > encLen
               THEN encLen' = m /\ encPos' = target[node].data
               ELSE UNCHANGED <<encLen, encPos>>
          /\ node' = IF m >= 3 THEN None ELSE target[node].next
    /\ UNCHANGED <<pc, caller, ahead, header, output, pending, hash, decoder>>

\* One node of the list is compared; a full match ends the search.
Search ==
    /\ pc = "search"
    /\ node # None
    /\ LET m == MatchLength(target[node].data) IN
          /\ IF m > encLen
               THEN encLen' = m /\ encPos' = target[node].data
               ELSE UNCHANGED <<encLen, encPos>>
          /\ node' = IF m = LookAheadLength THEN None ELSE target[node].next
    /\ UNCHANGED <<pc, caller, ahead, header, output, pending, hash, decoder>>

\* Fault: the upper bits of the distance are lost.
PositionLowBits == (ahead - encPos - 1) % 16

Position == ahead - encPos - 1

\* A copy of three bytes or more is a distance and a length in two bytes.
EmitCopy ==
    /\ pc = "search"
    /\ node = None
    /\ encLen >= 3
    /\ out' = [out EXCEPT ![cmdAt] = (@ \div 2) + 128] \o
              <<(Position \div 16) % 256, ((Position * 16) % 256) + encLen - 1>>
    /\ pending' = encLen
    /\ pc' = "hash"
    /\ UNCHANGED <<caller, ahead, header, cmdAt, put, match, hash, decoder>>

EmitByte ==
    /\ pc = "search"
    /\ node = None
    /\ encLen < 3
    /\ out' = Append([out EXCEPT ![cmdAt] = @ \div 2], InputAt(ahead))
    /\ encLen' = 1
    /\ pending' = 1
    /\ pc' = "hash"
    /\ UNCHANGED <<caller, ahead, header, cmdAt, put, node, encPos, hash,
                   decoder>>

HashByte ==
    /\ pc = "hash"
    /\ pending > 0
    /\ BuildHash(ahead)
    /\ ahead' = ahead + 1
    /\ pending' = pending - 1
    /\ UNCHANGED <<pc, caller, header, output, match, decoder>>

\* The iteration ends; if the result is no shorter the output is given up.
EndToken ==
    /\ pc = "hash"
    /\ pending = 0
    /\ IF Full(out)
         THEN pc' = "abandoned" /\ header' = 0
         ELSE pc' = "loop" /\ header' = header
    /\ UNCHANGED <<caller, ahead, output, match, pending, hash, decoder>>

\* The bit of the end mark, and the bits of the last command byte moved down.
LastCommand == ((out[cmdAt] \div 2) + 128) \div 2 ^ (7 - put)

\* The mark of the end, a copy of one byte.
Terminate ==
    /\ pc = "loop"
    /\ inputLength = 0
    /\ out' = (IF put = 0 THEN Append(out, 1)
                          ELSE [out EXCEPT ![cmdAt] = LastCommand]) \o <<0, 0>>
    /\ cmdAt' = IF put = 0 THEN Len(out) + 1 ELSE cmdAt
    /\ pc' = "uncompress"
    /\ UNCHANGED <<caller, ahead, header, put, match, pending, hash, decoder>>

----------------------------------------------------------------------------
(* Uncompress *)

\* The command byte in use, and how much of out is read once it is there.
Cmd == IF get = 0 THEN out[from + 1] ELSE cmd

Read == IF get = 0 THEN from + 1 ELSE from

CopyPosition == out[Read + 1] * 16 + (out[Read + 2] \div 16)

CopyCount == (out[Read + 2] % 16) + 1

\* Copied byte by byte: a source that reaches into what is being written
\* repeats it.
Copied(b, position, count) ==
    b \o [k \in 1 .. count |->
            b[Len(b) - position + ((k - 1) % (position + 1))]]

\* The size in the header, 0 if it is not recognized.
GetActualSize == header

\* Without a header nothing is uncompressed.
Unrecognized ==
    /\ pc = "abandoned"
    /\ GetActualSize = 0
    /\ result' = 0
    /\ pc' = "done"
    /\ UNCHANGED <<caller, ahead, header, output, match, pending, hash,
                   from, cmd, get, back>>

GetByte ==
    /\ pc = "uncompress"
    /\ Cmd % 2 = 0
    /\ back' = Append(back, out[Read + 1])
    /\ from' = Read + 1
    /\ cmd' = Cmd \div 2
    /\ get' = (get + 1) % 8
    /\ UNCHANGED <<pc, caller, ahead, header, output, match, pending, hash,
                   result>>

GetCopy ==
    /\ pc = "uncompress"
    /\ Cmd % 2 = 1
    /\ CopyCount > 1
    /\ back' = Copied(back, CopyPosition, CopyCount)
    /\ from' = Read + 2
    /\ cmd' = Cmd \div 2
    /\ get' = (get + 1) % 8
    /\ UNCHANGED <<pc, caller, ahead, header, output, match, pending, hash,
                   result>>

\* The end mark; a size that is not the header's is an error.
GetEnd ==
    /\ pc = "uncompress"
    /\ Cmd % 2 = 1
    /\ CopyCount = 1
    /\ result' = IF Len(back) = GetActualSize THEN Len(back) ELSE 0
    /\ from' = Read + 2
    /\ cmd' = Cmd
    /\ get' = (get + 1) % 8
    /\ pc' = "done"
    /\ UNCHANGED <<caller, ahead, header, output, match, pending, hash, back>>

Init ==
    /\ pc = "idle"
    /\ window = 1 /\ input = << >> /\ base = 0
    /\ ahead = 0
    /\ header = 0
    /\ out = << >> /\ cmdAt = 0 /\ put = 0
    /\ node = None /\ encLen = 0 /\ encPos = None
    /\ pending = 0
    /\ table = [b \in 0 .. 255 |-> EmptyList]
    /\ target = << >>
    /\ from = 0 /\ cmd = 0 /\ get = 0 /\ back = << >> /\ result = -1

\* Compress gives CompressNoAlloc a buffer of the input's length to write to.
Compress ==
    \/ BeginToken \/ Search \/ EmitCopy \/ EmitByte \/ HashByte \/ EndToken
    \/ Terminate

Uncompress == Unrecognized \/ GetByte \/ GetCopy \/ GetEnd

Next ==
    \/ \E w \in WindowSizes, x \in Inputs, a \in Bases : Start(w, x, a)
    \/ Compress
    \/ Uncompress

\* Both functions run to their end once they are called.
Spec == Init /\ [][Next]_vars /\ WF_vars(Compress \/ Uncompress)

----------------------------------------------------------------------------
(* Properties *)

\* The values the variables take; what is written are bytes.
TypeOK ==
    /\ pc \in {"idle", "loop", "search", "hash", "uncompress", "abandoned",
               "done"}
    /\ ahead \in 0 .. Len(input)
    /\ header \in {0, Len(input)}
    /\ out \in Seq(0 .. 255) /\ cmdAt \in 0 .. Len(out) /\ put \in 0 .. 7
    /\ node \in 0 .. window - 1 \cup {None}
    /\ encLen \in 0 .. LookAhead /\ encPos \in -1 .. Len(input) - 1
    /\ pending \in 0 .. LookAhead
    /\ from \in 0 .. Len(out) /\ cmd \in 0 .. 255 /\ get \in 0 .. 7
    /\ back \in Seq(0 .. 255) /\ result \in -1 .. Len(input)

\* The positions that have been entered and are still in the window.
Window == {p \in 0 .. ahead - 1 : p >= ahead - window}

\* The positions in the window that hold the byte b.
At(b) == {p \in Window : InputAt(p) = b}

SlotOfMax(S) ==
    IF S = {} THEN None ELSE Slot(CHOOSE p \in S : \A q \in S : q <= p)

SlotOfMin(S) ==
    IF S = {} THEN None ELSE Slot(CHOOSE p \in S : \A q \in S : p <= q)

\* BuildHash recycles nodes without looking for their place in the list: the
\* lists still hold exactly the positions in the window, the last one first,
\* and are linked both ways.
HashLists ==
    /\ \A p \in Window :
          target[Slot(p)] =
            [data |-> p,
             prev |-> SlotOfMin({q \in At(InputAt(p)) : q > p}),
             next |-> SlotOfMax({q \in At(InputAt(p)) : q < p})]
    /\ LET seen == {InputAt(p) : p \in 0 .. ahead - 1}
       IN  \A b \in 0 .. 255 :
             table[b] = IF b \notin seen THEN EmptyList
                        ELSE [start |-> SlotOfMax(At(b)),
                              end   |-> SlotOfMin(At(b))]

\* The search finds the longest match that starts in the window; of those the
\* last one.
LongestMatch ==
    pc = "search" /\ node = None =>
        LET lengths == {MatchLength(p) : p \in Window}
        IN  /\ encLen = IF lengths = {} THEN 0
                        ELSE CHOOSE m \in lengths : \A n \in lengths : n <= m
            /\ encLen > 0 =>
                  /\ encPos \in Window
                  /\ MatchLength(encPos) = encLen
                  /\ \A p \in Window : p > encPos => MatchLength(p) < encLen

\* Compress gives CompressNoAlloc a buffer as long as the input: nothing is
\* written behind it, although the limit is tested after each token only.
OutputFits == Len(out) > 0 => HeaderSize + Len(out) <= Len(input)

\* What has been uncompressed is a prefix of what was compressed, and in the
\* end all of it; Uncompress reports an error only if Compress gave up.
RoundTrip ==
    /\ Len(back) <= Len(input)
    /\ \A k \in 1 .. Len(back) : back[k] = input[k]
    /\ pc = "done" => result = IF header = 0 THEN 0 ELSE Len(input)
    /\ pc = "done" /\ header # 0 => back = input /\ from = Len(out)

\* A call comes to its end: in particular the search does not run in a circle
\* of list nodes.
CallEnds == pc = "loop" ~> pc = "done"
============================================================================
