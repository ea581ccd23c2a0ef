--------------------------- MODULE PacketLayouts ---------------------------
(***************************************************************************)
(* Packets for TLC: how a sender lays out a packet, and the packets the    *)
(* instances use.                                                          *)
(***************************************************************************)
EXTENDS Integers, Sequences

\* A command before it has its place.
Cmd(cmd, cmdLen, size, sizeLen, ok) ==
    [cmd |-> cmd, cmdLen |-> cmdLen, size |-> size, sizeLen |-> sizeLen,
     ok |-> ok]

\* The packet with flags, header varints of flagsLen and unkLen bytes, and
\* the commands cs one after the other.
Layout(flags, flagsLen, unkLen, cs) ==
    LET unkAt == 8 + flagsLen + 2
        start[i \in 1 .. Len(cs) + 1] ==
            IF i = 1 THEN unkAt + unkLen
            ELSE start[i - 1] + cs[i - 1].cmdLen + cs[i - 1].sizeLen
                    + cs[i - 1].size
        recs == [i \in 1 .. Len(cs) |->
                   [at |-> start[i], cmd |-> cs[i].cmd,
                    cmdLen |-> cs[i].cmdLen, size |-> cs[i].size,
                    sizeLen |-> cs[i].sizeLen, ok |-> cs[i].ok]]
        cmdAt == {recs[i].at : i \in 1 .. Len(cs)}
        sizeAt == {recs[i].at + recs[i].cmdLen : i \in 1 .. Len(cs)}
        bodyAt(c) == c.at + c.cmdLen + c.sizeLen
        at(b) == CHOOSE i \in 1 .. Len(cs) :
                    b \in {recs[i].at, recs[i].at + recs[i].cmdLen}
    IN  [size |-> start[Len(cs) + 1],
         laidOut |-> TRUE,
         recs |-> recs,
         varints |->
            [b \in {8, unkAt} \cup cmdAt \cup sizeAt |->
               IF b = 8 THEN [val |-> flags, n |-> flagsLen]
               ELSE IF b = unkAt THEN [val |-> 0, n |-> unkLen]
               ELSE IF b \in cmdAt
                 THEN [val |-> recs[at(b)].cmd, n |-> recs[at(b)].cmdLen]
                 ELSE [val |-> recs[at(b)].size, n |-> recs[at(b)].sizeLen]],
         parses |->
            [b \in {bodyAt(recs[i]) : i \in 1 .. Len(cs)} |->
               \E i \in 1 .. Len(cs) : bodyAt(recs[i]) = b /\ recs[i].ok]]

\* A packet of n bytes with arbitrary contents.
Arbitrary(n) ==
    [size |-> n, laidOut |-> FALSE, recs |-> << >>,
     varints |-> << >>, parses |-> << >>]

Tick == 4
SignonState == 7
SetConVar == 6
PacketEntities == 26

\* Known and unknown commands, empty messages, messages that do not parse,
\* varints of several bytes, no commands at all, and flags that are not
\* walked.
LaidOutPackets ==
    {Layout(0, 1, 1, << >>),
     Layout(0, 1, 1, <<Cmd(Tick, 1, 3, 1, TRUE),
                       Cmd(SetConVar, 1, 2, 1, TRUE),
                       Cmd(PacketEntities, 1, 4, 2, TRUE)>>),
     Layout(225, 2, 1, <<Cmd(SignonState, 2, 0, 1, TRUE),
                         Cmd(Tick, 1, 2, 1, FALSE),
                         Cmd(Tick, 1, 1, 1, TRUE)>>),
     Layout(32, 1, 1, <<Cmd(Tick, 1, 3, 1, TRUE)>>)}
============================================================================
