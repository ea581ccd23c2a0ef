---------------------------- MODULE MCReadPacket ----------------------------
(***************************************************************************)
(* Instances of ReadPacket for TLC.                                        *)
(***************************************************************************)
EXTENDS ReadPacket, PacketLayouts

MCPackets ==
    LaidOutPackets \cup {Arbitrary(n) : n \in {7, 8, 13, 20}}

MCKnownCmds == {4, 7, 8, 26}

\* Flags that are walked and that are not, a known and an unknown command,
\* sizes below zero, sizes whose eightfold wraps to a negative and to a
\* positive int, and one that leads out of the buffer.
MCValues == {-2, 0, 4, 60, 128, 257}
=============================================================================
