-------------------------- MODULE MCPacketHandler --------------------------
(***************************************************************************)
(* Instances of PacketHandler for TLC.                                     *)
(***************************************************************************)
EXTENDS PacketHandler, PacketLayouts

Datagram(kind, sport, size, delta, len, body) ==
    [kind |-> kind, sport |-> sport, dport |-> 27015 + 27016 - sport,
     size |-> size, delta |-> delta, len |-> len, body |-> body]

\* A server's datagram around the packet p.
Framed(sport, delta, p) ==
    Datagram("udp", sport, p.size + delta + 5, delta, p.size, p)

\* A datagram of size bytes with an arbitrary offset and length.
Unframed(size, delta, len) ==
    Datagram("udp", 27015, size, delta, len,
             Arbitrary(IF delta + 5 < size THEN size - delta - 5 ELSE 0))

\* Datagrams between ports 27015 and 27016, in both directions: framed with
\* sizes that leave every kind of tail, too short for a frame, with an offset
\* behind the end, with a length that is too small, too large, and that only
\* a wrapping sum makes fit, and without payload.
MCDatagrams ==
    {Framed(27015, delta, p) : delta \in {1, 4}, p \in LaidOutPackets}
      \cup {Framed(27016, 2, p) : p \in LaidOutPackets}
      \cup {Framed(27015, 2, Arbitrary(n)) : n \in {1, 9, 13}}
      \cup {Unframed(1, 0, 0), Unframed(6, 1, 0), Unframed(8, 255, 0),
            Unframed(16, 3, 7), Unframed(16, 3, 9), Unframed(17, 0, 12),
            Unframed(4, 5, 2048 - 6), Unframed(23, 20, 2048 - 2)}
      \cup {Unframed(0, 0, 0),
            Datagram("other", 27015, 16, 3, 8, Arbitrary(8))}

MCKnownCmds == {4, 7, 8, 26}

MCValues == {-2, 0, 4, 225, 255}
============================================================================
