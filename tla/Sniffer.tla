------------------------------ MODULE Sniffer ------------------------------
(***************************************************************************)
(* What the program promises its user: it looks at one captured datagram   *)
(* at a time, and shows the messages it knows of each packet that the      *)
(* server sent, all of them, in the order in which the packet holds them,  *)
(* before it looks at the next one.  Datagrams of others, and ones that    *)
(* hold no packet, show nothing.  Bytes of the server that are framed like *)
(* a packet and are none that it laid out are undetermined: they may show  *)
(* anything that looks like a message, and stop the process.  How a        *)
(* message is found (decryption, the frame, the walk over the commands) is *)
(* left to the implementation.                                             *)
(***************************************************************************)
EXTENDS Integers, Sequences

CONSTANTS
    Datagrams,      \* the datagrams on the network
    Messages(_),    \* the messages a datagram has to show, with their places
    Undetermined(_),\* whether what a datagram shows is not determined
    Possible        \* what such a datagram can show

VARIABLES
    status,         \* "waiting", "handling" or "stopped"
    datagram,       \* the one being handled, or the last one
    shown           \* what it has shown, in order

snifferVars == <<status, datagram, shown>>

ShownSet == {shown[i] : i \in 1 .. Len(shown)}

Missing == Messages(datagram) \ ShownSet

SnifferInit ==
    /\ status = "waiting"
    /\ shown = << >>

\* The next datagram, with nothing shown of it yet.
Look(d) ==
    /\ status = "waiting"
    /\ datagram' = d
    /\ shown' = << >>

Begin(d) == Look(d) /\ status' = "handling"

\* A datagram with nothing to show may be done with at once.
Pass(d) == Look(d) /\ Messages(d) = {} /\ UNCHANGED status

\* The first of the messages not shown yet.
Show ==
    /\ status = "handling"
    /\ \E m \in Missing :
          /\ \A n \in Missing : m.at <= n.at
          /\ shown' = Append(shown, m)
    /\ UNCHANGED <<status, datagram>>

\* One more of the messages that an undetermined datagram can show.
ShowSome ==
    /\ status = "handling"
    /\ Undetermined(datagram)
    /\ shown' \in Seq(Possible)
    /\ Len(shown') = Len(shown) + 1
    /\ \A i \in 1 .. Len(shown) : shown'[i] = shown[i]
    /\ UNCHANGED <<status, datagram>>

\* Only when none is missing is the datagram done with.
End ==
    /\ status = "handling"
    /\ Missing = {}
    /\ status' = "waiting"
    /\ UNCHANGED <<datagram, shown>>

\* The process fails, and shows nothing any more.  Of the datagram that it
\* fails on it has shown nothing, unless that is an undetermined one.
Fail(d) == Look(d) /\ status' = "stopped"

FailLater ==
    /\ status = "handling"
    /\ shown = << >> \/ Undetermined(datagram)
    /\ status' = "stopped"
    /\ UNCHANGED <<datagram, shown>>

SnifferNext ==
    \/ \E d \in Datagrams : Begin(d) \/ Pass(d) \/ Fail(d)
    \/ Show \/ ShowSome \/ End \/ FailLater

SnifferSpec == SnifferInit /\ [][SnifferNext]_snifferVars
============================================================================
