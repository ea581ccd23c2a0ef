------------------------------ MODULE MCSetup ------------------------------
(***************************************************************************)
(* Instances of Setup for TLC.                                             *)
(***************************************************************************)
EXTENDS Setup

\* A failing enumeration, one device, and enough for the default device.
MCDevCounts == {0, 1, 3}

MCDevInputs == {-1, 0, 1, 3}

\* Not valid, too large for a port, and ports whose bytes hold a '|' nowhere,
\* in the first and in the second place.
MCPortInputs == {0, 65536, 92551, 27004, 31745}

MCStackPorts == {0, 31868}
============================================================================
