------------------------------- MODULE MCLzss -------------------------------
(***************************************************************************)
(* Instances of Lzss for TLC.  An input must be longer than its output by  *)
(* sixteen bytes to be compressed, so the inputs are long and repetitive:  *)
(* a part with one period and a part with another, the periods around the  *)
(* size of the window.                                                     *)
(***************************************************************************)
EXTENDS Lzss

Periodic(u, n) == [k \in 1 .. n |-> u[((k - 1) % Len(u)) + 1]]

Units ==
    {<<7>>, <<0, 255>>, <<0, 0, 1>>, <<0, 1, 0, 2>>, <<0, 1, 2, 3, 0>>,
     <<0, 1, 2, 3, 0, 1, 2, 4>>, <<9, 8, 7, 6, 5, 4, 3, 2, 1>>}

\* Too short, incompressible for a small window, and compressed; and periods
\* below, at and above a window of thirty-two bytes, whose distances take both
\* bytes of a copy.
MCInputs ==
    {Periodic(u, n) : u \in Units, n \in {16, 17, 29}}
      \cup {Periodic(u, m) \o Periodic(v, n) :
              u \in Units, v \in Units, m \in {4, 7}, n \in {30, 37}}
      \cup {Periodic([k \in 1 .. p |-> k], n) :
              p \in {17, 32, 33}, n \in {72, 82}}
============================================================================
