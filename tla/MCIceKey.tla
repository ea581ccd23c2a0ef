------------------------------ MODULE MCIceKey ------------------------------
(***************************************************************************)
(* Instances of IceKey for TLC.                                            *)
(***************************************************************************)
EXTENDS IceKey

\* Thin (eight rounds), and one and two times eight bytes of key.
MCLevels == {0, 1, 2}

MCKeys ==
    {[k \in 1 .. 8 * n |-> {}] : n \in {1, 2}} \cup
    {[k \in 1 .. 8 * n |-> {b \in 0 .. 7 : (k * k + 3 * b) % 5 < 2}] :
        n \in {1, 2}}

MCBlocks ==
    {<<{}, {}>>, <<0 .. 31, {31}>>, <<{0, 5, 17, 30}, {1, 2, 8, 22, 23, 31}>>}
============================================================================
