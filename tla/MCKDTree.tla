------------------------------ MODULE MCKDTree ------------------------------
(***************************************************************************)
(* The TLC instance of KDTree: lists of up to five of five points, with    *)
(* repetitions, leaves of up to two, and the two points nearest to clients *)
(* at some of them, between and outside of them.                           *)
(***************************************************************************)
EXTENDS KDTree

MCPoint == {<<0, 0, 0>>, <<8, 0, 0>>, <<24, 0, 8>>, <<8, 16, 0>>, <<0, 8, 24>>}

MCQuery == {<<0, 0, 0>>, <<16, 16, 8>>, <<10, 4, 4>>, <<4, 12, 9>>, <<40, 0, 0>>,
            <<10, 30, -5>>}
=============================================================================
