------------------------------ MODULE MCWebSpa ------------------------------
(***************************************************************************)
(* Instances of WebSpa for TLC.                                            *)
(***************************************************************************)
EXTENDS WebSpa

ProductSymmetry == Permutations(Products)
=============================================================================
