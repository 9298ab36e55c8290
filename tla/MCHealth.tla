------------------------------ MODULE MCHealth ------------------------------
(* Small instances of Health for TLC.                                       *)
EXTENDS Health, TLC

(* Calls are interchangeable.                                               *)
Sym == Permutations(Calls)
=============================================================================
