---------------------------- MODULE MCDpConfig ----------------------------
(***************************************************************************)
(* Instances of DpConfig for TLC: objects, values and callback threads are *)
(* interchangeable, so a safety run may identify permutations of them.     *)
(***************************************************************************)
EXTENDS DpConfig, TLC

Interchangeable == Permutations(Ids) \cup Permutations(Vals) \cup Permutations(Threads)
=============================================================================
