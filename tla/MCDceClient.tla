---------------------------- MODULE MCDceClient ----------------------------
(***************************************************************************)
(* DceClient for TLC: model values for threads and handles, none of which  *)
(* is told from another.                                                   *)
(***************************************************************************)
EXTENDS DceClient, TLC

Symmetry == Permutations(Threads) \cup Permutations(Engines)
    \cup Permutations(Codecs) \cup Permutations(Conns)
=============================================================================
