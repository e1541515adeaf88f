-------------------------- MODULE MCNodeConnection --------------------------
(* TLC instance of NodeConnection.  Callers and contents are interchangeable *)
(* model values; the symmetric runs check safety only.                       *)
EXTENDS NodeConnection, TLC

Symmetry == Permutations(Callers) \cup Permutations(Addresses)
=============================================================================
