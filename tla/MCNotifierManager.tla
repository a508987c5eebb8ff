--------------------------- MODULE MCNotifierManager ---------------------------
(* The notifier manager for TLC. *)
EXTENDS NotifierManager, TLC

Symmetry == Permutations(Sessions) \cup Permutations(Procs)
===============================================================================
