------------------------------ MODULE MacrosMC ------------------------------
(* Macros for TLC.                                                         *)
EXTENDS MacroProperties, TLC

Interchangeable == Permutations(List) \cup Permutations(Call)
=============================================================================
