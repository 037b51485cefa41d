------------------------------ MODULE RationalMC ------------------------------
(* A small instance of Rational for TLC.                                   *)
EXTENDS RationalProperties
SmallIntegers == -3..4
=============================================================================
