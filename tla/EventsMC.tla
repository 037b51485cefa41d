------------------------------ MODULE EventsMC ------------------------------
(* Instances of EventBuffer for TLC.                                       *)
EXTENDS EventProperties, TLC

CONSTANTS a, b

YesNo == BOOLEAN
Yes == {TRUE}

(* What the stack may hold where npend lies.                               *)
NotNegative == 0..1

Interchangeable == Permutations(Note)
=============================================================================
