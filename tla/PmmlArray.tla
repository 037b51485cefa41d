------------------------------ MODULE PmmlArray ------------------------------
(* What an array of PMML is to a program: a sequence of elements that      *)
(* grows at both ends, is shortened from either, and whose elements are    *)
(* freed once, when they leave it.                                         *)
EXTENDS Integers, Sequences

CONSTANTS Elem

VARIABLES
  contents, \* the elements
  freed     \* the elements that the last operation freed, in that order

avars == <<contents, freed>>

(* append and insert.                                                      *)
AppendElem(e) == contents' = Append(contents, e) /\ freed' = <<>>
InsertElem(e) == contents' = <<e>> \o contents /\ freed' = <<>>

(* shift: n elements leave at the front, or at the end.                    *)
ShiftFront(n) ==
  /\ contents' = SubSeq(contents, n + 1, Len(contents))
  /\ freed' = SubSeq(contents, 1, n)
ShiftBack(n) ==
  /\ contents' = SubSeq(contents, 1, Len(contents) - n)
  /\ freed' = [k \in 1..n |-> contents[Len(contents) + 1 - k]]

(* An element is assigned; the old one is freed.                           *)
Assign(i, e) ==
  /\ contents' = [contents EXCEPT ![i] = e]
  /\ freed' = <<contents[i]>>

(* Nobody refers to the array any more.                                    *)
Destroy == contents' = <<>> /\ freed' = contents

(* A reference more or less.                                               *)
Refer == freed' = <<>> /\ UNCHANGED contents

Init == contents \in Seq(Elem) /\ freed = <<>>
Next ==
  \/ \E e \in Elem : AppendElem(e) \/ InsertElem(e)
  \/ \E n \in 0..Len(contents) : ShiftFront(n) \/ ShiftBack(n)
  \/ \E i \in 1..Len(contents), e \in Elem : Assign(i, e)
  \/ Destroy \/ Refer
Spec == Init /\ [][Next]_avars
=============================================================================
