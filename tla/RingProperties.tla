---------------------------- MODULE RingProperties ----------------------------
(* What the ring buffer must keep, and the array that it implements.       *)
EXTENDS RingArray

Array == INSTANCE PmmlArray WITH
           Elem <- Elem,
           contents <- [k \in 1..size |-> Element(k - 1)],
           freed <- freed

-----------------------------------------------------------------------------
RingType ==
  /\ size \in Nat /\ offset \in Nat /\ alloc_size \in Nat \cup {-1}
  /\ ref \in Nat /\ ng_flag \in BOOLEAN /\ called \in BOOLEAN
  /\ state \in {"live", "destroyed", "error"}
  /\ elms = [i \in DOMAIN elms |-> elms[i]]
  /\ \A i \in DOMAIN elms : i \in Nat /\ elms[i] \in Elem \cup {None}

(* Every access is within the memory that was allocated: an array that has *)
(* not grown has its elements from the offset on, and one that has grown a *)
(* buffer of mask + 1 places.                                              *)
InBounds ==
  /\ RingType
  /\ IF alloc_size < 0 THEN \A i \in 0..(size - 1) : i + offset \in DOMAIN elms
     ELSE /\ DOMAIN elms = 0..alloc_size
          /\ offset <= alloc_size /\ size <= alloc_size + 1
          /\ ~ng_flag

(* Every index that a program may use finds an element, never memory that  *)
(* was not written.                                                        *)
Elements == \A i \in 0..(size - 1) : Element(i) \in Elem

(* The mask is a power of two less one, and what it finds are elements     *)
(* within the memory of the array.                                         *)
OnlyElements ==
  /\ alloc_size >= 0 => IsPowerOfTwo(alloc_size + 1)
  /\ InBounds /\ Elements

(* Through growth, wrap-around and the end of a macro call the array is    *)
(* the sequence that the program sees, and frees its elements in order.    *)
Implements == Array!Spec
=============================================================================
