------------------------------ MODULE RingArray ------------------------------
(* Arrays (comp/array.c): a ring buffer that is exactly as large as the    *)
(* array at first and a power of two once it has grown, so that a mask     *)
(* finds an element.  The array $* of a macro call lies in the arguments   *)
(* of the call and cannot grow; it gets a buffer of its own if it is       *)
(* referred to when the call ends.                                         *)
EXTENDS Integers, Sequences

CONSTANTS
  Elem,    \* elements
  None,    \* what malloc returns
  Initial, \* the lengths that arrays are created with
  MaxSize, \* a bound on the length
  MaxRef   \* a bound on the references

ASSUME RingAssumption ==
  None \notin Elem /\ Initial \subseteq Nat /\ MaxSize \in Nat /\ MaxRef \in Nat

VARIABLES
  size, offset, alloc_size, ref, ng_flag, \* the members of Array
  elms,    \* the buffer, from 0
  called,  \* the macro call whose arguments the array has is active
  state,   \* "live", "destroyed", or "error" when $* was to grow
  freed    \* the elements that the last operation freed

vars == <<size, offset, alloc_size, ref, ng_flag, elms, called, state, freed>>
buffer == <<size, offset, alloc_size, elms>>

AVOID_ZERO(n) == IF n <= 0 THEN 1 ELSE n
And(i, mask) == IF mask < 0 THEN i ELSE i % (mask + 1)
array_ref(i) == And(i + offset, alloc_size)
Element(i) == elms[array_ref(i)]

(* A power of two has no odd divisor but 1.                                *)
IsPowerOfTwo(n) ==
  n > 0 /\ \A d, m \in 1..n : n = d * m => d = 1 \/ d % 2 = 0

-----------------------------------------------------------------------------
(* create_array, create_reparray, create_array_from_uchar and dup_array    *)
(* make an array of n elements, create_ngarray one that cannot grow.       *)
Created(n, ng) ==
  /\ size = n /\ offset = 0 /\ alloc_size = -1 /\ ref = 1 /\ ng_flag = ng
  /\ elms \in [0..(AVOID_ZERO(n) - 1) -> IF n = 0 THEN {None} ELSE Elem]

Live == state = "live"
Rest == <<ref, ng_flag, called, state>>

(* grow_array makes the buffer a power of two the first time, and then     *)
(* twice as large: the part of a full ring before the offset, or the one   *)
(* from the offset on, moves to the new half.                              *)
Full == size > alloc_size
FirstSizes_size ==
  {n \in 2..(2 * (size + offset) + 2) :
     /\ IsPowerOfTwo(n) /\ n > size
     /\ \A m \in 2..(n - 1) : IsPowerOfTwo(m) => m <= size}
FirstSizes ==
  {n \in 2..(2 * (size + offset) + 2) :
     /\ IsPowerOfTwo(n) /\ n > size + offset
     /\ \A m \in 2..(n - 1) : IsPowerOfTwo(m) => m <= size + offset}
NewSizes == IF ~Full THEN {alloc_size + 1}
            ELSE IF alloc_size < 0 THEN FirstSizes
            ELSE {2 * (alloc_size + 1)}

MovesRest == Full /\ alloc_size >= 0 /\ offset >= (alloc_size + 1) \div 4
NewOffset == IF MovesRest THEN offset + alloc_size + 1 ELSE offset

(* The buffer has n places; old ones stay where they are, and a new one    *)
(* gets what was moved.                                                    *)
Enlarged_unmoved(n) ==
  [i \in 0..(n - 1) |-> IF i \in DOMAIN elms THEN elms[i] ELSE None]
Enlarged(n) ==
  LET old == alloc_size + 1
  IN [i \in 0..(n - 1) |->
        IF i \in DOMAIN elms THEN elms[i]
        ELSE IF old > 0 /\ (MovesRest <=> i - old >= offset) THEN elms[i - old]
        ELSE None]

(* append_array and insert_array.                                          *)
Growable == Live /\ size < MaxSize /\ ~(Full /\ ng_flag)
Put(n, o, i, e) ==
  /\ size' = size + 1 /\ alloc_size' = n - 1 /\ offset' = o
  /\ elms' = [Enlarged(n) EXCEPT ![i] = e]
  /\ freed' = <<>>
  /\ UNCHANGED Rest

append_array(e) ==
  Growable /\ \E n \in NewSizes : Put(n, NewOffset, (size + NewOffset) % n, e)

insert_array(e) ==
  /\ Growable
  /\ \E n \in NewSizes : LET o == (NewOffset - 1) % n IN Put(n, o, o, e)

cannot_grow ==
  /\ Live /\ Full /\ ng_flag
  /\ state' = "error" /\ freed' = <<>>
  /\ UNCHANGED <<buffer, ref, ng_flag, called>>

(* shift_array.                                                            *)
shift_front(n) ==
  /\ Live
  /\ size' = size - n /\ offset' = And(offset + n, alloc_size)
  /\ freed' = [k \in 1..n |-> Element(k - 1)]
  /\ UNCHANGED <<alloc_size, elms, Rest>>
shift_back(n) ==
  /\ Live
  /\ size' = size - n
  /\ freed' = [k \in 1..n |-> Element(size - k)]
  /\ UNCHANGED <<offset, alloc_size, elms, Rest>>

(* array_subscript with =.                                                 *)
array_subscript(i, e) ==
  /\ Live /\ i < size
  /\ elms' = [elms EXCEPT ![array_ref(i)] = e]
  /\ freed' = <<Element(i)>>
  /\ UNCHANGED <<size, offset, alloc_size, Rest>>

-----------------------------------------------------------------------------
(* copy_object and pushbk_object count references.                         *)
copy_object ==
  /\ Live /\ ref < MaxRef
  /\ ref' = ref + 1 /\ freed' = <<>>
  /\ UNCHANGED <<buffer, ng_flag, called, state>>

Destroyed ==
  /\ state' = "destroyed" /\ ref' = 0 /\ size' = 0
  /\ freed' = [k \in 1..size |-> Element(k - 1)]
  /\ UNCHANGED <<offset, alloc_size, elms, ng_flag>>

(* free_array of a reference other than the call's.                        *)
free_array ==
  /\ Live /\ (called => ref > 1)
  /\ IF ref = 1 THEN Destroyed /\ UNCHANGED called
     ELSE /\ ref' = ref - 1 /\ freed' = <<>>
          /\ UNCHANGED <<buffer, ng_flag, called, state>>

(* delete_mc at the end of the call, with ngarray_to_array: its arguments  *)
(* are freed with the MacroCall.                                           *)
delete_mc ==
  /\ Live /\ called /\ called' = FALSE
  /\ IF ref = 1 THEN Destroyed
     ELSE /\ ref' = ref - 1 /\ ng_flag' = FALSE /\ offset' = 0 /\ freed' = <<>>
          /\ elms' = [i \in 0..(AVOID_ZERO(size) - 1) |->
                        IF size = 0 THEN None ELSE elms[i + offset]]
          /\ UNCHANGED <<size, alloc_size, state>>

terminated == ~Live /\ UNCHANGED vars

Init ==
  /\ \E n \in Initial, ng \in BOOLEAN : Created(n, ng) /\ called = ng
  /\ state = "live" /\ freed = <<>>
Next ==
  \/ \E e \in Elem : append_array(e) \/ insert_array(e)
  \/ cannot_grow
  \/ \E n \in 0..size : shift_front(n) \/ shift_back(n)
  \/ \E i \in 0..(size - 1), e \in Elem : array_subscript(i, e)
  \/ copy_object \/ free_array \/ delete_mc
  \/ terminated
Spec == Init /\ [][Next]_vars
=============================================================================
