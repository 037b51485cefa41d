------------------------------ MODULE RingProofs ------------------------------
(* RingArray implements PmmlArray, for arrays of every length and any      *)
(* number of references.                                                   *)
EXTENDS RingProperties, SequenceTheorems, TLAPS

RingInv ==
  /\ InBounds /\ Elements
  /\ called => ng_flag
  /\ state = "live" => ref # 0

(* Where the index i is in a buffer of n places whose offset is o.         *)
Place(i, o, n) == IF i + o < n THEN i + o ELSE i + o - n

-----------------------------------------------------------------------------
(* What an index becomes under a mask of n - 1.                            *)
LEMMA ModSmall ==
  ASSUME NEW n \in Nat \ {0}, NEW x \in 0..(n - 1)
  PROVE  x % n = x
  BY SMT

LEMMA ModOnce ==
  ASSUME NEW n \in Nat \ {0}, NEW x \in n..(2 * n - 1)
  PROVE  x % n = x - n
  BY SMT

LEMMA ModMinus ==
  ASSUME NEW n \in Nat \ {0}
  PROVE  (-1) % n = n - 1
  BY SMT

LEMMA PlaceIsMod ==
  ASSUME NEW n \in Nat \ {0}, NEW o \in 0..(n - 1), NEW i \in 0..n
  PROVE  (i + o) % n = IF i + o < n THEN i + o ELSE i + o - n
<1>1. CASE i + o < n
  <2>1. i + o \in 0..(n - 1)  BY <1>1
  <2>. QED  BY <1>1, <2>1, ModSmall
<1>2. CASE ~(i + o < n)
  <2>1. i + o \in n..(2 * n - 1)  BY <1>2
  <2>. QED  BY <1>2, <2>1, ModOnce
<1>. QED  BY <1>1, <1>2

(* The numbers of a buffer that has grown.                                 *)
LEMMA Numbers ==
  ASSUME InBounds
  PROVE  /\ size \in Nat /\ offset \in Nat /\ alloc_size \in Nat \cup {-1}
         /\ alloc_size >= 0 =>
              /\ DOMAIN elms = 0..alloc_size
              /\ offset <= alloc_size /\ size <= alloc_size + 1
  BY DEF InBounds, RingType

(* A buffer that has grown: its elements are at their places.              *)
LEMMA PlaceOfElement ==
  ASSUME InBounds, alloc_size >= 0, NEW i \in 0..size
  PROVE  array_ref(i) = Place(i, offset, alloc_size + 1)
<1>1. /\ alloc_size \in Nat /\ offset \in 0..alloc_size
      /\ size \in 0..(alloc_size + 1)
  BY DEF InBounds, RingType
<1>2. alloc_size + 1 \in Nat \ {0} /\ offset \in 0..((alloc_size + 1) - 1)
      /\ i \in 0..(alloc_size + 1)
  BY <1>1
<1>3. (i + offset) % (alloc_size + 1) = Place(i, offset, alloc_size + 1)
  BY <1>2, PlaceIsMod DEF Place
<1>. QED  BY <1>1, <1>3 DEF array_ref, And

(* An index is found within the buffer.                                    *)
LEMMA RefInBuffer ==
  ASSUME InBounds, NEW i \in 0..(size - 1)
  PROVE  array_ref(i) \in DOMAIN elms
<1>1. CASE alloc_size < 0
  BY <1>1 DEF InBounds, RingType, array_ref, And
<1>2. CASE alloc_size >= 0
  <2>1. i \in 0..size  BY Numbers
  <2>2. array_ref(i) = Place(i, offset, alloc_size + 1)
    BY <1>2, <2>1, PlaceOfElement
  <2>. QED  BY <1>2, <2>2, Numbers DEF Place
<1>. QED  BY <1>1, <1>2, Numbers

(* Two indices never share a place.                                        *)
LEMMA RefInjective ==
  ASSUME InBounds, NEW i \in 0..(size - 1), NEW j \in 0..(size - 1),
         array_ref(i) = array_ref(j)
  PROVE  i = j
<1>1. CASE alloc_size < 0
  BY <1>1, Numbers DEF array_ref, And
<1>2. CASE alloc_size >= 0
  <2>1. i \in 0..size /\ j \in 0..size  BY Numbers
  <2>2. /\ array_ref(i) = Place(i, offset, alloc_size + 1)
        /\ array_ref(j) = Place(j, offset, alloc_size + 1)
    BY <1>2, <2>1, PlaceOfElement
  <2>3. Place(i, offset, alloc_size + 1) = Place(j, offset, alloc_size + 1)
    BY <2>2
  <2>. QED  BY <1>2, <2>3, Numbers DEF Place
<1>. QED  BY <1>1, <1>2, Numbers

-----------------------------------------------------------------------------
(* grow_array: there is a free place, and every element is where the new   *)
(* offset and mask look for it.                                            *)
LEMMA Growth ==
  ASSUME InBounds, NEW n \in NewSizes
  PROVE  /\ n \in Nat \ {0} /\ n > size
         /\ NewOffset \in 0..(n - 1)
         /\ \A i \in 0..(size - 1) :
              Enlarged(n)[Place(i, NewOffset, n)] = Element(i)
<1>1. /\ size \in Nat /\ offset \in Nat
      /\ alloc_size \in Nat \cup {-1}
  BY DEF InBounds, RingType
<1>2. CASE ~Full
  <2>1. /\ alloc_size \in Nat /\ n = alloc_size + 1 /\ n > size
        /\ NewOffset = offset /\ offset \in 0..(n - 1)
        /\ DOMAIN elms = 0..alloc_size
    BY <1>1, <1>2 DEF Full, NewSizes, NewOffset, MovesRest, InBounds
  <2>2. ASSUME NEW i \in 0..(size - 1)
        PROVE  Enlarged(n)[Place(i, NewOffset, n)] = Element(i)
    <3>1. i \in 0..size  BY <1>1
    <3>2. array_ref(i) = Place(i, NewOffset, n)
      BY <2>1, <3>1, PlaceOfElement
    <3>3. Place(i, NewOffset, n) \in 0..(n - 1) /\ 0..(n - 1) = DOMAIN elms
      BY <2>1, <1>1 DEF Place
    <3>. QED  BY <3>2, <3>3 DEF Enlarged, Element
  <2>. QED  BY <1>1, <2>1, <2>2
<1>3. CASE Full /\ alloc_size < 0
  <2>1. n \in FirstSizes  BY <1>3 DEF NewSizes
  <2>2. /\ n \in Nat \ {0} /\ n > size + offset /\ NewOffset = offset
    BY <1>1, <1>3, <2>1 DEF FirstSizes, NewOffset, MovesRest
  <2>3. ASSUME NEW i \in 0..(size - 1)
        PROVE  Enlarged(n)[Place(i, NewOffset, n)] = Element(i)
    <3>1. /\ array_ref(i) = i + offset /\ i + offset \in DOMAIN elms
          /\ Place(i, NewOffset, n) = i + offset /\ i + offset \in 0..(n - 1)
      BY <1>1, <1>3, <2>2, RefInBuffer DEF array_ref, And, Place
    <3>. QED  BY <3>1 DEF Enlarged, Element
  <2>. QED  BY <1>1, <2>2, <2>3
<1>4. CASE Full /\ alloc_size >= 0
  <2>. DEFINE old == alloc_size + 1
  <2>1. /\ old \in Nat \ {0} /\ n = 2 * old /\ size = old
        /\ offset \in 0..(old - 1) /\ DOMAIN elms = 0..(old - 1)
    BY <1>1, <1>4 DEF NewSizes, InBounds, Full
  <2>2. NewOffset = IF MovesRest THEN offset + old ELSE offset
    BY <1>1 DEF NewOffset
  <2>3. MovesRest \in BOOLEAN  BY DEF MovesRest
  <2>4. ASSUME NEW i \in 0..(size - 1)
        PROVE  Enlarged(n)[Place(i, NewOffset, n)] = Element(i)
    <3>. DEFINE p == Place(i, NewOffset, n)
                q == Place(i, offset, old)
    <3>1. i \in 0..size  BY <1>1
    <3>2. array_ref(i) = q  BY <1>4, <3>1, PlaceOfElement
    <3>3. p \in 0..(n - 1) /\ q \in DOMAIN elms
      <4>1. q \in 0..(old - 1)  BY <2>1 DEF Place
      <4>2. CASE MovesRest
        <5>1. NewOffset = offset + old  BY <2>2, <4>2
        <5>. QED  BY <1>1, <2>1, <4>1, <5>1 DEF Place
      <4>3. CASE ~MovesRest  BY <2>1, <2>2, <4>3 DEF Place
      <4>. QED  BY <2>1, <4>1, <4>2, <4>3
    <3>4. CASE MovesRest
      <4>1. IF i + offset < old
            THEN p = q + old /\ q >= offset
            ELSE p = q
        <5>1. NewOffset = offset + old  BY <2>2, <3>4
        <5>. QED  BY <1>1, <2>1, <5>1 DEF Place
      <4>2. p \in DOMAIN elms <=> p < old  BY <2>1, <3>3
      <4>3. CASE i + offset < old
        <5>1. /\ p \notin DOMAIN elms /\ p - old = q /\ p - old >= offset
              /\ alloc_size + 1 > 0
          BY <2>1, <3>3, <4>1, <4>2, <4>3
        <5>2. Enlarged(n)[p] = elms[p - old]
          BY <3>3, <3>4, <5>1 DEF Enlarged
        <5>. QED  BY <3>2, <5>1, <5>2 DEF Element
      <4>4. CASE ~(i + offset < old)
        <5>1. p = q  BY <4>1, <4>4
        <5>2. Enlarged(n)[p] = elms[p]  BY <3>3, <5>1 DEF Enlarged
        <5>. QED  BY <3>2, <5>1, <5>2 DEF Element
      <4>. QED  BY <4>3, <4>4
    <3>5. CASE ~MovesRest
      <4>1. IF i + offset < old
            THEN p = q
            ELSE p = q + old /\ ~(q >= offset)
        BY <2>1, <2>2, <3>5 DEF Place
      <4>2. p \in DOMAIN elms <=> p < old  BY <2>1, <3>3
      <4>3. CASE i + offset < old
        <5>1. p = q  BY <4>1, <4>3
        <5>2. Enlarged(n)[p] = elms[p]  BY <3>3, <5>1 DEF Enlarged
        <5>. QED  BY <3>2, <5>1, <5>2 DEF Element
      <4>4. CASE ~(i + offset < old)
        <5>1. /\ p \notin DOMAIN elms /\ p - old = q /\ ~(p - old >= offset)
              /\ alloc_size + 1 > 0
          BY <2>1, <3>3, <4>1, <4>2, <4>4
        <5>2. Enlarged(n)[p] = elms[p - old]
          BY <3>3, <3>5, <5>1 DEF Enlarged
        <5>. QED  BY <3>2, <5>1, <5>2 DEF Element
      <4>. QED  BY <4>3, <4>4
    <3>. QED  BY <3>4, <3>5
  <2>5. n \in Nat \ {0} /\ n > size /\ NewOffset \in 0..(n - 1)
    BY <2>1, <2>2, <2>3
  <2>. QED  BY <2>4, <2>5
<1>. QED  BY <1>1, <1>2, <1>3, <1>4

-----------------------------------------------------------------------------
(* Put, which ends append_array and insert_array, stays within the buffer. *)
LEMMA PutInBounds ==
  ASSUME InBounds, Growable, NEW n \in NewSizes, NEW o \in 0..(n - 1),
         NEW p \in 0..(n - 1), NEW e \in Elem, Put(n, o, p, e)
  PROVE  /\ InBounds' /\ DOMAIN elms' = 0..(n - 1)
         /\ size' = size + 1 /\ offset' = o /\ alloc_size' = n - 1
         /\ \A q \in 0..(n - 1) :
              elms'[q] = IF q = p THEN e ELSE Enlarged(n)[q]
<1>1. n \in Nat \ {0} /\ n > size  BY Growth
<1>2. /\ size' = size + 1 /\ offset' = o /\ alloc_size' = n - 1
      /\ elms' = [Enlarged(n) EXCEPT ![p] = e]
      /\ UNCHANGED <<ref, ng_flag, called, state>>
  BY DEF Put, Rest
<1>3. DOMAIN Enlarged(n) = 0..(n - 1)  BY DEF Enlarged
<1>4. \A q \in 0..(n - 1) : Enlarged(n)[q] \in Elem \cup {None}
  <2>1. SUFFICES ASSUME NEW q \in 0..(n - 1)
                 PROVE  Enlarged(n)[q] \in Elem \cup {None}
    OBVIOUS
  <2>2. \A i \in DOMAIN elms : elms[i] \in Elem \cup {None}  BY DEF InBounds, RingType
  <2>3. CASE q \in DOMAIN elms  BY <2>2, <2>3 DEF Enlarged
  <2>4. CASE /\ q \notin DOMAIN elms /\ alloc_size + 1 > 0
             /\ MovesRest <=> q - (alloc_size + 1) >= offset
    <3>1. Enlarged(n)[q] = elms[q - (alloc_size + 1)]
      BY <2>4 DEF Enlarged
    <3>2. /\ alloc_size \in Nat /\ n \in {alloc_size + 1, 2 * (alloc_size + 1)}
          /\ DOMAIN elms = 0..alloc_size
      BY <2>4, Numbers DEF NewSizes
    <3>3. q - (alloc_size + 1) \in DOMAIN elms
      BY <2>4, <3>2
    <3>. QED  BY <2>2, <3>1, <3>3
  <2>5. CASE /\ q \notin DOMAIN elms
             /\ ~(/\ alloc_size + 1 > 0
                  /\ MovesRest <=> q - (alloc_size + 1) >= offset)
    BY <2>5 DEF Enlarged
  <2>. QED  BY <2>3, <2>4, <2>5
<1>5. DOMAIN elms' = 0..(n - 1)  BY <1>2, <1>3
<1>6. \A q \in 0..(n - 1) : elms'[q] = IF q = p THEN e ELSE Enlarged(n)[q]
  BY <1>2, <1>3
<1>7. ~ng_flag
  <2>1. CASE Full  BY <2>1 DEF Growable
  <2>2. CASE ~Full
    <3>1. alloc_size >= 0  BY <2>2, Numbers DEF Full
    <3>. QED  BY <3>1 DEF InBounds, RingType
  <2>. QED  BY <2>1, <2>2
<1>8. InBounds'
  <2>1. size' \in Nat /\ offset' \in Nat /\ alloc_size' \in Nat
    BY <1>1, <1>2, Numbers
  <2>2. /\ ref' \in Nat /\ ng_flag' \in BOOLEAN /\ ~ng_flag' /\ called' \in BOOLEAN
        /\ state' \in {"live", "destroyed", "error"}
    BY <1>2, <1>7 DEF InBounds, RingType
  <2>3. elms' = [i \in DOMAIN elms' |-> elms'[i]]  BY <1>2 DEF Enlarged
  <2>4. \A i \in DOMAIN elms' : i \in Nat /\ elms'[i] \in Elem \cup {None}
    BY <1>1, <1>4, <1>5, <1>6
  <2>5. /\ DOMAIN elms' = 0..alloc_size'
        /\ offset' <= alloc_size' /\ size' <= alloc_size' + 1
    BY <1>1, <1>2, <1>5, Numbers
  <2>6. ~(alloc_size' < 0) /\ alloc_size' \in Nat \cup {-1}  BY <2>1
  <2>7. RingType'  BY <2>1, <2>2, <2>3, <2>4, <2>6 DEF RingType
  <2>. QED  BY <2>2, <2>5, <2>6, <2>7 DEF InBounds
<1>. QED  BY <1>2, <1>5, <1>6, <1>8

(* An appended element comes after the others.                             *)
LEMMA Appended ==
  ASSUME RingInv, NEW e \in Elem, append_array(e)
  PROVE  /\ InBounds' /\ size' = size + 1
         /\ \A k \in 0..size :
              Element(k)' = IF k = size THEN e ELSE Element(k)
<1>1. InBounds /\ Growable  BY DEF RingInv, append_array
<1>2. PICK n \in NewSizes : Put(n, NewOffset, (size + NewOffset) % n, e)
  BY DEF append_array
<1>. DEFINE o == NewOffset
<1>3. /\ n \in Nat \ {0} /\ n > size /\ o \in 0..(n - 1)
      /\ \A i \in 0..(size - 1) : Enlarged(n)[Place(i, o, n)] = Element(i)
  BY <1>1, Growth
<1>4. size \in Nat  BY <1>1, Numbers
<1>. HIDE DEF o
<1>5. (size + o) % n = Place(size, o, n)  BY <1>3, <1>4, PlaceIsMod DEF Place
<1>6. Place(size, o, n) \in 0..(n - 1)  BY <1>3, <1>4 DEF Place
<1>7. Put(n, o, Place(size, o, n), e)  BY <1>2, <1>5 DEF o
<1>8. /\ InBounds' /\ size' = size + 1 /\ offset' = o /\ alloc_size' = n - 1
      /\ \A q \in 0..(n - 1) :
           elms'[q] = IF q = Place(size, o, n) THEN e ELSE Enlarged(n)[q]
  BY <1>1, <1>3, <1>6, <1>7, PutInBounds
<1>9. ASSUME NEW k \in 0..size
      PROVE  Element(k)' = IF k = size THEN e ELSE Element(k)
  <2>1. Place(k, o, n) \in 0..(n - 1)  BY <1>3, <1>4 DEF Place
  <2>2. Place(k, o, n) = Place(size, o, n) <=> k = size
    BY <1>3, <1>4 DEF Place
  <2>3. array_ref(k)' = Place(k, o, n)
    <3>1. (k + o) % n = Place(k, o, n)  BY <1>3, <1>4, PlaceIsMod DEF Place
    <3>2. ~(alloc_size' < 0) /\ alloc_size' + 1 = n  BY <1>3, <1>8
    <3>. QED  BY <1>8, <3>1, <3>2 DEF array_ref, And
  <2>4. Element(k)' = elms'[Place(k, o, n)]  BY <2>3 DEF Element
  <2>5. CASE k = size  BY <1>8, <2>1, <2>2, <2>4, <2>5
  <2>6. CASE k # size
    <3>1. k \in 0..(size - 1)  BY <1>4, <2>6
    <3>. QED  BY <1>3, <1>8, <2>1, <2>2, <2>4, <2>6, <3>1
  <2>. QED  BY <2>5, <2>6
<1>. QED  BY <1>8, <1>9

(* An inserted element comes before the others.                            *)
LEMMA Inserted ==
  ASSUME RingInv, NEW e \in Elem, insert_array(e)
  PROVE  /\ InBounds' /\ size' = size + 1
         /\ \A k \in 0..size :
              Element(k)' = IF k = 0 THEN e ELSE Element(k - 1)
<1>1. InBounds /\ Growable  BY DEF RingInv, insert_array
<1>2. PICK n \in NewSizes :
        Put(n, (NewOffset - 1) % n, (NewOffset - 1) % n, e)
  BY DEF insert_array
<1>. DEFINE old == NewOffset
            o == IF old = 0 THEN n - 1 ELSE old - 1
<1>3. /\ n \in Nat \ {0} /\ n > size /\ old \in 0..(n - 1)
      /\ \A i \in 0..(size - 1) : Enlarged(n)[Place(i, old, n)] = Element(i)
  BY <1>1, Growth
<1>4. size \in Nat  BY <1>1, Numbers
<1>5. (NewOffset - 1) % n = o
  <2>. HIDE DEF old
  <2>1. CASE old = 0
    <3>1. old - 1 = -1 /\ (-1) % n = n - 1  BY <1>3, <2>1, ModMinus
    <3>2. (old - 1) % n = o  BY <2>1, <3>1
    <3>. QED  BY <3>2 DEF old
  <2>2. CASE old # 0
    <3>1. old - 1 \in 0..(n - 1)  BY <1>3, <2>2
    <3>2. (old - 1) % n = o  BY <1>3, <2>2, <3>1, ModSmall
    <3>. QED  BY <3>2 DEF old
  <2>. QED  BY <2>1, <2>2
<1>6. Put(n, o, o, e)  BY <1>2, <1>5
<1>. HIDE DEF old
<1>7. o \in 0..(n - 1)  BY <1>3
<1>8. /\ InBounds' /\ size' = size + 1 /\ offset' = o /\ alloc_size' = n - 1
      /\ \A q \in 0..(n - 1) : elms'[q] = IF q = o THEN e ELSE Enlarged(n)[q]
  BY <1>1, <1>3, <1>6, <1>7, PutInBounds
<1>9. ASSUME NEW k \in 0..size
      PROVE  Element(k)' = IF k = 0 THEN e ELSE Element(k - 1)
  <2>1. Place(k, o, n) \in 0..(n - 1)  BY <1>3, <1>4, <1>7 DEF Place
  <2>2. Place(k, o, n) = o <=> k = 0  BY <1>3, <1>4, <1>7 DEF Place
  <2>3. k # 0 => Place(k, o, n) = Place(k - 1, old, n)
    BY <1>3, <1>4 DEF Place
  <2>4. array_ref(k)' = Place(k, o, n)
    <3>1. (k + o) % n = Place(k, o, n)
      <4>. HIDE DEF o
      <4>1. k \in 0..n  BY <1>3, <1>4
      <4>. QED  BY <1>3, <1>7, <4>1, PlaceIsMod DEF Place
    <3>2. ~(alloc_size' < 0) /\ alloc_size' + 1 = n  BY <1>3, <1>8
    <3>. QED  BY <1>8, <3>1, <3>2 DEF array_ref, And
  <2>5. Element(k)' = elms'[Place(k, o, n)]  BY <2>4 DEF Element
  <2>6. CASE k = 0  BY <1>8, <2>1, <2>2, <2>5, <2>6
  <2>7. CASE k # 0
    <3>1. k - 1 \in 0..(size - 1)  BY <1>4, <2>7
    <3>2. elms'[Place(k, o, n)] = Enlarged(n)[Place(k, o, n)]
      BY <1>8, <2>1, <2>2, <2>7
    <3>. QED  BY <1>3, <2>3, <2>5, <2>7, <3>1, <3>2
  <2>. QED  BY <2>6, <2>7
<1>. QED  BY <1>8, <1>9

(* shift_array at the front moves the offset over the elements that leave. *)
LEMMA ShiftedFront ==
  ASSUME RingInv, NEW n \in 0..size, shift_front(n)
  PROVE  /\ InBounds' /\ size' = size - n
         /\ \A k \in 0..(size - n - 1) : Element(k)' = Element(k + n)
<1>1. InBounds  BY DEF RingInv
<1>2. /\ size' = size - n /\ offset' = And(offset + n, alloc_size)
      /\ UNCHANGED <<alloc_size, elms, ref, ng_flag, called, state>>
  BY DEF shift_front, Rest
<1>3. size \in Nat /\ offset \in Nat /\ size - n \in Nat /\ n \in Nat
  BY <1>1, Numbers
<1>4. CASE alloc_size < 0
  <2>1. offset' = offset + n /\ alloc_size' < 0  BY <1>2, <1>4 DEF And
  <2>2. ASSUME NEW k \in 0..(size - n - 1)
        PROVE  /\ Element(k)' = Element(k + n)
               /\ k + offset' \in DOMAIN elms'
    <3>1. /\ array_ref(k)' = k + offset' /\ array_ref(k + n) = (k + n) + offset
          /\ k + n \in 0..(size - 1) /\ k + offset' = (k + n) + offset
      BY <1>2, <1>3, <1>4, <2>1 DEF array_ref, And
    <3>2. Element(k)' = Element(k + n)  BY <1>2, <3>1 DEF Element
    <3>3. (k + n) + offset \in DOMAIN elms  BY <1>1, <1>4, <3>1 DEF InBounds
    <3>. QED  BY <1>2, <3>1, <3>2, <3>3
  <2>3. RingType'
    BY <1>1, <1>2, <1>3, <2>1 DEF InBounds, RingType
  <2>4. InBounds'  BY <1>2, <2>1, <2>2, <2>3 DEF InBounds
  <2>. QED  BY <1>2, <2>2, <2>4
<1>5. CASE alloc_size >= 0
  <2>. DEFINE N == alloc_size + 1
              o == Place(n, offset, N)
  <2>0. alloc_size \in Nat /\ ~(alloc_size < 0)  BY <1>1, <1>5, Numbers
  <2>1. N \in Nat \ {0} /\ offset \in 0..(N - 1) /\ n \in 0..N /\ size <= N
    BY <1>1, <1>3, <1>5, Numbers
  <2>2. o \in 0..(N - 1)  BY <2>1 DEF Place
  <2>3. offset' = o
    <3>1. (n + offset) % N = o  BY <2>1, PlaceIsMod DEF Place
    <3>2. n + offset = offset + n  BY <1>3
    <3>. QED  BY <1>2, <2>0, <3>1, <3>2 DEF And
  <2>4. ASSUME NEW k \in 0..(size - n - 1)
        PROVE  Element(k)' = Element(k + n)
    <3>1. k + n \in 0..size /\ k \in 0..N  BY <1>3, <2>1
    <3>2. array_ref(k + n) = Place(k + n, offset, N)
      BY <1>1, <1>5, <3>1, PlaceOfElement
    <3>3. array_ref(k)' = Place(k, o, N)
      <4>. HIDE DEF o, N
      <4>1. (k + o) % N = Place(k, o, N)  BY <2>1, <2>2, <3>1, PlaceIsMod DEF Place
      <4>2. ~(alloc_size' < 0) /\ alloc_size' + 1 = N  BY <1>2, <2>0 DEF N
      <4>. QED  BY <2>3, <4>1, <4>2 DEF array_ref, And
    <3>4. Place(k, o, N) = Place(k + n, offset, N)
      BY <1>3, <2>1, <3>1 DEF Place
    <3>. QED  BY <1>2, <3>2, <3>3, <3>4 DEF Element
  <2>5. RingType'
    BY <1>1, <1>2, <1>3, <2>2, <2>3 DEF InBounds, RingType
  <2>6. /\ ~(alloc_size' < 0) /\ DOMAIN elms' = 0..alloc_size'
        /\ offset' <= alloc_size' /\ size' <= alloc_size' + 1
    BY <1>1, <1>2, <1>3, <1>5, <2>1, <2>2, <2>3, Numbers
  <2>7. ~ng_flag'  BY <1>1, <1>2, <2>0 DEF InBounds
  <2>8. InBounds'  BY <2>5, <2>6, <2>7 DEF InBounds
  <2>. QED  BY <1>2, <2>4, <2>8
<1>. QED  BY <1>1, <1>4, <1>5, Numbers

(* At the back it does not.                                                *)
LEMMA ShiftedBack ==
  ASSUME RingInv, NEW n \in 0..size, shift_back(n)
  PROVE  /\ InBounds' /\ size' = size - n
         /\ \A k \in 0..(size - n - 1) : Element(k)' = Element(k)
<1>1. InBounds  BY DEF RingInv
<1>2. /\ size' = size - n
      /\ UNCHANGED <<offset, alloc_size, elms, ref, ng_flag, called, state>>
  BY DEF shift_back, Rest
<1>3. size \in Nat /\ size - n \in Nat /\ n \in Nat  BY <1>1, Numbers
<1>4. RingType'  BY <1>1, <1>2, <1>3 DEF InBounds, RingType
<1>5. InBounds'
  <2>1. CASE alloc_size < 0
    BY <1>1, <1>2, <1>3, <1>4, <2>1 DEF InBounds
  <2>2. CASE alloc_size >= 0
    <3>1. size' <= alloc_size' + 1 /\ ~(alloc_size' < 0) /\ ~(alloc_size < 0)
      BY <1>1, <1>2, <1>3, <2>2, Numbers
    <3>2. /\ DOMAIN elms' = 0..alloc_size' /\ offset' <= alloc_size' /\ ~ng_flag'
      BY <1>1, <1>2, <3>1 DEF InBounds
    <3>. QED  BY <1>4, <3>1, <3>2 DEF InBounds
  <2>. QED  BY <1>1, <2>1, <2>2, Numbers
<1>6. \A k \in 0..(size - n - 1) : Element(k)' = Element(k)
  BY <1>2 DEF Element, array_ref
<1>. QED  BY <1>2, <1>5, <1>6

(* An assignment changes one element only.                                 *)
LEMMA Assigned ==
  ASSUME RingInv, NEW i \in 0..(size - 1), NEW e \in Elem,
         array_subscript(i, e)
  PROVE  /\ InBounds' /\ size' = size
         /\ \A k \in 0..(size - 1) :
              Element(k)' = IF k = i THEN e ELSE Element(k)
<1>1. InBounds  BY DEF RingInv
<1>2. /\ elms' = [elms EXCEPT ![array_ref(i)] = e]
      /\ UNCHANGED <<size, offset, alloc_size, ref, ng_flag, called, state>>
  BY DEF array_subscript, Rest
<1>3. array_ref(i) \in DOMAIN elms  BY <1>1, RefInBuffer
<1>4. DOMAIN elms' = DOMAIN elms /\ elms' = [p \in DOMAIN elms' |-> elms'[p]]
  BY <1>2
<1>5. \A p \in DOMAIN elms :
        elms'[p] = IF p = array_ref(i) THEN e ELSE elms[p]
  BY <1>2
<1>6. RingType'
  <2>1. \A p \in DOMAIN elms' : p \in Nat /\ elms'[p] \in Elem \cup {None}
    BY <1>1, <1>4, <1>5 DEF InBounds, RingType
  <2>. QED  BY <1>1, <1>2, <1>4, <2>1 DEF InBounds, RingType
<1>7. InBounds'  BY <1>1, <1>2, <1>4, <1>6 DEF InBounds
<1>8. ASSUME NEW k \in 0..(size - 1)
      PROVE  Element(k)' = IF k = i THEN e ELSE Element(k)
  <2>1. array_ref(k)' = array_ref(k)  BY <1>2 DEF array_ref
  <2>2. array_ref(k) \in DOMAIN elms  BY <1>1, RefInBuffer
  <2>3. array_ref(k) = array_ref(i) <=> k = i  BY <1>1, RefInjective
  <2>. QED  BY <1>5, <2>1, <2>2, <2>3 DEF Element
<1>. QED  BY <1>2, <1>7, <1>8

(* ngarray_to_array: $* gets a buffer of its own.                          *)
LEMMA Copied ==
  ASSUME RingInv, delete_mc, ref # 1
  PROVE  /\ InBounds' /\ size' = size
         /\ \A k \in 0..(size - 1) : Element(k)' = Element(k)
<1>1. InBounds /\ ng_flag  BY DEF RingInv, delete_mc
<1>2. alloc_size = -1
  <2>1. alloc_size < 0  BY <1>1 DEF InBounds
  <2>. QED  BY <1>1, <2>1, Numbers
<1>3. /\ ref' = ref - 1 /\ ng_flag' = FALSE /\ offset' = 0 /\ called' = FALSE
      /\ elms' = [i \in 0..(AVOID_ZERO(size) - 1) |->
                    IF size = 0 THEN None ELSE elms[i + offset]]
      /\ UNCHANGED <<size, alloc_size, state>>
  BY DEF delete_mc
<1>4. size \in Nat /\ ref' \in Nat
  <2>1. ref # 0  BY DEF RingInv, delete_mc, Live
  <2>2. ref \in Nat  BY <1>1 DEF InBounds, RingType
  <2>. QED  BY <1>1, <1>3, <2>1, <2>2, Numbers
<1>5. DOMAIN elms' = 0..(AVOID_ZERO(size) - 1)  BY <1>3
<1>6. ASSUME NEW k \in 0..(size - 1)
      PROVE  /\ k \in DOMAIN elms' /\ array_ref(k)' = k
             /\ elms'[k] = Element(k) /\ Element(k)' = Element(k)
  <2>1. size # 0 /\ k \in 0..(AVOID_ZERO(size) - 1)
    BY <1>4 DEF AVOID_ZERO
  <2>2. elms'[k] = elms[k + offset]  BY <1>3, <2>1
  <2>3. array_ref(k) = k + offset  BY <1>2 DEF array_ref, And
  <2>4. array_ref(k)' = k  BY <1>2, <1>3 DEF array_ref, And
  <2>. QED  BY <1>5, <2>1, <2>2, <2>3, <2>4 DEF Element
<1>7. \A p \in DOMAIN elms' : p \in Nat /\ elms'[p] \in Elem \cup {None}
  <2>1. SUFFICES ASSUME NEW p \in DOMAIN elms'
                 PROVE  p \in Nat /\ elms'[p] \in Elem \cup {None}
    OBVIOUS
  <2>2. p \in Nat  BY <1>4, <1>5, <2>1 DEF AVOID_ZERO
  <2>3. CASE size = 0  BY <1>3, <1>5, <2>2, <2>3
  <2>4. CASE size # 0
    <3>1. p \in 0..(size - 1)  BY <1>4, <1>5, <2>1, <2>4 DEF AVOID_ZERO
    <3>. QED  BY <1>6, <2>2, <3>1 DEF RingInv, Elements
  <2>. QED  BY <2>3, <2>4
<1>8. RingType'
  <2>1. elms' = [p \in DOMAIN elms' |-> elms'[p]]  BY <1>3
  <2>2. ng_flag' \in BOOLEAN /\ called' \in BOOLEAN  BY <1>3
  <2>3. state' \in {"live", "destroyed", "error"}
    BY <1>1, <1>3 DEF InBounds, RingType
  <2>4. size' \in Nat /\ offset' \in Nat /\ alloc_size' \in Nat \cup {-1}
    BY <1>2, <1>3, <1>4
  <2>. QED  BY <1>4, <1>7, <2>1, <2>2, <2>3, <2>4 DEF RingType
<1>9. InBounds'
  <2>1. alloc_size' < 0  BY <1>2, <1>3
  <2>2. ASSUME NEW k \in 0..(size' - 1)  PROVE k + offset' \in DOMAIN elms'
    <3>1. size' = size /\ offset' = 0  BY <1>3
    <3>2. k \in 0..(size - 1)  BY <3>1
    <3>3. k + offset' = k  BY <3>1
    <3>. QED  BY <1>6, <3>2, <3>3
  <2>. QED  BY <1>8, <2>1, <2>2 DEF InBounds
<1>10. size' = size  BY <1>3
<1>. QED  BY <1>6, <1>9, <1>10

(* What leaves the buffer, the offset and the elements alone keeps them,   *)
(* and so does the last free, after which there is no element.             *)
LEMMA Untouched ==
  ASSUME RingInv, UNCHANGED buffer, RingType'
  PROVE  /\ \A k \in 0..(size - 1) : Element(k)' = Element(k)
         /\ (alloc_size < 0 \/ ng_flag' = ng_flag) => InBounds'
<1>1. UNCHANGED <<size, offset, alloc_size, elms>>  BY DEF buffer
<1>2. \A k \in 0..(size - 1) : Element(k)' = Element(k)
  BY <1>1 DEF Element, array_ref
<1>3. (alloc_size < 0 \/ ng_flag' = ng_flag) => InBounds'
  BY <1>1 DEF RingInv, InBounds
<1>. QED  BY <1>2, <1>3

LEMMA DestroyedInBounds ==
  ASSUME RingInv, Destroyed, called' \in BOOLEAN
  PROVE  InBounds' /\ size' = 0
<1>1. InBounds  BY DEF RingInv
<1>2. /\ state' = "destroyed" /\ ref' = 0 /\ size' = 0
      /\ UNCHANGED <<offset, alloc_size, elms, ng_flag>>
  BY DEF Destroyed
<1>3. RingType'  BY <1>1, <1>2 DEF InBounds, RingType
<1>4. CASE alloc_size < 0
  <2>1. \A i \in 0..(size' - 1) : i + offset' \in DOMAIN elms'  BY <1>2
  <2>2. alloc_size' < 0  BY <1>2, <1>4
  <2>. QED  BY <1>2, <1>3, <2>1, <2>2 DEF InBounds
<1>5. CASE ~(alloc_size < 0)
  <2>1. size' <= alloc_size' + 1  BY <1>1, <1>2, <1>5, Numbers
  <2>2. /\ DOMAIN elms' = 0..alloc_size' /\ offset' <= alloc_size' /\ ~ng_flag'
    BY <1>1, <1>2, <1>5 DEF InBounds
  <2>3. ~(alloc_size' < 0)  BY <1>2, <1>5
  <2>. QED  BY <1>2, <1>3, <2>1, <2>2, <2>3 DEF InBounds
<1>. QED  BY <1>4, <1>5

-----------------------------------------------------------------------------
(* The invariant.                                                          *)
LEMMA RingInit == ASSUME Init PROVE RingInv
<1>1. PICK n \in Initial, ng \in BOOLEAN : Created(n, ng) /\ called = ng
  BY DEF Init
<1>2. n \in Nat  BY RingAssumption
<1>3. /\ size = n /\ offset = 0 /\ alloc_size = -1 /\ ref = 1 /\ ng_flag = ng
      /\ elms \in [0..(AVOID_ZERO(n) - 1) -> IF n = 0 THEN {None} ELSE Elem]
      /\ state = "live"
  BY <1>1 DEF Created, Init
<1>4. \A i \in 0..(AVOID_ZERO(n) - 1) : i \in Nat  OBVIOUS
<1>5. DOMAIN elms = 0..(AVOID_ZERO(n) - 1)  BY <1>3
<1>6. \A i \in DOMAIN elms : elms[i] \in IF n = 0 THEN {None} ELSE Elem
  BY <1>3, <1>5
<1>7. RingType
  <2>1. size \in Nat /\ offset \in Nat /\ alloc_size \in Nat \cup {-1} /\ ref \in Nat
    BY <1>2, <1>3
  <2>2. ng_flag \in BOOLEAN /\ called \in BOOLEAN  BY <1>1, <1>3
  <2>3. elms = [i \in DOMAIN elms |-> elms[i]]  BY <1>3
  <2>4. \A i \in DOMAIN elms : i \in Nat /\ elms[i] \in Elem \cup {None}
    BY <1>4, <1>5, <1>6
  <2>. QED  BY <1>3, <2>1, <2>2, <2>3, <2>4 DEF RingType
<1>8. ASSUME NEW i \in 0..(size - 1)
      PROVE  i + offset \in DOMAIN elms /\ Element(i) \in Elem
  <2>1. n # 0 /\ i + offset = i /\ i \in 0..(AVOID_ZERO(n) - 1)
    BY <1>2, <1>3 DEF AVOID_ZERO
  <2>2. array_ref(i) = i  BY <1>3, <2>1 DEF array_ref, And
  <2>. QED  BY <1>5, <1>6, <2>1, <2>2 DEF Element
<1>9. InBounds
  <2>1. alloc_size < 0  BY <1>3
  <2>. QED  BY <1>7, <1>8, <2>1 DEF InBounds
<1>. QED  BY <1>1, <1>3, <1>8, <1>9 DEF RingInv, Elements

-----------------------------------------------------------------------------
(* What the program sees.                                                  *)
Contents == [k \in 1..size |-> Element(k - 1)]

LEMMA IndexedSeq ==
  ASSUME NEW S, NEW n \in Nat, NEW f \in [1..n -> S]
  PROVE  f \in Seq(S) /\ Len(f) = n
  OBVIOUS

LEMMA ContentsSeq ==
  ASSUME RingInv
  PROVE  /\ Contents \in Seq(Elem) /\ Len(Contents) = size
         /\ \A k \in 1..size : Contents[k] = Element(k - 1)
<1>1. size \in Nat  BY Numbers DEF RingInv
<1>2. \A k \in 1..size : k - 1 \in 0..(size - 1)  BY <1>1
<1>3. Contents \in [1..size -> Elem]  BY <1>2 DEF RingInv, Elements, Contents
<1>. QED  BY <1>1, <1>3, IndexedSeq DEF Contents

LEMMA NextContents ==
  ASSUME size' \in Nat, \A k \in 0..(size' - 1) : Element(k)' \in Elem
  PROVE  /\ Contents' \in Seq(Elem) /\ Len(Contents') = size'
         /\ \A k \in 1..size' : Contents'[k] = Element(k - 1)'
<1>1. \A n \in Nat : \A k \in 1..n : k - 1 \in 0..(n - 1)  OBVIOUS
<1>2. \A k \in 1..size' : k - 1 \in 0..(size' - 1)  BY <1>1
<1>3. Contents' \in [1..size' -> Elem]  BY <1>2 DEF Contents
<1>. QED  BY <1>3, IndexedSeq DEF Contents

(* The elements after a step, all of them elements.                        *)
LEMMA NextElements ==
  ASSUME InBounds', \A k \in 0..(size' - 1) : Element(k)' \in Elem,
         called' => ng_flag', state' = "live" => ref' # 0
  PROVE  RingInv'
  BY DEF RingInv, Elements

LEMMA AppendStep ==
  ASSUME RingInv, NEW e \in Elem, append_array(e)
  PROVE  RingInv' /\ Array!AppendElem(e)
<1>1. /\ InBounds' /\ size' = size + 1
      /\ \A k \in 0..size : Element(k)' = IF k = size THEN e ELSE Element(k)
  BY Appended
<1>2. size \in Nat  BY Numbers DEF RingInv
<1>3. \A k \in 0..(size' - 1) : Element(k)' \in Elem
  BY <1>1, <1>2 DEF RingInv, Elements
<1>4. freed' = <<>> /\ UNCHANGED <<ref, ng_flag, called, state>>
  BY DEF append_array, Put, Rest
<1>5. RingInv'  BY <1>1, <1>3, <1>4, NextElements DEF RingInv
<1>6. /\ Contents \in Seq(Elem) /\ Len(Contents) = size
      /\ \A k \in 1..size : Contents[k] = Element(k - 1)
  BY ContentsSeq
<1>7. /\ Contents' \in Seq(Elem) /\ Len(Contents') = size + 1
      /\ \A k \in 1..(size + 1) : Contents'[k] = Element(k - 1)'
  BY <1>1, <1>2, <1>3, NextContents
<1>8. /\ Append(Contents, e) \in Seq(Elem)
      /\ Len(Append(Contents, e)) = size + 1
      /\ \A k \in 1..size : Append(Contents, e)[k] = Contents[k]
      /\ Append(Contents, e)[size + 1] = e
  BY <1>6, AppendProperties
<1>9. ASSUME NEW k \in 1..(size + 1)
      PROVE  Contents'[k] = Append(Contents, e)[k]
  <2>1. k - 1 \in 0..size  BY <1>2
  <2>2. Contents'[k] = IF k - 1 = size THEN e ELSE Element(k - 1)
    BY <1>1, <1>7, <2>1
  <2>3. CASE k = size + 1  BY <1>2, <1>8, <2>2, <2>3
  <2>4. CASE k # size + 1
    <3>1. k \in 1..size /\ k - 1 # size  BY <1>2, <2>4
    <3>. QED  BY <1>6, <1>8, <2>2, <3>1
  <2>. QED  BY <2>3, <2>4
<1>10. Contents' = Append(Contents, e)  BY <1>7, <1>8, <1>9, SeqEqual
<1>. QED  BY <1>4, <1>5, <1>10 DEF Array!AppendElem, Contents

LEMMA InsertStep ==
  ASSUME RingInv, NEW e \in Elem, insert_array(e)
  PROVE  RingInv' /\ Array!InsertElem(e)
<1>1. /\ InBounds' /\ size' = size + 1
      /\ \A k \in 0..size : Element(k)' = IF k = 0 THEN e ELSE Element(k - 1)
  BY Inserted
<1>2. size \in Nat  BY Numbers DEF RingInv
<1>3. ASSUME NEW k \in 0..(size' - 1)  PROVE Element(k)' \in Elem
  <2>1. k \in 0..size  BY <1>1, <1>2
  <2>2. CASE k = 0  BY <1>1, <2>1, <2>2
  <2>3. CASE k # 0
    <3>1. k - 1 \in 0..(size - 1)  BY <1>2, <2>1, <2>3
    <3>. QED  BY <1>1, <2>1, <2>3, <3>1 DEF RingInv, Elements
  <2>. QED  BY <2>2, <2>3
<1>4. freed' = <<>> /\ UNCHANGED <<ref, ng_flag, called, state>>
  BY DEF insert_array, Put, Rest
<1>5. RingInv'  BY <1>1, <1>3, <1>4, NextElements DEF RingInv
<1>6. /\ Contents \in Seq(Elem) /\ Len(Contents) = size
      /\ \A k \in 1..size : Contents[k] = Element(k - 1)
  BY ContentsSeq
<1>7. /\ Contents' \in Seq(Elem) /\ Len(Contents') = size + 1
      /\ \A k \in 1..(size + 1) : Contents'[k] = Element(k - 1)'
  BY <1>1, <1>2, <1>3, NextContents
<1>8. <<e>> \in Seq(Elem) /\ Len(<<e>>) = 1 /\ <<e>>[1] = e  OBVIOUS
<1>9. /\ <<e>> \o Contents \in Seq(Elem)
      /\ Len(<<e>> \o Contents) = size + 1
      /\ \A k \in 1..(size + 1) :
           (<<e>> \o Contents)[k] = IF k <= 1 THEN e ELSE Contents[k - 1]
  BY <1>2, <1>6, <1>8, ConcatProperties
<1>10. ASSUME NEW k \in 1..(size + 1)
       PROVE  Contents'[k] = (<<e>> \o Contents)[k]
  <2>1. k - 1 \in 0..size  BY <1>2
  <2>2. Contents'[k] = IF k - 1 = 0 THEN e ELSE Element((k - 1) - 1)
    BY <1>1, <1>7, <2>1
  <2>3. CASE k = 1  BY <1>9, <2>2, <2>3
  <2>4. CASE k # 1
    <3>1. k - 1 \in 1..size /\ ~(k <= 1) /\ k - 1 # 0  BY <1>2, <2>4
    <3>. QED  BY <1>6, <1>9, <2>2, <3>1
  <2>. QED  BY <2>3, <2>4
<1>11. Contents' = <<e>> \o Contents  BY <1>7, <1>9, <1>10, SeqEqual
<1>. QED  BY <1>4, <1>5, <1>11 DEF Array!InsertElem, Contents

LEMMA ShiftFrontStep ==
  ASSUME RingInv, NEW n \in 0..size, shift_front(n)
  PROVE  RingInv' /\ Array!ShiftFront(n) /\ n \in 0..Len(Contents)
<1>1. /\ InBounds' /\ size' = size - n
      /\ \A k \in 0..(size - n - 1) : Element(k)' = Element(k + n)
  BY ShiftedFront
<1>2. size \in Nat /\ n \in Nat /\ n <= size  BY Numbers DEF RingInv
<1>3. ASSUME NEW k \in 0..(size' - 1)  PROVE Element(k)' \in Elem
  <2>1. k \in 0..(size - n - 1) /\ k + n \in 0..(size - 1)  BY <1>1, <1>2
  <2>. QED  BY <1>1, <2>1 DEF RingInv, Elements
<1>4. /\ freed' = [k \in 1..n |-> Element(k - 1)]
      /\ UNCHANGED <<ref, ng_flag, called, state>>
  BY DEF shift_front, Rest
<1>5. RingInv'  BY <1>1, <1>3, <1>4, NextElements DEF RingInv
<1>6. /\ Contents \in Seq(Elem) /\ Len(Contents) = size
      /\ \A k \in 1..size : Contents[k] = Element(k - 1)
  BY ContentsSeq
<1>7. /\ Contents' \in Seq(Elem) /\ Len(Contents') = size - n
      /\ \A k \in 1..(size - n) : Contents'[k] = Element(k - 1)'
  BY <1>1, <1>2, <1>3, NextContents
<1>8. \A k \in 1..size : Contents[k] \in Elem  BY <1>6, ElementOfSeq
<1>9. Contents' = SubSeq(Contents, n + 1, size)
  <2>. DEFINE t == SubSeq(Contents, n + 1, size)
  <2>1. \A k \in (n + 1)..size : Contents[k] \in Elem  BY <1>2, <1>8
  <2>2. /\ t \in Seq(Elem)
        /\ Len(t) = IF n + 1 <= size THEN size - (n + 1) + 1 ELSE 0
        /\ \A k \in 1..(size - (n + 1) + 1) : t[k] = Contents[(n + 1) + k - 1]
    BY <1>2, <2>1, SubSeqProperties
  <2>3. Len(t) = size - n  BY <1>2, <2>2
  <2>4. ASSUME NEW k \in 1..(size - n)  PROVE Contents'[k] = t[k]
    <3>1. /\ k \in 1..(size - (n + 1) + 1) /\ (n + 1) + k - 1 = k + n
          /\ k + n \in 1..size /\ k - 1 \in 0..(size - n - 1)
          /\ (k - 1) + n = (k + n) - 1
      BY <1>2
    <3>2. t[k] = Element((k + n) - 1)  BY <1>6, <2>2, <3>1
    <3>. QED  BY <1>1, <1>7, <3>1, <3>2
  <2>. QED  BY <1>7, <2>2, <2>3, <2>4, SeqEqual
<1>10. freed' = SubSeq(Contents, 1, n)
  <2>. DEFINE t == SubSeq(Contents, 1, n)
  <2>1. \A k \in 1..n : Contents[k] \in Elem  BY <1>2, <1>8
  <2>2. /\ t \in Seq(Elem) /\ Len(t) = IF 1 <= n THEN n - 1 + 1 ELSE 0
        /\ \A k \in 1..(n - 1 + 1) : t[k] = Contents[1 + k - 1]
    BY <1>2, <2>1, SubSeqProperties
  <2>3. Len(t) = n  BY <1>2, <2>2
  <2>4. ASSUME NEW k \in 1..n
        PROVE  t[k] = Element(k - 1) /\ Element(k - 1) \in Elem
    <3>1. k \in 1..(n - 1 + 1) /\ 1 + k - 1 = k /\ k \in 1..size  BY <1>2
    <3>. QED  BY <1>6, <1>8, <2>2, <3>1
  <2>5. freed' \in [1..n -> Elem]  BY <1>4, <2>4
  <2>6. freed' \in Seq(Elem) /\ Len(freed') = n  BY <1>2, <2>5, IndexedSeq
  <2>7. \A k \in 1..n : freed'[k] = t[k]  BY <1>4, <2>4
  <2>. QED  BY <2>2, <2>3, <2>6, <2>7, SeqEqual
<1>11. n \in 0..Len(Contents)  BY <1>2, <1>6
<1>12. Array!ShiftFront(n)
  BY <1>6, <1>9, <1>10 DEF Array!ShiftFront, Contents
<1>. QED  BY <1>5, <1>11, <1>12

LEMMA ShiftBackStep ==
  ASSUME RingInv, NEW n \in 0..size, shift_back(n)
  PROVE  RingInv' /\ Array!ShiftBack(n) /\ n \in 0..Len(Contents)
<1>1. /\ InBounds' /\ size' = size - n
      /\ \A k \in 0..(size - n - 1) : Element(k)' = Element(k)
  BY ShiftedBack
<1>2. size \in Nat /\ n \in Nat /\ n <= size  BY Numbers DEF RingInv
<1>3. ASSUME NEW k \in 0..(size' - 1)  PROVE Element(k)' \in Elem
  <2>1. k \in 0..(size - n - 1) /\ k \in 0..(size - 1)  BY <1>1, <1>2
  <2>. QED  BY <1>1, <2>1 DEF RingInv, Elements
<1>4. /\ freed' = [k \in 1..n |-> Element(size - k)]
      /\ UNCHANGED <<ref, ng_flag, called, state>>
  BY DEF shift_back, Rest
<1>5. RingInv'  BY <1>1, <1>3, <1>4, NextElements DEF RingInv
<1>6. /\ Contents \in Seq(Elem) /\ Len(Contents) = size
      /\ \A k \in 1..size : Contents[k] = Element(k - 1)
  BY ContentsSeq
<1>7. /\ Contents' \in Seq(Elem) /\ Len(Contents') = size - n
      /\ \A k \in 1..(size - n) : Contents'[k] = Element(k - 1)'
  BY <1>1, <1>2, <1>3, NextContents
<1>8. \A k \in 1..size : Contents[k] \in Elem  BY <1>6, ElementOfSeq
<1>9. Contents' = SubSeq(Contents, 1, size - n)
  <2>. DEFINE t == SubSeq(Contents, 1, size - n)
  <2>1. \A k \in 1..(size - n) : Contents[k] \in Elem  BY <1>2, <1>8
  <2>2. /\ t \in Seq(Elem)
        /\ Len(t) = IF 1 <= size - n THEN (size - n) - 1 + 1 ELSE 0
        /\ \A k \in 1..((size - n) - 1 + 1) : t[k] = Contents[1 + k - 1]
    BY <1>2, <2>1, SubSeqProperties
  <2>3. Len(t) = size - n  BY <1>2, <2>2
  <2>4. ASSUME NEW k \in 1..(size - n)  PROVE Contents'[k] = t[k]
    <3>1. /\ k \in 1..((size - n) - 1 + 1) /\ 1 + k - 1 = k
          /\ k \in 1..size /\ k - 1 \in 0..(size - n - 1)
      BY <1>2
    <3>2. t[k] = Element(k - 1)  BY <1>6, <2>2, <3>1
    <3>. QED  BY <1>1, <1>7, <3>1, <3>2
  <2>. QED  BY <1>7, <2>2, <2>3, <2>4, SeqEqual
<1>10. freed' = [k \in 1..n |-> Contents[size + 1 - k]]
  <2>1. \A k \in 1..n :
          size + 1 - k \in 1..size /\ (size + 1 - k) - 1 = size - k
    BY <1>2
  <2>2. \A k \in 1..n : Contents[size + 1 - k] = Element(size - k)
    BY <1>6, <2>1
  <2>. QED  BY <1>4, <2>2
<1>11. n \in 0..Len(Contents)  BY <1>2, <1>6
<1>12. /\ Contents' = SubSeq(Contents, 1, Len(Contents) - n)
       /\ freed' = [k \in 1..n |-> Contents[Len(Contents) + 1 - k]]
  BY <1>6, <1>9, <1>10
<1>13. Array!ShiftBack(n)
  BY <1>12, Zenon DEF Array!ShiftBack, Contents
<1>. QED  BY <1>5, <1>11, <1>13

LEMMA AssignStep ==
  ASSUME RingInv, NEW i \in 0..(size - 1), NEW e \in Elem,
         array_subscript(i, e)
  PROVE  RingInv' /\ Array!Assign(i + 1, e) /\ i + 1 \in 1..Len(Contents)
<1>1. /\ InBounds' /\ size' = size
      /\ \A k \in 0..(size - 1) :
           Element(k)' = IF k = i THEN e ELSE Element(k)
  BY Assigned
<1>2. size \in Nat  BY Numbers DEF RingInv
<1>3. \A k \in 0..(size' - 1) : Element(k)' \in Elem
  BY <1>1 DEF RingInv, Elements
<1>4. freed' = <<Element(i)>> /\ UNCHANGED <<ref, ng_flag, called, state>>
  BY DEF array_subscript, Rest
<1>5. RingInv'  BY <1>1, <1>3, <1>4, NextElements DEF RingInv
<1>6. /\ Contents \in Seq(Elem) /\ Len(Contents) = size
      /\ \A k \in 1..size : Contents[k] = Element(k - 1)
  BY ContentsSeq
<1>7. /\ Contents' \in Seq(Elem) /\ Len(Contents') = size
      /\ \A k \in 1..size : Contents'[k] = Element(k - 1)'
  BY <1>1, <1>2, <1>3, NextContents
<1>8. i + 1 \in 1..size /\ (i + 1) - 1 = i  BY <1>2
<1>9. Contents' = [Contents EXCEPT ![i + 1] = e]
  <2>. DEFINE t == [Contents EXCEPT ![i + 1] = e]
  <2>1. /\ t \in Seq(Elem) /\ Len(t) = size
        /\ \A k \in 1..size : t[k] = IF k = i + 1 THEN e ELSE Contents[k]
    BY <1>6, <1>8, ExceptSeq
  <2>2. ASSUME NEW k \in 1..size  PROVE Contents'[k] = t[k]
    <3>1. k - 1 \in 0..(size - 1) /\ (k = i + 1 <=> k - 1 = i)  BY <1>2
    <3>. QED  BY <1>1, <1>6, <1>7, <2>1, <3>1
  <2>. QED  BY <1>7, <2>1, <2>2, SeqEqual
<1>10. freed' = <<Contents[i + 1]>>  BY <1>4, <1>6, <1>8
<1>11. Array!Assign(i + 1, e)  BY <1>9, <1>10 DEF Array!Assign, Contents
<1>. QED  BY <1>5, <1>6, <1>8, <1>11

(* What keeps every element is a reference more or less.                   *)
LEMMA ReferStep ==
  ASSUME RingInv, InBounds', size' = size, freed' = <<>>,
         \A k \in 0..(size - 1) : Element(k)' = Element(k),
         called' => ng_flag', state' = "live" => ref' # 0
  PROVE  RingInv' /\ Array!Refer
<1>1. size \in Nat  BY Numbers DEF RingInv
<1>2. \A k \in 0..(size' - 1) : Element(k)' \in Elem  BY DEF RingInv, Elements
<1>3. RingInv'  BY <1>2, NextElements
<1>4. \A k \in 1..size : k - 1 \in 0..(size - 1)  BY <1>1
<1>5. Contents' = Contents  BY <1>4 DEF Contents
<1>. QED  BY <1>3, <1>5 DEF Array!Refer, Contents

LEMMA DestroyStep ==
  ASSUME RingInv, Destroyed, called' \in BOOLEAN, ~called'
  PROVE  RingInv' /\ Array!Destroy
<1>1. InBounds' /\ size' = 0  BY DestroyedInBounds
<1>2. state' = "destroyed" /\ freed' = [k \in 1..size |-> Element(k - 1)]
  BY DEF Destroyed
<1>3. RingInv'
  <2>1. \A k \in 0..(size' - 1) : Element(k)' \in Elem  BY <1>1
  <2>2. state' # "live"  BY <1>2
  <2>. QED  BY <1>1, <2>1, <2>2, NextElements
<1>4. Contents' \in Seq(Elem) /\ Len(Contents') = 0
  <2>1. size' \in Nat /\ \A k \in 0..(size' - 1) : Element(k)' \in Elem
    BY <1>1
  <2>. QED  BY <1>1, <2>1, NextContents
<1>5. Contents' = <<>>  BY <1>4, EmptySeq
<1>. QED  BY <1>2, <1>3, <1>5 DEF Array!Destroy, Contents

-----------------------------------------------------------------------------
(* Every step keeps the invariant and is one of the array, or leaves what  *)
(* the program sees as it is.                                              *)
LEMMA RingStep ==
  ASSUME RingInv, Next
  PROVE  RingInv' /\ [Array!Next]_(Array!avars)
<1>1. ASSUME NEW e \in Elem, append_array(e)
      PROVE  RingInv' /\ Array!Next
  BY <1>1, AppendStep DEF Array!Next
<1>2. ASSUME NEW e \in Elem, insert_array(e)
      PROVE  RingInv' /\ Array!Next
  BY <1>2, InsertStep DEF Array!Next
<1>3. ASSUME NEW n \in 0..size, shift_front(n)
      PROVE  RingInv' /\ Array!Next
  BY <1>3, ShiftFrontStep DEF Array!Next, Contents
<1>4. ASSUME NEW n \in 0..size, shift_back(n)
      PROVE  RingInv' /\ Array!Next
  BY <1>4, ShiftBackStep DEF Array!Next, Contents
<1>5. ASSUME NEW i \in 0..(size - 1), NEW e \in Elem, array_subscript(i, e)
      PROVE  RingInv' /\ Array!Next
  BY <1>5, AssignStep DEF Array!Next, Contents
<1>6. CASE cannot_grow
  <2>1. /\ UNCHANGED buffer /\ state' = "error" /\ freed' = <<>>
        /\ UNCHANGED <<ref, ng_flag, called>>
    BY <1>6 DEF cannot_grow
  <2>2. size' = size  BY <2>1 DEF buffer
  <2>3. RingType'
    BY <2>1 DEF RingInv, InBounds, RingType, buffer
  <2>4. InBounds' /\ \A k \in 0..(size - 1) : Element(k)' = Element(k)
    BY <2>1, <2>3, Untouched
  <2>5. called' => ng_flag'  BY <2>1 DEF RingInv
  <2>6. state' # "live"  BY <2>1
  <2>7. RingInv' /\ Array!Refer
    BY <2>1, <2>2, <2>4, <2>5, <2>6, ReferStep
  <2>. QED  BY <2>7 DEF Array!Next
<1>7. CASE copy_object
  <2>1. /\ UNCHANGED buffer /\ freed' = <<>> /\ ref' = ref + 1
        /\ UNCHANGED <<ng_flag, called, state>>
    BY <1>7 DEF copy_object
  <2>2. size' = size  BY <2>1 DEF buffer
  <2>3. ref \in Nat  BY DEF RingInv, InBounds, RingType
  <2>4. ref' \in Nat /\ ref' # 0  BY <2>1, <2>3
  <2>5. RingType'
    BY <2>1, <2>4 DEF RingInv, InBounds, RingType, buffer
  <2>6. InBounds' /\ \A k \in 0..(size - 1) : Element(k)' = Element(k)
    BY <2>1, <2>5, Untouched
  <2>7. called' => ng_flag'  BY <2>1 DEF RingInv
  <2>8. RingInv' /\ Array!Refer
    BY <2>1, <2>2, <2>4, <2>6, <2>7, ReferStep
  <2>. QED  BY <2>8 DEF Array!Next
<1>8. CASE free_array
  <2>1. CASE ref = 1
    <3>1. ~called /\ Destroyed /\ called' = called
      BY <1>8, <2>1 DEF free_array
    <3>2. called \in BOOLEAN  BY DEF RingInv, InBounds, RingType
    <3>3. ~called' /\ called' \in BOOLEAN  BY <3>1, <3>2
    <3>4. RingInv' /\ Array!Destroy  BY <3>1, <3>3, DestroyStep
    <3>. QED  BY <3>4 DEF Array!Next
  <2>2. CASE ref # 1
    <3>1. /\ UNCHANGED buffer /\ freed' = <<>> /\ ref' = ref - 1 /\ state = "live"
          /\ UNCHANGED <<ng_flag, called, state>>
      BY <1>8, <2>2 DEF free_array, Live
    <3>2. size' = size  BY <3>1 DEF buffer
    <3>3. ref \in Nat /\ ref # 0  BY <3>1 DEF RingInv, InBounds, RingType
    <3>4. ref' \in Nat /\ ref' # 0  BY <2>2, <3>1, <3>3
    <3>5. RingType'
      BY <3>1, <3>4 DEF RingInv, InBounds, RingType, buffer
    <3>6. InBounds' /\ \A k \in 0..(size - 1) : Element(k)' = Element(k)
      BY <3>1, <3>5, Untouched
    <3>7. called' => ng_flag'  BY <3>1 DEF RingInv
    <3>8. RingInv' /\ Array!Refer
      BY <3>1, <3>2, <3>4, <3>6, <3>7, ReferStep
    <3>. QED  BY <3>8 DEF Array!Next
  <2>. QED  BY <2>1, <2>2
<1>9. CASE delete_mc
  <2>1. CASE ref = 1
    <3>1. Destroyed /\ called' = FALSE  BY <1>9, <2>1 DEF delete_mc
    <3>2. ~called' /\ called' \in BOOLEAN  BY <3>1
    <3>3. RingInv' /\ Array!Destroy  BY <3>1, <3>2, DestroyStep
    <3>. QED  BY <3>3 DEF Array!Next
  <2>2. CASE ref # 1
    <3>1. /\ freed' = <<>> /\ ref' = ref - 1 /\ state = "live"
          /\ called' = FALSE /\ size' = size
      BY <1>9, <2>2 DEF delete_mc, Live
    <3>2. ref \in Nat /\ ref # 0  BY <3>1 DEF RingInv, InBounds, RingType
    <3>3. ref' # 0  BY <2>2, <3>1, <3>2
    <3>4. InBounds' /\ \A k \in 0..(size - 1) : Element(k)' = Element(k)
      BY <1>9, <2>2, Copied
    <3>5. ~called'  BY <3>1
    <3>6. RingInv' /\ Array!Refer  BY <3>1, <3>3, <3>4, <3>5, ReferStep
    <3>. QED  BY <3>6 DEF Array!Next
  <2>. QED  BY <2>1, <2>2
<1>10. CASE terminated
  <2>1. UNCHANGED vars  BY <1>10 DEF terminated
  <2>2. RingInv'
    BY <2>1 DEF vars, RingInv, InBounds, RingType, Elements, Element, array_ref
  <2>3. UNCHANGED Array!avars
    BY <2>1 DEF vars, Array!avars, Element, array_ref
  <2>. QED  BY <2>2, <2>3
<1>. QED
  BY <1>1, <1>2, <1>3, <1>4, <1>5, <1>6, <1>7, <1>8, <1>9, <1>10 DEF Next

LEMMA RingStutter ==
  ASSUME RingInv, UNCHANGED vars
  PROVE  RingInv' /\ UNCHANGED Array!avars
<1>1. RingInv'
  BY DEF vars, RingInv, InBounds, RingType, Elements, Element, array_ref
<1>2. UNCHANGED Array!avars
  BY DEF vars, Array!avars, Element, array_ref
<1>. QED  BY <1>1, <1>2

(* At first the array has the elements it was created with.                *)
LEMMA ArrayInit == ASSUME Init PROVE Array!Init
<1>1. Contents \in Seq(Elem)  BY RingInit, ContentsSeq
<1>2. freed = <<>>  BY DEF Init
<1>. QED  BY <1>1, <1>2 DEF Array!Init, Contents

-----------------------------------------------------------------------------
Mask == alloc_size >= 0 => IsPowerOfTwo(alloc_size + 1)

(* An odd divisor of 2 * n divides n.                                      *)
LEMMA Doubled ==
  ASSUME NEW n \in Nat \ {0}, IsPowerOfTwo(n)
  PROVE  IsPowerOfTwo(2 * n)
<1>1. ASSUME NEW d \in 1..(2 * n), NEW m \in 1..(2 * n), 2 * n = d * m,
             d % 2 # 0
      PROVE  d = 1
  <2>1. PICK a \in Nat : d = 2 * a + 1
    <3>1. d \div 2 \in Nat /\ d = 2 * (d \div 2) + 1  BY <1>1
    <3>. QED  BY <3>1
  <2>. DEFINE p == a * m
              q == n - p
  <2>2. p \in Int /\ q \in Int /\ d * m = 2 * p + m
    <3>1. m \in Int /\ a \in Int  OBVIOUS
    <3>2. (2 * a + 1) * m = 2 * (a * m) + m  BY <3>1
    <3>. QED  BY <2>1, <3>1, <3>2
  <2>3. m = 2 * q  BY <1>1, <2>2
  <2>4. q \in Int /\ q > 0  BY <2>2, <2>3
  <2>5. d * m = 2 * (d * q)
    <3>1. d \in Int  OBVIOUS
    <3>. HIDE DEF q
    <3>2. d * (2 * q) = 2 * (d * q)  BY <2>4, <3>1
    <3>. QED  BY <2>3, <3>2
  <2>6. d * q \in Int /\ n = d * q
    <3>. HIDE DEF q
    <3>1. d * q \in Int  BY <2>4
    <3>. QED  BY <1>1, <2>5, <3>1
  <2>7. d \in 1..n /\ q \in 1..n
    <3>. HIDE DEF q
    <3>1. d >= 1 /\ q >= 1  BY <2>4
    <3>2. d <= d * q /\ q <= d * q  BY <3>1, <2>4
    <3>. QED  BY <2>4, <2>6, <3>1, <3>2
  <2>. HIDE DEF q
  <2>. QED  BY <1>1, <2>6, <2>7 DEF IsPowerOfTwo
<1>. QED  BY <1>1 DEF IsPowerOfTwo

(* grow_array keeps the buffer a power of two, or makes it one.            *)
LEMMA GrowthMask ==
  ASSUME InBounds, Mask, NEW n \in NewSizes
  PROVE  n \in Nat \ {0} /\ IsPowerOfTwo(n)
<1>1. alloc_size \in Nat \cup {-1} /\ n \in Nat \ {0}  BY Numbers, Growth
<1>2. CASE ~Full
  <2>1. n = alloc_size + 1  BY <1>2 DEF NewSizes
  <2>. QED  BY <1>1, <2>1 DEF Mask
<1>3. CASE Full /\ alloc_size < 0
  BY <1>1, <1>3 DEF NewSizes, FirstSizes
<1>4. CASE Full /\ alloc_size >= 0
  <2>1. n = 2 * (alloc_size + 1)  BY <1>1, <1>4 DEF NewSizes
  <2>2. alloc_size + 1 \in Nat \ {0} /\ IsPowerOfTwo(alloc_size + 1)
    BY <1>1, <1>4 DEF Mask
  <2>. QED  BY <1>1, <2>1, <2>2, Doubled
<1>. QED  BY <1>1, <1>2, <1>3, <1>4

LEMMA MaskStep ==
  ASSUME RingInv, Mask, [Next]_vars
  PROVE  Mask'
<1>1. InBounds  BY DEF RingInv
<1>2. CASE UNCHANGED alloc_size
  BY <1>2 DEF Mask, IsPowerOfTwo
<1>3. ASSUME NEW n \in NewSizes, alloc_size' = n - 1
      PROVE  Mask'
  <2>1. n \in Nat \ {0} /\ IsPowerOfTwo(n)  BY <1>1, <1>3, GrowthMask
  <2>2. alloc_size' + 1 = n  BY <1>3, <2>1
  <2>. QED  BY <2>1, <2>2 DEF Mask, IsPowerOfTwo
<1>4. ASSUME NEW e \in Elem, append_array(e) \/ insert_array(e)
      PROVE  \E n \in NewSizes : alloc_size' = n - 1
  BY <1>4 DEF append_array, insert_array, Put
<1>5. ASSUME Next, \A e \in Elem : ~append_array(e) /\ ~insert_array(e)
      PROVE  UNCHANGED alloc_size
  BY <1>5 DEF Next, cannot_grow, shift_front, shift_back, array_subscript,
     copy_object, free_array, delete_mc, Destroyed, terminated, vars, buffer
<1>6. CASE UNCHANGED vars  BY <1>6, <1>2 DEF vars
<1>. QED  BY <1>2, <1>3, <1>4, <1>5, <1>6

-----------------------------------------------------------------------------
(* Once an array has grown, the mask of comp/array.c is a power of two     *)
(* less one, so that `&' is a remainder.  append_array, insert_array,      *)
(* shift_array and ngarray_to_array never leave the memory of an array,    *)
(* and an index finds an object of it, never the rest of the memory that   *)
(* grow_array got from malloc.                                             *)
THEOREM ArrayOnlyElements == Spec => []OnlyElements
<1>1. Init => RingInv /\ Mask
  <2>1. Init => Mask  BY DEF Init, Created, Mask
  <2>. QED  BY <2>1, RingInit
<1>2. RingInv /\ Mask /\ [Next]_vars => RingInv' /\ Mask'
  BY RingStep, RingStutter, MaskStep
<1>3. RingInv /\ Mask => OnlyElements  BY DEF RingInv, Mask, OnlyElements
<1>. QED  BY <1>1, <1>2, <1>3, PTL DEF Spec

(* The ring of comp/array.c is the sequence a program sees, through every  *)
(* growth and wrap-around and the end of a macro call, and frees in order  *)
(* what leaves it.                                                         *)
THEOREM ArrayImplements == Spec => Implements
<1>1. Init => RingInv /\ Array!Init  BY RingInit, ArrayInit
<1>2. RingInv /\ [Next]_vars => RingInv' /\ [Array!Next]_(Array!avars)
  BY RingStep, RingStutter
<1>. QED  BY <1>1, <1>2, PTL DEF Spec, Implements, Array!Spec
=============================================================================
