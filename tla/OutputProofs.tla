---------------------------- MODULE OutputProofs ----------------------------
(***************************************************************************)
(* Proofs about what the tracks of a song become on their way to the file. *)
(***************************************************************************)
EXTENDS PostProperties, OutProperties, FiniteSetTheorems, SequenceTheorems,
        WellFoundedInduction, TLAPS

-----------------------------------------------------------------------------
(* Induction: a set of numbers has a least one.                            *)
LEMMA Least ==
  ASSUME NEW T \in SUBSET Nat, T # {}
  PROVE  \E m \in T : \A k \in T : m <= k
<1>1. IsWellFoundedOn(OpToRel(<, Nat), Nat)  BY NatLessThanWellFounded
<1>2. PICK m \in T : \A k \in T : ~(<<k, m>> \in OpToRel(<, Nat))  BY <1>1, WFMin
<1>3. ASSUME NEW k \in T  PROVE m <= k
  <2>1. ~(k < m)  BY <1>2 DEF OpToRel
  <2>. QED  BY <2>1
<1>. QED  BY <1>3

LEMMA Inductively ==
  ASSUME NEW n \in Nat, NEW S, NEW f, f[0] \in S,
         \A i \in 1..n : f[i - 1] \in S => f[i] \in S
  PROVE  \A i \in 0..n : f[i] \in S
<1>. DEFINE T == {i \in 0..n : f[i] \notin S}
<1>1. ASSUME T # {}  PROVE FALSE
  <2>1. T \in SUBSET Nat  OBVIOUS
  <2>2. PICK m \in T : \A k \in T : m <= k
    <3>. HIDE DEF T
    <3>. QED  BY <1>1, <2>1, Least
  <2>3. m \in 1..n /\ m - 1 \in 0..n /\ ~(m <= m - 1)  BY <2>2
  <2>4. m - 1 \notin T  BY <2>2, <2>3
  <2>. QED  BY <2>2, <2>3, <2>4
<1>. QED  BY <1>1

(* A function that is defined by recursion over the first n numbers.       *)
Steps(n, S, a, step) == n \in Nat /\ a \in S /\ step \in [1..n -> [S -> S]]
Recurs(n, S, a, step, f) ==
  f \in [0..n -> S] /\ f[0] = a /\ \A i \in 1..n : f[i] = step[i][f[i - 1]]

LEMMA Recursion ==
  ASSUME NEW n, NEW S, NEW a, NEW step, Steps(n, S, a, step)
  PROVE  \E f : Recurs(n, S, a, step, f)
<1>. DEFINE To(m) == \E f \in [0..m -> S] : f[0] = a /\ \A i \in 1..m : f[i] = step[i][f[i - 1]]
            T == {m \in 0..n : ~To(m)}
<1>0. n \in Nat /\ a \in S /\ step \in [1..n -> [S -> S]]  BY DEF Steps
<1>1. To(0)
  <2>. DEFINE f == [i \in 0..0 |-> a]
  <2>1. f \in [0..0 -> S] /\ f[0] = a /\ 1..0 = {}  BY <1>0
  <2>. QED  BY <2>1
<1>2. ASSUME NEW m \in 0..n, m # 0, To(m - 1)  PROVE To(m)
  <2>0. m \in Nat /\ m - 1 \in Nat /\ m \in 1..n /\ m - 1 \in 0..(m - 1)  BY <1>0, <1>2
  <2>1. PICK f \in [0..(m - 1) -> S] : f[0] = a /\ \A i \in 1..(m - 1) : f[i] = step[i][f[i - 1]]
    BY <1>2
  <2>. DEFINE g == [i \in 0..m |-> IF i = m THEN step[m][f[m - 1]] ELSE f[i]]
  <2>2. \A i \in 0..m : i # m => i \in 0..(m - 1)  BY <2>0
  <2>3. step[m][f[m - 1]] \in S  BY <1>0, <2>0, <2>1
  <2>4. g \in [0..m -> S]  BY <2>1, <2>2, <2>3
  <2>5. g[0] = a  BY <2>0, <2>1, <1>2
  <2>6. ASSUME NEW i \in 1..m  PROVE g[i] = step[i][g[i - 1]]
    <3>1. i - 1 \in 0..(m - 1) /\ i - 1 # m /\ i \in 0..m /\ i - 1 \in 0..m  BY <2>0
    <3>2. g[i - 1] = f[i - 1]  BY <3>1
    <3>3. CASE i = m  BY <3>1, <3>2, <3>3
    <3>4. CASE i # m
      <4>1. i \in 1..(m - 1)  BY <2>0, <3>4
      <4>2. g[i] = f[i]  BY <3>1, <3>4
      <4>. QED  BY <2>1, <3>2, <4>1, <4>2
    <3>. QED  BY <3>3, <3>4
  <2>. QED  BY <2>4, <2>5, <2>6
<1>. HIDE DEF To
<1>3. ASSUME T # {}  PROVE FALSE
  <2>1. T \in SUBSET Nat  BY <1>0
  <2>2. PICK m \in T : \A k \in T : m <= k
    <3>. HIDE DEF T
    <3>. QED  BY <1>3, <2>1, Least
  <2>3. m # 0  BY <1>1, <2>2
  <2>4. m \in 0..n /\ m - 1 \in 0..n /\ m - 1 < m /\ m - 1 \notin T
    BY <1>0, <2>2, <2>3
  <2>5. To(m - 1)  BY <2>4
  <2>. QED  BY <1>2, <2>3, <2>4, <2>5
<1>4. n \in 0..n /\ n \notin T  BY <1>0, <1>3
<1>5. To(n)  BY <1>4
<1>. QED  BY <1>5 DEF To, Recurs

-----------------------------------------------------------------------------
(* Sequences of events.  An event has its fields, a key of its kind, and a *)
(* time of a set T.                                                        *)
Fields == {"id", "type", "time", "key", "ctype", "val", "irregular"}
Keyed(e) ==
  /\ e.type \in {"on", "off"} => e.key \in Note
  /\ e.type = "ctrl" => e.key \in Ctrl
Fit(e, T) == DOMAIN e = Fields /\ e.time \in T /\ Keyed(e)
Elements(s) == {s[i] : i \in DOMAIN s}
Timed(s, T) == s \in Seq(Elements(s)) /\ \A i \in DOMAIN s : Fit(s[i], T)

LEMMA TimedSeq ==
  ASSUME NEW S, NEW s \in Seq(S), NEW T, \A i \in DOMAIN s : Fit(s[i], T)
  PROVE  Timed(s, T)
<1>1. s \in Seq(Elements(s))
  <2>1. Len(s) \in Nat /\ DOMAIN s = 1..Len(s)  BY LenProperties
  <2>2. s \in [1..Len(s) -> Elements(s)]
    <3>1. s = [i \in DOMAIN s |-> s[i]]  BY SeqDef
    <3>. QED  BY <2>1, <3>1 DEF Elements
  <2>. QED  BY <2>1, <2>2, SeqDef
<1>. QED  BY <1>1 DEF Timed

LEMMA TimedOf ==
  ASSUME NEW T, NEW S, \A e \in S : Fit(e, T), NEW s \in Seq(S)
  PROVE  Timed(s, T)
<1>1. \A i \in DOMAIN s : s[i] \in S  BY LenProperties, ElementOfSeq
<1>. QED  BY <1>1, TimedSeq

LEMMA TimedEmpty == ASSUME NEW T  PROVE Timed(<<>>, T)
<1>1. <<>> \in Seq({})  OBVIOUS
<1>. QED  BY <1>1, TimedOf

LEMMA TimedMap ==
  ASSUME NEW n \in Nat, NEW T, NEW s, DOMAIN s = 1..n, s = [i \in DOMAIN s |-> s[i]],
         \A i \in 1..n : Fit(s[i], T)
  PROVE  Timed(s, T)
<1>1. s \in [1..n -> Elements(s)]  BY DEF Elements
<1>2. s \in Seq(Elements(s))  BY <1>1, SeqDef
<1>. QED  BY <1>2, TimedSeq

LEMMA TimedOne == ASSUME NEW T, NEW e, Fit(e, T)  PROVE Timed(<<e>>, T)
<1>1. <<e>> \in Seq({e})  OBVIOUS
<1>. QED  BY <1>1, TimedOf

LEMMA TimedMore ==
  ASSUME NEW T, NEW s, Timed(s, T), NEW U, T \subseteq U
  PROVE  Timed(s, U)
BY DEF Timed, Fit

LEMMA TimedJoin ==
  ASSUME NEW T, NEW s, Timed(s, T), NEW t, Timed(t, T)
  PROVE  Timed(s \o t, T)
<1>. DEFINE S == Elements(s) \cup Elements(t)
<1>1. s \in Seq(S) /\ t \in Seq(S)
  <2>1. s \in Seq(Elements(s)) /\ t \in Seq(Elements(t))  BY DEF Timed
  <2>2. \A X, Y : X \subseteq Y => Seq(X) \subseteq Seq(Y)  BY SeqDef
  <2>. HIDE DEF S
  <2>3. Elements(s) \subseteq S /\ Elements(t) \subseteq S  BY DEF S
  <2>. QED  BY <2>1, <2>2, <2>3
<1>2. \A e \in S : Fit(e, T)  BY DEF Timed, Elements
<1>. HIDE DEF S
<1>3. s \o t \in Seq(S)  BY <1>1, ConcatProperties
<1>. QED  BY <1>2, <1>3, TimedOf

LEMMA TimedAppend ==
  ASSUME NEW T, NEW s, Timed(s, T), NEW e, Fit(e, T)
  PROVE  Timed(Append(s, e), T)
<1>. DEFINE S == Elements(s) \cup {e}
<1>1. s \in Seq(S)
  <2>1. s \in Seq(Elements(s))  BY DEF Timed
  <2>2. \A X, Y : X \subseteq Y => Seq(X) \subseteq Seq(Y)  BY SeqDef
  <2>3. Elements(s) \subseteq S  OBVIOUS
  <2>. HIDE DEF S
  <2>. QED  BY <2>1, <2>2, <2>3
<1>2. \A x \in S : Fit(x, T)  BY DEF Timed, Elements
<1>3. Append(s, e) \in Seq(S)
  <2>1. e \in S  OBVIOUS
  <2>. HIDE DEF S
  <2>. QED  BY <1>1, <2>1, AppendProperties
<1>. HIDE DEF S
<1>. QED  BY <1>2, <1>3, TimedOf

-----------------------------------------------------------------------------
(* Lists: sequences of their elements.                                     *)
List(s) == s \in Seq(Elements(s))

LEMMA ListOf == ASSUME NEW S, NEW s \in Seq(S)
  PROVE  List(s) /\ Len(s) \in Nat /\ DOMAIN s = 1..Len(s) /\ \A i \in 1..Len(s) : s[i] \in S
<1>1. Len(s) \in Nat /\ DOMAIN s = 1..Len(s) /\ \A i \in 1..Len(s) : s[i] \in S
  BY LenProperties, ElementOfSeq
<1>2. s \in [1..Len(s) -> Elements(s)]
  <2>1. s = [i \in DOMAIN s |-> s[i]]  BY SeqDef
  <2>. QED  BY <1>1, <2>1 DEF Elements
<1>. QED  BY <1>1, <1>2, SeqDef DEF List

LEMMA ListAppend ==
  ASSUME NEW s, List(s), NEW e
  PROVE  /\ List(Append(s, e)) /\ Len(s) \in Nat /\ DOMAIN s = 1..Len(s)
         /\ Len(Append(s, e)) = Len(s) + 1 /\ DOMAIN Append(s, e) = 1..(Len(s) + 1)
         /\ \A i \in 1..Len(s) : Append(s, e)[i] = s[i]
         /\ Append(s, e)[Len(s) + 1] = e
<1>. DEFINE S == Elements(s) \cup {e}
<1>1. s \in Seq(Elements(s)) /\ Elements(s) \subseteq S /\ e \in S  BY DEF List
<1>. HIDE DEF S
<1>2. s \in Seq(S)
  <2>1. \A X, Y : X \subseteq Y => Seq(X) \subseteq Seq(Y)  BY SeqDef
  <2>. QED  BY <1>1, <2>1
<1>3. /\ Append(s, e) \in Seq(S) /\ Len(Append(s, e)) = Len(s) + 1
      /\ \A i \in 1..Len(s) : Append(s, e)[i] = s[i]
      /\ Append(s, e)[Len(s) + 1] = e
  BY <1>1, <1>2, AppendProperties
<1>. QED  BY <1>2, <1>3, ListOf

LEMMA ListJoin ==
  ASSUME NEW s, List(s), NEW t, List(t)
  PROVE  /\ List(s \o t) /\ Len(s) \in Nat /\ Len(t) \in Nat
         /\ DOMAIN s = 1..Len(s) /\ DOMAIN t = 1..Len(t)
         /\ Len(s \o t) = Len(s) + Len(t) /\ DOMAIN (s \o t) = 1..(Len(s) + Len(t))
         /\ \A i \in 1..(Len(s) + Len(t)) :
              (s \o t)[i] = IF i <= Len(s) THEN s[i] ELSE t[i - Len(s)]
<1>. DEFINE S == Elements(s) \cup Elements(t)
<1>1. s \in Seq(Elements(s)) /\ t \in Seq(Elements(t))
      /\ Elements(s) \subseteq S /\ Elements(t) \subseteq S
  BY DEF List
<1>. HIDE DEF S
<1>2. s \in Seq(S) /\ t \in Seq(S)
  <2>1. \A X, Y : X \subseteq Y => Seq(X) \subseteq Seq(Y)  BY SeqDef
  <2>. QED  BY <1>1, <2>1
<1>3. /\ s \o t \in Seq(S) /\ Len(s \o t) = Len(s) + Len(t)
      /\ \A i \in 1..(Len(s) + Len(t)) :
           (s \o t)[i] = IF i <= Len(s) THEN s[i] ELSE t[i - Len(s)]
  BY <1>2, ConcatProperties
<1>4. Len(s) \in Nat /\ Len(t) \in Nat /\ DOMAIN s = 1..Len(s) /\ DOMAIN t = 1..Len(t)
  BY <1>2, ListOf
<1>. QED  BY <1>3, <1>4, ListOf

LEMMA ListPut ==
  ASSUME NEW s, List(s), NEW k \in DOMAIN s, NEW x
  PROVE  /\ List([s EXCEPT ![k] = x]) /\ Len([s EXCEPT ![k] = x]) = Len(s)
         /\ Len(s) \in Nat /\ DOMAIN s = 1..Len(s) /\ DOMAIN [s EXCEPT ![k] = x] = 1..Len(s)
         /\ \A i \in DOMAIN s : [s EXCEPT ![k] = x][i] = IF i = k THEN x ELSE s[i]
<1>. DEFINE S == Elements(s) \cup {x}
            t == [s EXCEPT ![k] = x]
<1>1. Len(s) \in Nat /\ DOMAIN s = 1..Len(s)  BY ListOf DEF List
<1>2. /\ t \in [1..Len(s) -> S]
      /\ \A i \in DOMAIN s : t[i] = IF i = k THEN x ELSE s[i]
  BY <1>1 DEF Elements
<1>. HIDE DEF t, S
<1>3. t \in Seq(S)  BY <1>1, <1>2, SeqDef
<1>4. Len(t) = Len(s)  BY <1>1, <1>2, <1>3, LenProperties
<1>5. List(t) /\ DOMAIN t = 1..Len(t)  BY <1>3, ListOf
<1>. QED  BY <1>1, <1>2, <1>4, <1>5 DEF t

LEMMA ListEmpty == List(<<>>) /\ Len(<<>>) = 0 /\ DOMAIN <<>> = {}
<1>1. <<>> \in Seq({}) /\ Len(<<>>) = 0 /\ DOMAIN <<>> = {}  OBVIOUS
<1>2. List(<<>>)  BY <1>1, ListOf
<1>. QED  BY <1>1, <1>2

LEMMA ListMap ==
  ASSUME NEW n \in Nat, NEW x
  PROVE  /\ List([i \in 1..n |-> x]) /\ Len([i \in 1..n |-> x]) = n
         /\ \A i \in 1..n : [j \in 1..n |-> x][i] = x
<1>. DEFINE s == [i \in 1..n |-> x]
<1>1. s \in [1..n -> {x}] /\ \A i \in 1..n : s[i] = x  OBVIOUS
<1>. HIDE DEF s
<1>2. s \in Seq({x})  BY <1>1, SeqDef
<1>3. Len(s) = n  BY <1>1, <1>2, LenProperties
<1>. QED  BY <1>1, <1>2, <1>3, ListOf DEF s

(* FlattenSeq joins sequences, one after another.                          *)
Chain(h, q, n, B) ==
  /\ n \in Nat /\ h \in [0..n -> Seq(B)] /\ h[0] = <<>>
  /\ \A i \in 1..n : q[i] \in Seq(B) /\ h[i] = h[i - 1] \o q[i]

LEMMA FlatChain ==
  ASSUME NEW n \in Nat, NEW q, DOMAIN q = 1..n, q = [i \in DOMAIN q |-> q[i]], NEW B,
         \A i \in 1..n : q[i] \in Seq(B)
  PROVE  \E h : Chain(h, q, n, B) /\ h[n] = FlattenSeq(q)
<1>1. q \in Seq(Seq(B)) /\ Len(q) = n
  <2>1. q \in [1..n -> Seq(B)]  OBVIOUS
  <2>2. q \in Seq(Seq(B))  BY <2>1, SeqDef
  <2>. QED  BY <2>2, LenProperties
<1>2. <<>> \in Seq(B)  OBVIOUS
<1>3. CASE n = 0
  <2>1. FlattenSeq(q) = <<>>
    <3>1. q = <<>>  BY <1>1, <1>3, EmptySeq
    <3>. QED  BY <1>1, <1>3, <3>1 DEF FlattenSeq
  <2>. DEFINE h == [i \in 0..0 |-> <<>>]
  <2>2. h \in [0..0 -> Seq(B)] /\ h[0] = <<>> /\ 1..0 = {}  BY <1>2
  <2>. HIDE DEF h
  <2>. QED  BY <1>3, <2>1, <2>2 DEF Chain
<1>4. CASE n # 0
  <2>. DEFINE flat == CHOOSE g : g = [i \in 1..n |-> IF i = 1 THEN q[i] ELSE g[i - 1] \o q[i]]
              step == [i \in 1..n |-> [x \in Seq(B) |-> IF i = 1 THEN q[i] ELSE x \o q[i]]]
  <2>1. FlattenSeq(q) = flat[n]  BY <1>1, <1>4 DEF FlattenSeq
  <2>2. step \in [1..n -> [Seq(B) -> Seq(B)]]
    <3>1. \A i \in 1..n : \A x \in Seq(B) : x \o q[i] \in Seq(B)  BY ConcatProperties
    <3>. QED  BY <3>1
  <2>3. \A i \in 1..n : \A x \in Seq(B) : step[i][x] = IF i = 1 THEN q[i] ELSE x \o q[i]
    OBVIOUS
  <2>. HIDE DEF step
  <2>5. PICK f : Recurs(n, Seq(B), <<>>, step, f)
    <3>1. Steps(n, Seq(B), <<>>, step)  BY <1>2, <2>2 DEF Steps
    <3>. QED  BY <3>1, Recursion
  <2>6. ASSUME NEW i \in 1..n
        PROVE  f[i] \in Seq(B) /\ f[i] = IF i = 1 THEN q[i] ELSE f[i - 1] \o q[i]
    <3>1. i - 1 \in 0..n /\ i \in 0..n  OBVIOUS
    <3>2. f[i - 1] \in Seq(B) /\ f[i] \in Seq(B) /\ f[i] = step[i][f[i - 1]]
      BY <2>5, <3>1 DEF Recurs
    <3>. QED  BY <2>3, <3>2
  <2>. DEFINE g == [i \in 1..n |-> f[i]]
  <2>7. g = [i \in 1..n |-> IF i = 1 THEN q[i] ELSE g[i - 1] \o q[i]]
    <3>1. ASSUME NEW i \in 1..n  PROVE g[i] = IF i = 1 THEN q[i] ELSE g[i - 1] \o q[i]
      <4>1. CASE i = 1  BY <2>6, <4>1
      <4>2. CASE i # 1
        <5>1. i - 1 \in 1..n  BY <4>2
        <5>. QED  BY <2>6, <4>2, <5>1
      <4>. QED  BY <4>1, <4>2
    <3>. QED  BY <3>1
  <2>. HIDE DEF g
  <2>8. flat = [i \in 1..n |-> IF i = 1 THEN q[i] ELSE flat[i - 1] \o q[i]]
    BY <2>7
  <2>. HIDE DEF flat
  <2>. DEFINE h == [i \in 0..n |-> IF i = 0 THEN <<>> ELSE flat[i]]
  <2>9. h[0] = <<>>  OBVIOUS
  <2>10. ASSUME NEW i \in 1..n  PROVE h[i] = h[i - 1] \o q[i]
    <3>1. h[i] = flat[i] /\ i \in 0..n /\ i - 1 \in 0..n  OBVIOUS
    <3>2. flat[i] = IF i = 1 THEN q[i] ELSE flat[i - 1] \o q[i]  BY <2>8
    <3>3. CASE i = 1
      <4>1. h[i - 1] = <<>>  BY <3>3
      <4>2. <<>> \o q[i] = q[i]  BY EmptySeq, ConcatEmptySeq
      <4>. QED  BY <3>1, <3>2, <3>3, <4>1, <4>2
    <3>4. CASE i # 1
      <4>1. h[i - 1] = flat[i - 1]  BY <3>1, <3>4
      <4>. QED  BY <3>1, <3>2, <3>4, <4>1
    <3>. QED  BY <3>3, <3>4
  <2>11. ASSUME NEW i \in 1..n, h[i - 1] \in Seq(B)  PROVE h[i] \in Seq(B)
    <3>. HIDE DEF h
    <3>1. h[i] = h[i - 1] \o q[i]  BY <2>10
    <3>. QED  BY <2>11, <3>1, ConcatProperties
  <2>12. h[n] = flat[n] /\ n \in 0..n  BY <1>4
  <2>13. h = [i \in 0..n |-> h[i]]  OBVIOUS
  <2>. HIDE DEF h
  <2>14. \A i \in 0..n : h[i] \in Seq(B)  BY <1>2, <2>9, <2>11, Inductively
  <2>15. h \in [0..n -> Seq(B)]  BY <2>13, <2>14
  <2>. QED  BY <2>1, <2>9, <2>10, <2>12, <2>15 DEF Chain
<1>. QED  BY <1>3, <1>4

(* The places of the parts: part i begins behind the first o[i - 1] ones.  *)
LEMMA ChainOn ==
  ASSUME NEW s, NEW t, NEW w, NEW B, s \in Seq(B), t \in Seq(B), w = s \o t
  PROVE  /\ Len(s) \in Nat /\ Len(t) \in Nat /\ Len(w) = Len(s) + Len(t)
         /\ DOMAIN s = 1..Len(s) /\ DOMAIN t = 1..Len(t) /\ DOMAIN w = 1..Len(w)
         /\ \A a \in DOMAIN s : a \in DOMAIN w /\ w[a] = s[a]
         /\ \A m \in DOMAIN t : Len(s) + m \in DOMAIN w /\ w[Len(s) + m] = t[m]
<1>1. List(s) /\ List(t)  BY ListOf
<1>2. /\ Len(s) \in Nat /\ Len(t) \in Nat /\ DOMAIN s = 1..Len(s) /\ DOMAIN t = 1..Len(t)
      /\ Len(w) = Len(s) + Len(t) /\ DOMAIN w = 1..(Len(s) + Len(t))
      /\ \A i \in 1..(Len(s) + Len(t)) : w[i] = IF i <= Len(s) THEN s[i] ELSE t[i - Len(s)]
  BY <1>1, ListJoin
<1>3. ASSUME NEW m \in DOMAIN t  PROVE Len(s) + m \in DOMAIN w /\ w[Len(s) + m] = t[m]
  <2>1. /\ Len(s) + m \in 1..(Len(s) + Len(t)) /\ ~(Len(s) + m <= Len(s))
        /\ (Len(s) + m) - Len(s) = m
    BY <1>2
  <2>. QED  BY <1>2, <2>1
<1>4. \A a \in DOMAIN s : a \in DOMAIN w /\ w[a] = s[a]  BY <1>2
<1>. QED  BY <1>2, <1>3, <1>4

Laid(o, q, n, all, B) ==
  /\ n \in Nat /\ o \in [0..n -> Nat] /\ o[0] = 0
  /\ \A i \in 1..n : o[i] = o[i - 1] + Len(q[i])
  /\ all \in Seq(B) /\ Len(all) = o[n]
  /\ \A k \in 1..n : \A m \in DOMAIN q[k] :
       o[k - 1] + m \in DOMAIN all /\ all[o[k - 1] + m] = q[k][m]
  /\ \A a \in DOMAIN all : \E k \in 1..n : \E m \in DOMAIN q[k] : a = o[k - 1] + m

LEMMA FlatLaid ==
  ASSUME NEW n \in Nat, NEW q, DOMAIN q = 1..n, q = [i \in DOMAIN q |-> q[i]], NEW B,
         \A i \in 1..n : q[i] \in Seq(B)
  PROVE  \E o : Laid(o, q, n, FlattenSeq(q), B)
<1>1. PICK h : Chain(h, q, n, B) /\ h[n] = FlattenSeq(q)  BY FlatChain
<1>2. /\ h \in [0..n -> Seq(B)] /\ h[0] = <<>>
      /\ \A i \in 1..n : h[i] = h[i - 1] \o q[i]
  BY <1>1 DEF Chain
<1>. DEFINE o == [i \in 0..n |-> Len(h[i])]
<1>3. \A i \in 0..n : h[i] \in Seq(B) /\ Len(h[i]) \in Nat /\ DOMAIN h[i] = 1..Len(h[i])
  BY <1>2, LenProperties
<1>4. o \in [0..n -> Nat] /\ o[0] = 0 /\ \A i \in 0..n : o[i] = Len(h[i])
  BY <1>2, <1>3, ListEmpty
<1>. HIDE DEF o
<1>5. ASSUME NEW i \in 1..n, NEW j, j = i - 1
      PROVE  /\ j \in 0..n /\ o[i] = o[j] + Len(q[i])
             /\ DOMAIN q[i] = 1..Len(q[i]) /\ Len(q[i]) \in Nat
             /\ \A a \in DOMAIN h[j] : a \in DOMAIN h[i] /\ h[i][a] = h[j][a]
             /\ \A m \in DOMAIN q[i] : o[j] + m \in DOMAIN h[i] /\ h[i][o[j] + m] = q[i][m]
  <2>1. j \in 0..n /\ i \in 0..n  BY <1>5
  <2>2. PICK s, t, w : s = h[j] /\ t = q[i] /\ w = h[i]  OBVIOUS
  <2>3. s \in Seq(B) /\ t \in Seq(B) /\ w = s \o t  BY <1>2, <1>3, <1>5, <2>1, <2>2
  <2>4. /\ Len(t) \in Nat /\ Len(w) = Len(s) + Len(t) /\ DOMAIN t = 1..Len(t)
        /\ \A a \in DOMAIN s : a \in DOMAIN w /\ w[a] = s[a]
        /\ \A m \in DOMAIN t : Len(s) + m \in DOMAIN w /\ w[Len(s) + m] = t[m]
    BY <2>3, ChainOn
  <2>5. o[i] = Len(w) /\ o[j] = Len(s)  BY <1>4, <2>1, <2>2
  <2>. QED  BY <2>1, <2>2, <2>4, <2>5
<1>. DEFINE At(i) == /\ \A k \in 1..i : \A m \in DOMAIN q[k] :
                          o[k - 1] + m \in DOMAIN h[i] /\ h[i][o[k - 1] + m] = q[k][m]
                     /\ \A a \in DOMAIN h[i] : \E k \in 1..i : \E m \in DOMAIN q[k] :
                          a = o[k - 1] + m
            ok == [i \in 0..n |-> IF At(i) THEN 0 ELSE 1]
<1>6. \A i \in 0..n : ok[i] \in {0} <=> At(i)  OBVIOUS
<1>. HIDE DEF ok
<1>7. At(0)
  <2>1. 1..0 = {} /\ DOMAIN h[0] = {}  BY <1>2, ListEmpty
  <2>. QED  BY <2>1
<1>8. ASSUME NEW i \in 1..n, NEW j, j = i - 1, At(j)  PROVE At(i)
  <2>1. /\ j \in 0..n /\ o[i] = o[j] + Len(q[i])
        /\ DOMAIN q[i] = 1..Len(q[i]) /\ Len(q[i]) \in Nat
        /\ \A a \in DOMAIN h[j] : a \in DOMAIN h[i] /\ h[i][a] = h[j][a]
        /\ \A m \in DOMAIN q[i] : o[j] + m \in DOMAIN h[i] /\ h[i][o[j] + m] = q[i][m]
    BY <1>5, <1>8
  <2>2. ASSUME NEW k \in 1..i, NEW m \in DOMAIN q[k]
        PROVE  o[k - 1] + m \in DOMAIN h[i] /\ h[i][o[k - 1] + m] = q[k][m]
    <3>1. CASE k = i  BY <1>8, <2>1, <2>2, <3>1
    <3>2. CASE k # i
      <4>1. k \in 1..j  BY <1>8, <3>2
      <4>2. PICK a : a = o[k - 1] + m  OBVIOUS
      <4>3. a \in DOMAIN h[j] /\ h[j][a] = q[k][m]  BY <1>8, <4>1, <4>2
      <4>. QED  BY <2>1, <4>2, <4>3
    <3>. QED  BY <3>1, <3>2
  <2>3. ASSUME NEW a \in DOMAIN h[i]
        PROVE  \E k \in 1..i : \E m \in DOMAIN q[k] : a = o[k - 1] + m
    <3>1. /\ a \in 1..o[i] /\ o[i] \in Nat /\ o[j] \in Nat /\ DOMAIN h[j] = 1..o[j]
      <4>1. i \in 0..n  OBVIOUS
      <4>. QED  BY <1>3, <1>4, <2>1, <4>1
    <3>2. CASE a <= o[j]
      <4>1. a \in DOMAIN h[j]  BY <3>1, <3>2
      <4>2. PICK k \in 1..j : \E m \in DOMAIN q[k] : a = o[k - 1] + m  BY <1>8, <4>1
      <4>3. k \in 1..i  BY <1>8, <4>2
      <4>. QED  BY <4>2, <4>3
    <3>3. CASE ~(a <= o[j])
      <4>1. PICK m : m = a - o[j]  OBVIOUS
      <4>2. m \in DOMAIN q[i] /\ a = o[j] + m /\ i \in 1..i  BY <2>1, <3>1, <3>3, <4>1
      <4>. QED  BY <1>8, <4>2
    <3>. QED  BY <3>2, <3>3
  <2>. QED  BY <2>2, <2>3
<1>. HIDE DEF At
<1>9. At(n)
  <2>1. PICK Z : Z = {0}  OBVIOUS
  <2>2. \A i \in 1..n : i \in 0..n /\ i - 1 \in 0..n  OBVIOUS
  <2>3. n \in 0..n /\ 0 \in 0..n  OBVIOUS
  <2>4. ASSUME NEW i \in 1..n, ok[i - 1] \in Z  PROVE ok[i] \in Z
    <3>1. PICK j : j = i - 1  OBVIOUS
    <3>2. At(j)  BY <1>6, <2>1, <2>2, <2>4, <3>1
    <3>3. At(i)  BY <1>8, <3>1, <3>2
    <3>. QED  BY <1>6, <2>1, <2>2, <3>3
  <2>5. ok[0] \in Z  BY <1>6, <1>7, <2>1, <2>3
  <2>6. \A i \in 0..n : ok[i] \in Z  BY <2>4, <2>5, Inductively
  <2>. QED  BY <1>6, <2>1, <2>3, <2>6
<1>10. \A i \in 1..n : o[i] = o[i - 1] + Len(q[i])  BY <1>5
<1>11. n \in 0..n  OBVIOUS
<1>12. PICK all : all = FlattenSeq(q)  OBVIOUS
<1>13. all = h[n] /\ all \in Seq(B) /\ Len(all) = o[n]  BY <1>1, <1>3, <1>4, <1>11, <1>12
<1>14. Laid(o, q, n, all, B)
  BY <1>4, <1>9, <1>10, <1>13 DEF Laid, At
<1>. QED  BY <1>12, <1>14

(* Parts of the same lengths have the same places.                         *)
Adds(o, q, n) == o[0] = 0 /\ \A i \in 1..n : o[i] = o[i - 1] + Len(q[i])
SameLengths(r, q, n) == \A i \in 1..n : Len(r[i]) = Len(q[i])
LEMMA SamePlaces ==
  ASSUME NEW n, NEW o, NEW q, NEW l, NEW u, NEW r,
         n \in Nat, l \in 0..n, Adds(o, q, n), Adds(u, r, l), SameLengths(r, q, l)
  PROVE  \A i \in 0..l : u[i] = o[i]
<1>0. /\ o[0] = 0 /\ u[0] = 0
      /\ \A i \in 1..n : o[i] = o[i - 1] + Len(q[i])
      /\ \A i \in 1..l : u[i] = u[i - 1] + Len(r[i])
      /\ \A i \in 1..l : Len(r[i]) = Len(q[i])
  BY DEF Adds, SameLengths
<1>. DEFINE ok == [i \in 0..l |-> IF u[i] = o[i] THEN 0 ELSE 1]
<1>1. \A i \in 0..l : ok[i] \in {0} <=> u[i] = o[i]  OBVIOUS
<1>. HIDE DEF ok
<1>2. l \in Nat /\ 0 \in 0..l /\ \A i \in 1..l : i \in 1..n /\ i \in 0..l /\ i - 1 \in 0..l
  OBVIOUS
<1>3. PICK Z : Z = {0}  OBVIOUS
<1>4. ASSUME NEW i \in 1..l, ok[i - 1] \in Z  PROVE ok[i] \in Z
  <2>1. u[i - 1] = o[i - 1]  BY <1>1, <1>2, <1>3, <1>4
  <2>2. u[i] = o[i]  BY <1>0, <1>2, <2>1
  <2>. QED  BY <1>1, <1>2, <1>3, <2>2
<1>5. ok[0] \in Z  BY <1>0, <1>1, <1>2, <1>3
<1>6. \A i \in 0..l : ok[i] \in Z  BY <1>2, <1>4, <1>5, Inductively
<1>. QED  BY <1>1, <1>3, <1>6

(* FlattenSeq joins sequences of such events.                              *)
LEMMA FlatIn ==
  ASSUME NEW n \in Nat, NEW q, DOMAIN q = 1..n, q = [i \in DOMAIN q |-> q[i]],
         NEW B, \A i \in 1..n : q[i] \in Seq(Elements(q[i])) /\ Elements(q[i]) \subseteq B
  PROVE  FlattenSeq(q) \in Seq(B)
<1>1. ASSUME NEW i \in 1..n  PROVE q[i] \in Seq(B)
  <2>1. \A X, Y : X \subseteq Y => Seq(X) \subseteq Seq(Y)  BY SeqDef
  <2>. QED  BY <2>1
<1>2. PICK h : Chain(h, q, n, B) /\ h[n] = FlattenSeq(q)  BY <1>1, FlatChain
<1>3. h \in [0..n -> Seq(B)] /\ n \in 0..n  BY <1>2 DEF Chain
<1>. QED  BY <1>2, <1>3

LEMMA TimedFlat ==
  ASSUME NEW n \in Nat, NEW q, DOMAIN q = 1..n, q = [i \in DOMAIN q |-> q[i]], NEW T,
         \A i \in 1..n : Timed(q[i], T)
  PROVE  Timed(FlattenSeq(q), T)
<1>. DEFINE B == UNION {Elements(q[i]) : i \in 1..n}
<1>1. \A e \in B : Fit(e, T)  BY DEF Timed, Elements
<1>2. \A i \in 1..n : q[i] \in Seq(Elements(q[i])) /\ Elements(q[i]) \subseteq B
  BY DEF Timed
<1>. HIDE DEF B
<1>3. FlattenSeq(q) \in Seq(B)  BY <1>2, FlatIn
<1>. QED  BY <1>1, <1>3, TimedOf

-----------------------------------------------------------------------------
(* Continuous controls.  Their events lie between begin_time and the end   *)
(* of the line or of the range, whichever is first; one that begins before *)
(* the range keeps its time.                                               *)
LineTimes(m) ==
  {t \in Int : /\ t >= 0 \/ t >= begin_time
               /\ t <= begin_time \/ (t <= m /\ t <= term_time)}
Ranged == begin_time \in Int /\ term_time \in Int

LEMMA Multiple == ASSUME NEW i \in Nat, NEW m \in Nat  PROVE i * m \in Nat
OBVIOUS

LEMMA PointFits ==
  ASSUME NEW ref, NEW T, NEW U, Fit(ref, U), NEW t \in T, NEW v
  PROVE  Fit(Point(ref, t, v), T)
<1>1. Point(ref, t, v) =
        [id |-> 0, type |-> ref.type, time |-> t, key |-> ref.key, ctype |-> "",
         val |-> v, irregular |-> FALSE]
  BY DEF Point, Event
<1>2. DOMAIN Point(ref, t, v) = Fields  BY <1>1 DEF Fields
<1>3. /\ Point(ref, t, v).time = t
      /\ Point(ref, t, v).type = ref.type /\ Point(ref, t, v).key = ref.key
  BY DEF Point, Event
<1>. QED  BY <1>2, <1>3 DEF Fit, Keyed

LEMMA NormalFits ==
  ASSUME NEW e, NEW T, NEW U, Fit(e, U), e.time \in T
  PROVE  Fit(Normal(e), T)
<1>1. DOMAIN e = Fields  BY DEF Fit
<1>2. /\ DOMAIN Normal(e) = Fields /\ Normal(e).time = e.time
      /\ Normal(e).type = e.type /\ Normal(e).key = e.key
  BY <1>1 DEF Normal, Fields
<1>. QED  BY <1>2 DEF Fit, Keyed

(* Each is made of a point of the line, and has its type.                  *)
MadeOf(e, s) == \E b \in Elements(s) : e.type = b.type /\ e.id \in {0, b.id}
Derived(r, s) == \A i \in DOMAIN r : MadeOf(r[i], s)

LEMMA DerivedOf ==
  ASSUME NEW s, NEW S, \A e \in S : MadeOf(e, s), NEW r \in Seq(S)
  PROVE  Derived(r, s)
<1>1. \A i \in DOMAIN r : r[i] \in S  BY LenProperties, ElementOfSeq
<1>. QED  BY <1>1 DEF Derived

LEMMA PointMade ==
  ASSUME NEW s, NEW i \in DOMAIN s, NEW t, NEW v
  PROVE  MadeOf(Point(s[i], t, v), s)
<1>1. Point(s[i], t, v).id = 0 /\ Point(s[i], t, v).type = s[i].type  BY DEF Point, Event
<1>2. s[i] \in Elements(s)  BY DEF Elements
<1>. QED  BY <1>1, <1>2 DEF MadeOf

LEMMA NormalMade ==
  ASSUME NEW s, NEW i \in DOMAIN s, NEW U, Fit(s[i], U)
  PROVE  MadeOf(Normal(s[i]), s)
<1>1. s[i] \in Elements(s)  BY DEF Elements
<1>2. PICK e : e = s[i]  OBVIOUS
<1>3. DOMAIN e = Fields  BY <1>2 DEF Fit
<1>4. Normal(e).id = e.id /\ Normal(e).type = e.type  BY <1>3 DEF Normal, Fields
<1>. QED  BY <1>1, <1>2, <1>4 DEF MadeOf


(* One segment, backwards: every step keeps the list or puts a point at its *)
(* head.                                                                    *)
Segmented(a, b, T, U) ==
  /\ b.time \in T => Normal(b) \in U
  /\ \A t \in T, x \in Int : Point(b, t, OnLine(a, b, x)) \in U

LEMMA SegmentIn ==
  ASSUME Ranged, NEW m \in Nat, NEW T, T = LineTimes(m), NEW a, a.time \in Nat,
         NEW b, b.time \in 0..m, NEW U, Segmented(a, b, T, U), NEW after \in Seq(U)
  PROVE  Segment(a, b, after) \in Seq(U)
<1>. DEFINE ends == b.time >= begin_time /\ b.time < term_time
            evlist == IF ends THEN <<Normal(b)>> \o after ELSE after
            t1 == IF a.time < begin_time THEN begin_time ELSE a.time
            t2 == IF b.time > term_time THEN term_time ELSE b.time
            at(i) == t2 - i * Step
            point(i) == Point(b, at(i), OnLine(a, b, at(i)))
            grows(i, l) ==
              at(i) > t1 /\ (l = <<>> \/ FarEnough(OnLine(a, b, at(i)), l))
            next(i, l) == IF grows(i, l) THEN <<point(i)>> \o l ELSE l
            line == CHOOSE g : g = [i \in 0..MaxTime |->
                                     IF i = 0 THEN evlist ELSE next(i, g[i - 1])]
            first == Point(b, a.time, OnLine(a, b, t1))
<1>1. Segment(a, b, after) =
        IF t2 < t1 THEN evlist
        ELSE IF t1 # a.time THEN <<first>> \o line[MaxTime] ELSE line[MaxTime]
  BY DEF Segment
<1>2. begin_time \in Int /\ term_time \in Int /\ b.time \in Nat /\ b.time <= m /\ a.time \in Nat
  BY DEF Ranged
<1>3. ends => Normal(b) \in U
  <2>1. ends => b.time \in T  BY <1>2 DEF LineTimes
  <2>. QED  BY <2>1 DEF Segmented
<1>4. ASSUME NEW i \in Nat, at(i) > t1  PROVE point(i) \in U
  <2>1. i * Step \in Nat  BY BoundAssumption, Multiple
  <2>2. PICK k \in Nat : k = i * Step  BY <2>1
  <2>3. at(i) = t2 - k  BY <2>2
  <2>4. at(i) \in T /\ at(i) \in Int  BY <1>2, <1>4, <2>3 DEF LineTimes
  <2>. HIDE DEF at
  <2>. QED  BY <2>4 DEF Segmented
<1>5. t1 # a.time => first \in U
  <2>1. t1 # a.time => a.time \in T  BY <1>2 DEF LineTimes
  <2>2. t1 \in Int  BY <1>2
  <2>. HIDE DEF t1
  <2>. QED  BY <2>1, <2>2 DEF Segmented
<1>6. \A e \in U : \A l \in Seq(U) : <<e>> \o l \in Seq(U)
  <2>1. ASSUME NEW e \in U, NEW l \in Seq(U)  PROVE <<e>> \o l \in Seq(U)
    <3>1. <<e>> \in Seq(U)  OBVIOUS
    <3>. QED  BY <3>1, ConcatProperties
  <2>. QED  BY <2>1
<1>7. evlist \in Seq(U)
  <2>. HIDE DEF ends
  <2>. QED  BY <1>3, <1>6
<1>8. \A i \in Nat : \A l \in Seq(U) : next(i, l) \in Seq(U)
  <2>1. \A i \in Nat : \A l : grows(i, l) => point(i) \in U  BY <1>4
  <2>. HIDE DEF grows, point
  <2>. QED  BY <1>6, <2>1
<1>. HIDE DEF evlist, next
<1>9. MaxTime \in Nat  BY BoundAssumption
<1>10. line[MaxTime] \in Seq(U)
  <2>. DEFINE step == [i \in 1..MaxTime |-> [l \in Seq(U) |-> next(i, l)]]
  <2>1. step \in [1..MaxTime -> [Seq(U) -> Seq(U)]]  BY <1>8, <1>9
  <2>2. \A i \in 1..MaxTime : \A l \in Seq(U) : step[i][l] = next(i, l)  OBVIOUS
  <2>. HIDE DEF step
  <2>3. PICK f : Recurs(MaxTime, Seq(U), evlist, step, f)
    <3>1. Steps(MaxTime, Seq(U), evlist, step)  BY <1>7, <1>9, <2>1 DEF Steps
    <3>. QED  BY <3>1, Recursion
  <2>4. f = [i \in 0..MaxTime |-> IF i = 0 THEN evlist ELSE next(i, f[i - 1])]
    <3>1. f \in [0..MaxTime -> Seq(U)] /\ f[0] = evlist  BY <2>3 DEF Recurs
    <3>2. ASSUME NEW i \in 1..MaxTime  PROVE f[i] = next(i, f[i - 1])
      <4>1. f[i] = step[i][f[i - 1]]  BY <2>3 DEF Recurs
      <4>2. f[i - 1] \in Seq(U)  BY <3>1, <1>9
      <4>. QED  BY <2>2, <4>1, <4>2
    <3>. QED  BY <1>9, <3>1, <3>2
  <2>5. line = [i \in 0..MaxTime |-> IF i = 0 THEN evlist ELSE next(i, line[i - 1])]
    BY <2>4
  <2>. HIDE DEF line
  <2>6. line[0] \in Seq(U)  BY <1>7, <1>9, <2>5
  <2>7. ASSUME NEW i \in 1..MaxTime, line[i - 1] \in Seq(U)  PROVE line[i] \in Seq(U)
    <3>1. line[i] = next(i, line[i - 1])  BY <1>9, <2>5
    <3>. QED  BY <1>8, <1>9, <2>7, <3>1
  <2>8. \A i \in 0..MaxTime : line[i] \in Seq(U)  BY <1>9, <2>6, <2>7, Inductively
  <2>. QED  BY <1>9, <2>8
<1>. HIDE DEF line, first, t1, t2
<1>. QED  BY <1>1, <1>5, <1>6, <1>7, <1>10

LEMMA LineTimed ==
  ASSUME Ranged, NEW m \in Nat, NEW T, T = LineTimes(m),
         NEW points, Timed(points, 0..m), points # <<>>
  PROVE  Timed(generate_line_ctrl(points), T) /\ Derived(generate_line_ctrl(points), points)
<1>. DEFINE n == Len(points)
            tail == CHOOSE g : g = [i \in 1..n |->
                     IF i = 1 THEN <<>> ELSE Segment(points[i], points[i - 1], g[i - 1])]
            P == {Normal(points[i]) : i \in 1..n}
            Q == {Point(points[i], y[1], OnLine(points[y[2]], points[i], y[3])) :
                    i \in 1..n, y \in Int \X (1..n) \X Int}
            U == {e \in P \cup Q : Fit(e, T) /\ MadeOf(e, points)}
<1>1. generate_line_ctrl(points) = tail[n]  BY DEF generate_line_ctrl
<1>2. points \in Seq(Elements(points)) /\ n \in Nat /\ DOMAIN points = 1..n
  BY LenProperties DEF Timed
<1>3. n # 0  BY <1>2, EmptySeq
<1>4. \A i \in 1..n : Fit(points[i], 0..m) /\ points[i].time \in 0..m  BY <1>2 DEF Timed, Fit
<1>. HIDE DEF n
<1>5. \A i, j \in 1..n : Segmented(points[j], points[i], T, U)
  <2>1. ASSUME NEW i \in 1..n, NEW j \in 1..n  PROVE Segmented(points[j], points[i], T, U)
    <3>1. points[i].time \in T => Normal(points[i]) \in U
      <4>1. points[i].time \in T => Fit(Normal(points[i]), T)  BY <1>4, NormalFits
      <4>2. MadeOf(Normal(points[i]), points)  BY <1>2, <1>4, NormalMade
      <4>. QED  BY <4>1, <4>2
    <3>2. ASSUME NEW t \in T, NEW x \in Int
          PROVE  Point(points[i], t, OnLine(points[j], points[i], x)) \in U
      <4>1. t \in Int  BY DEF LineTimes
      <4>. DEFINE y == <<t, j, x>>
      <4>2. y \in Int \X (1..n) \X Int /\ y[1] = t /\ y[2] = j /\ y[3] = x  BY <4>1
      <4>3. Point(points[i], t, OnLine(points[j], points[i], x)) \in Q
        <5>. HIDE DEF y
        <5>1. Point(points[i], y[1], OnLine(points[y[2]], points[i], y[3])) \in Q  BY <4>2
        <5>. QED  BY <4>2, <5>1
      <4>4. Fit(Point(points[i], t, OnLine(points[j], points[i], x)), T)  BY <1>4, PointFits
      <4>5. MadeOf(Point(points[i], t, OnLine(points[j], points[i], x)), points)
        BY <1>2, PointMade
      <4>. QED  BY <4>3, <4>4, <4>5
    <3>. QED  BY <3>1, <3>2 DEF Segmented
  <2>. HIDE DEF U
  <2>. QED  BY <2>1
<1>6. \A e \in U : Fit(e, T) /\ MadeOf(e, points)  OBVIOUS
<1>. HIDE DEF U
<1>. DEFINE next(i, l) == IF i = 1 THEN <<>> ELSE Segment(points[i], points[i - 1], l)
<1>7. ASSUME NEW i \in 1..n, NEW l \in Seq(U)  PROVE next(i, l) \in Seq(U)
  <2>1. CASE i = 1  BY <2>1
  <2>2. CASE i # 1
    <3>1. i - 1 \in 1..n  BY <1>2, <2>2
    <3>2. Segmented(points[i], points[i - 1], T, U)  BY <1>5, <3>1
    <3>3. points[i].time \in Nat /\ points[i - 1].time \in 0..m  BY <1>4, <3>1
    <3>4. Segment(points[i], points[i - 1], l) \in Seq(U)  BY <3>2, <3>3, SegmentIn
    <3>. QED  BY <2>2, <3>4
  <2>. QED  BY <2>1, <2>2
<1>8. tail = [i \in 1..n |-> next(i, tail[i - 1])]
  <2>. DEFINE step == [i \in 1..n |-> [l \in Seq(U) |-> next(i, l)]]
  <2>. HIDE DEF next
  <2>1. step \in [1..n -> [Seq(U) -> Seq(U)]]  BY <1>7
  <2>2. \A i \in 1..n : \A l \in Seq(U) : step[i][l] = next(i, l)  OBVIOUS
  <2>. HIDE DEF step
  <2>3. PICK f : Recurs(n, Seq(U), <<>>, step, f)
    <3>1. <<>> \in Seq(U)  OBVIOUS
    <3>2. Steps(n, Seq(U), <<>>, step)  BY <1>2, <2>1, <3>1 DEF Steps
    <3>. QED  BY <3>2, Recursion
  <2>4. ASSUME NEW i \in 1..n  PROVE f[i] = next(i, f[i - 1])
    <3>1. f[i - 1] \in Seq(U) /\ f[i] = step[i][f[i - 1]]  BY <1>2, <2>3 DEF Recurs
    <3>. QED  BY <2>2, <3>1
  <2>. DEFINE g == [i \in 1..n |-> f[i]]
  <2>5. ASSUME NEW i \in 1..n  PROVE g[i] = next(i, g[i - 1])
    <3>1. g[i] = f[i]  OBVIOUS
    <3>2. CASE i = 1  BY <2>4, <3>1, <3>2 DEF next
    <3>3. CASE i # 1
      <4>1. i - 1 \in 1..n  BY <1>2, <3>3
      <4>2. g[i - 1] = f[i - 1]  BY <4>1
      <4>. QED  BY <2>4, <3>1, <4>2
    <3>. QED  BY <3>2, <3>3
  <2>6. g = [i \in 1..n |-> next(i, g[i - 1])]  BY <2>5
  <2>. HIDE DEF g
  <2>7. g = [i \in 1..n |-> IF i = 1 THEN <<>> ELSE Segment(points[i], points[i - 1], g[i - 1])]
    BY <2>6 DEF next
  <2>8. tail = [i \in 1..n |-> IF i = 1 THEN <<>>
                                ELSE Segment(points[i], points[i - 1], tail[i - 1])]
    BY <2>7
  <2>. HIDE DEF tail
  <2>. QED  BY <2>8 DEF next
<1>. HIDE DEF tail
<1>9. \A i \in 1..n : tail[i] = next(i, tail[i - 1])  BY <1>8
<1>. DEFINE h == [i \in 0..n |-> IF i = 0 THEN <<>> ELSE tail[i]]
<1>10. h[0] \in Seq(U)  BY <1>2
<1>11. ASSUME NEW i \in 1..n, h[i - 1] \in Seq(U)  PROVE h[i] \in Seq(U)
  <2>1. h[i] = tail[i] /\ (i # 1 => h[i - 1] = tail[i - 1])  BY <1>2
  <2>. HIDE DEF h
  <2>2. tail[i] = next(i, tail[i - 1])  BY <1>9
  <2>3. CASE i = 1  BY <2>1, <2>2, <2>3
  <2>4. CASE i # 1
    <3>1. tail[i - 1] \in Seq(U)  BY <1>11, <2>1, <2>4
    <3>. HIDE DEF next
    <3>. QED  BY <1>7, <2>1, <2>2, <3>1
  <2>. QED  BY <2>3, <2>4
<1>12. h[n] = tail[n] /\ n \in 0..n  BY <1>2, <1>3
<1>. HIDE DEF h
<1>13. \A i \in 0..n : h[i] \in Seq(U)  BY <1>2, <1>10, <1>11, Inductively
<1>14. tail[n] \in Seq(U)  BY <1>12, <1>13
<1>. QED  BY <1>1, <1>6, <1>14, TimedOf, DerivedOf

(* The points of a curve lie within it in the same way.                    *)
LEMMA CurveTimed ==
  ASSUME Ranged, NEW m \in Nat, NEW T, T = LineTimes(m),
         NEW points, Timed(points, 0..m), points # <<>>
  PROVE  Timed(generate_curve_ctrl(points), T) /\ Derived(generate_curve_ctrl(points), points)
<1>. DEFINE last == Len(points)
            t1 == IF points[last].time < begin_time THEN begin_time ELSE points[last].time
            t2 == IF points[1].time > term_time THEN term_time ELSE points[1].time
            seg(t) == Min({j \in 2..last : points[j].time <= t})
            value(t) == OnLine(points[seg(t)], points[seg(t)-1], t)
            evlist == IF points[1].time < term_time THEN <<Normal(points[1])>> ELSE <<>>
            at(i) == t2 - i * Step
            point(i) == Point(points[1], at(i), value(at(i)))
            grows(i, l) ==
              at(i) > t1 /\ (\/ l = <<>> \/ at(i) = points[seg(at(i))].time
                            \/ FarEnough(value(at(i)), l))
            next(i, l) == IF grows(i, l) THEN <<point(i)>> \o l ELSE l
            curve == CHOOSE g : g = [i \in 0..MaxTime |->
                                      IF i = 0 THEN evlist ELSE next(i, g[i - 1])]
            first == Point(points[1], points[last].time, value(t1))
            P == {Normal(points[1]), first} \cup {point(i) : i \in Nat}
            U == {e \in P : Fit(e, T) /\ MadeOf(e, points)}
<1>1. generate_curve_ctrl(points) =
        IF t2 < t1 THEN evlist
        ELSE IF t1 # points[last].time THEN <<first>> \o curve[MaxTime] ELSE curve[MaxTime]
  BY DEF generate_curve_ctrl
<1>2. 1 \in DOMAIN points /\ last \in DOMAIN points
  <2>1. points \in Seq(Elements(points)) /\ last \in Nat /\ DOMAIN points = 1..last
    BY LenProperties DEF Timed
  <2>2. last # 0  BY <2>1, EmptySeq
  <2>. QED  BY <2>1, <2>2
<1>3. Fit(points[1], 0..m) /\ points[1].time \in 0..m /\ points[last].time \in 0..m
  BY <1>2 DEF Timed, Fit
<1>4. begin_time \in Int /\ term_time \in Int  BY DEF Ranged
<1>5. points[1].time < term_time => Normal(points[1]) \in U
  <2>1. points[1].time < term_time => points[1].time \in T  BY <1>3, <1>4 DEF LineTimes
  <2>2. MadeOf(Normal(points[1]), points)  BY <1>2, <1>3, NormalMade
  <2>. QED  BY <1>3, <2>1, <2>2, NormalFits
<1>6. ASSUME NEW i \in Nat, at(i) > t1  PROVE point(i) \in U
  <2>1. i * Step \in Nat  BY BoundAssumption, Multiple
  <2>2. PICK k \in Nat : k = i * Step  BY <2>1
  <2>3. at(i) = t2 - k  BY <2>2
  <2>4. at(i) \in T  BY <1>3, <1>4, <1>6, <2>3 DEF LineTimes
  <2>. HIDE DEF at, value
  <2>5. Fit(point(i), T)  BY <1>3, <2>4, PointFits
  <2>6. MadeOf(point(i), points)  BY <1>2, PointMade
  <2>. QED  BY <2>5, <2>6
<1>7. t1 # points[last].time => first \in U
  <2>1. t1 # points[last].time => points[last].time \in T  BY <1>3, <1>4 DEF LineTimes
  <2>. HIDE DEF t1, value
  <2>2. t1 # points[last].time => Fit(first, T)  BY <1>3, <2>1, PointFits
  <2>3. MadeOf(first, points)  BY <1>2, PointMade
  <2>. QED  BY <2>2, <2>3
<1>8. \A e \in U : Fit(e, T) /\ MadeOf(e, points)  OBVIOUS
<1>. HIDE DEF U
<1>9. \A e \in U : \A l \in Seq(U) : <<e>> \o l \in Seq(U)
  <2>1. ASSUME NEW e \in U, NEW l \in Seq(U)  PROVE <<e>> \o l \in Seq(U)
    <3>1. <<e>> \in Seq(U)  OBVIOUS
    <3>. QED  BY <3>1, ConcatProperties
  <2>. QED  BY <2>1
<1>10. evlist \in Seq(U)  BY <1>5
<1>11. \A i \in Nat : \A l \in Seq(U) : next(i, l) \in Seq(U)
  <2>1. \A i \in Nat : \A l : grows(i, l) => point(i) \in U  BY <1>6
  <2>. HIDE DEF grows, point
  <2>. QED  BY <1>9, <2>1
<1>. HIDE DEF evlist, next
<1>12. MaxTime \in Nat  BY BoundAssumption
<1>13. curve[MaxTime] \in Seq(U)
  <2>. DEFINE step == [i \in 1..MaxTime |-> [l \in Seq(U) |-> next(i, l)]]
  <2>1. step \in [1..MaxTime -> [Seq(U) -> Seq(U)]]  BY <1>11, <1>12
  <2>2. \A i \in 1..MaxTime : \A l \in Seq(U) : step[i][l] = next(i, l)  OBVIOUS
  <2>. HIDE DEF step
  <2>3. PICK f : Recurs(MaxTime, Seq(U), evlist, step, f)
    <3>1. Steps(MaxTime, Seq(U), evlist, step)  BY <1>10, <1>12, <2>1 DEF Steps
    <3>. QED  BY <3>1, Recursion
  <2>4. f = [i \in 0..MaxTime |-> IF i = 0 THEN evlist ELSE next(i, f[i - 1])]
    <3>1. f \in [0..MaxTime -> Seq(U)] /\ f[0] = evlist  BY <2>3 DEF Recurs
    <3>2. ASSUME NEW i \in 1..MaxTime  PROVE f[i] = next(i, f[i - 1])
      <4>1. f[i] = step[i][f[i - 1]]  BY <2>3 DEF Recurs
      <4>2. f[i - 1] \in Seq(U)  BY <3>1, <1>12
      <4>. QED  BY <2>2, <4>1, <4>2
    <3>. QED  BY <1>12, <3>1, <3>2
  <2>5. curve = [i \in 0..MaxTime |-> IF i = 0 THEN evlist ELSE next(i, curve[i - 1])]
    BY <2>4
  <2>. HIDE DEF curve
  <2>6. curve[0] \in Seq(U)  BY <1>10, <1>12, <2>5
  <2>7. ASSUME NEW i \in 1..MaxTime, curve[i - 1] \in Seq(U)  PROVE curve[i] \in Seq(U)
    <3>1. curve[i] = next(i, curve[i - 1])  BY <1>12, <2>5
    <3>. QED  BY <1>11, <1>12, <2>7, <3>1
  <2>8. \A i \in 0..MaxTime : curve[i] \in Seq(U)  BY <1>12, <2>6, <2>7, Inductively
  <2>. QED  BY <1>12, <2>8
<1>. HIDE DEF curve, first, t1, t2
<1>14. generate_curve_ctrl(points) \in Seq(U)
  BY <1>1, <1>7, <1>9, <1>10, <1>13
<1>. QED  BY <1>8, <1>14, TimedOf, DerivedOf

(* The points of a line: the event and those before it.                    *)
LEMMA DrawnTimed ==
  ASSUME Ranged, NEW m \in Nat, NEW T, T = LineTimes(m), NEW e, Fit(e, 0..m),
         NEW l, Timed(l, 0..m), Drawable(e, l)
  PROVE  Timed(Drawn(e, l), T) /\ \A i \in DOMAIN Drawn(e, l) :
           MadeOf(Drawn(e, l)[i], <<e>>) \/ MadeOf(Drawn(e, l)[i], l)
<1>. DEFINE points == Points(e, l)
<1>1. l \in Seq(Elements(l)) /\ Len(l) \in Nat /\ DOMAIN l = 1..Len(l)
  BY LenProperties DEF Timed
<1>2. PICK n \in 1..Len(l) : n = Min(Bases(l))
  <2>1. Bases(l) \in SUBSET Nat /\ Bases(l) # {} /\ Bases(l) \subseteq 1..Len(l)
    BY <1>1 DEF Drawable, Bases
  <2>2. PICK n \in Bases(l) : \A k \in Bases(l) : n <= k  BY <2>1, Least
  <2>3. Min(Bases(l)) = CHOOSE x \in Bases(l) : \A y \in Bases(l) : x <= y  BY DEF Min
  <2>4. Min(Bases(l)) \in Bases(l)  BY <2>2, <2>3
  <2>. QED  BY <2>1, <2>4
<1>3. Timed(SubSeq(l, 1, n), 0..m)
  <2>1. /\ SubSeq(l, 1, n) \in Seq(Elements(l))
    BY <1>1, <1>2, SubSeqProperties
  <2>2. \A x \in Elements(l) : Fit(x, 0..m)  BY DEF Timed, Elements
  <2>. QED  BY <2>1, <2>2, TimedOf
<1>4. Timed(points, 0..m)
  <2>1. Timed(<<e>>, 0..m)  BY TimedOne
  <2>2. points = <<e>> \o SubSeq(l, 1, n)  BY <1>2 DEF Points
  <2>. QED  BY <1>3, <2>1, <2>2, TimedJoin
<1>5. points # <<>>
  <2>1. SubSeq(l, 1, n) \in Seq(Elements(l))  BY <1>1, <1>2, SubSeqProperties
  <2>2. points = <<e>> \o SubSeq(l, 1, n)  BY <1>2 DEF Points
  <2>. DEFINE S == Elements(l) \cup {e}
  <2>3. SubSeq(l, 1, n) \in Seq(S)
    <3>1. \A X, Y : X \subseteq Y => Seq(X) \subseteq Seq(Y)  BY SeqDef
    <3>2. Elements(l) \subseteq S  OBVIOUS
    <3>. HIDE DEF S
    <3>. QED  BY <2>1, <3>1, <3>2
  <2>4. <<e>> \in Seq(S) /\ Len(<<e>>) = 1  OBVIOUS
  <2>. HIDE DEF S
  <2>5. Len(points) = 1 + Len(SubSeq(l, 1, n)) /\ Len(SubSeq(l, 1, n)) \in Nat
    BY <2>2, <2>3, <2>4, ConcatProperties, LenProperties
  <2>. QED  BY <2>5, EmptySeq
<1>. HIDE DEF points
<1>6. /\ Timed(generate_line_ctrl(points), T) /\ Timed(generate_curve_ctrl(points), T)
      /\ Derived(generate_line_ctrl(points), points)
      /\ Derived(generate_curve_ctrl(points), points)
  BY <1>4, <1>5, LineTimed, CurveTimed
<1>7. \A b \in Elements(points) : b \in Elements(<<e>>) \/ b \in Elements(l)
  <2>1. PICK u, v, w : u = <<e>> /\ v = SubSeq(l, 1, n) /\ w = points  OBVIOUS
  <2>2. w = u \o v  BY <1>2, <2>1 DEF points, Points
  <2>3. /\ v \in Seq(Elements(l)) /\ List(v) /\ List(u) /\ DOMAIN u = {1} /\ u[1] = e
        /\ Len(u) = 1
    <3>1. v \in Seq(Elements(l))  BY <1>1, <1>2, <2>1, SubSeqProperties
    <3>2. u \in Seq({e}) /\ DOMAIN u = {1} /\ u[1] = e /\ Len(u) = 1  BY <2>1
    <3>. QED  BY <3>1, <3>2, ListOf
  <2>4. DOMAIN v = 1..Len(v) /\ \A i \in DOMAIN v : v[i] \in Elements(l)
    BY <2>3, LenProperties, ElementOfSeq
  <2>5. /\ Len(v) \in Nat /\ DOMAIN w = 1..(Len(u) + Len(v))
        /\ \A i \in 1..(Len(u) + Len(v)) : w[i] = IF i <= Len(u) THEN u[i] ELSE v[i - Len(u)]
    BY <2>2, <2>3, ListJoin
  <2>6. ASSUME NEW i \in DOMAIN w  PROVE w[i] \in Elements(<<e>>) \/ w[i] \in Elements(l)
    <3>1. CASE i = 1
      <4>1. w[i] = u[1] /\ 1 \in DOMAIN u  BY <2>3, <2>5, <2>6, <3>1
      <4>. QED  BY <2>1, <4>1 DEF Elements
    <3>2. CASE i # 1
      <4>1. i - 1 \in 1..Len(v) /\ ~(i <= 1)  BY <2>3, <2>5, <3>2
      <4>2. w[i] = v[i - 1]  BY <2>3, <2>5, <4>1
      <4>. QED  BY <2>4, <4>1, <4>2
    <3>. QED  BY <3>1, <3>2
  <2>. QED  BY <2>1, <2>6 DEF Elements
<1>8. \A x : MadeOf(x, points) => MadeOf(x, <<e>>) \/ MadeOf(x, l)  BY <1>7 DEF MadeOf
<1>. QED  BY <1>6, <1>8 DEF Drawn, Derived, points

-----------------------------------------------------------------------------
(* The other events that the scan makes.                                   *)
LEMMA SetSeq ==
  ASSUME NEW S, IsFiniteSet(S)
  PROVE  Cardinality(S) \in Nat /\ SetToSeq(S) \in [1..Cardinality(S) -> S]
<1>1. PICK n \in Nat : ExistsBijection(1..n, S)  BY FS_NatBijection
<1>2. Cardinality(S) = n  BY <1>1, FS_CountingElements
<1>3. PICK f \in Bijection(1..n, S) : TRUE  BY <1>1 DEF ExistsBijection
<1>4. f \in [1..n -> S] /\ IsInjective(f)  BY <1>3 DEF Bijection, Injection, IsInjective
<1>5. SetToSeq(S) = CHOOSE g \in [1..n -> S] : IsInjective(g)  BY <1>2 DEF SetToSeq
<1>6. SetToSeq(S) \in [1..n -> S]  BY <1>4, <1>5
<1>. QED  BY <1>2, <1>6

LEMMA NoteOffFits ==
  ASSUME NEW i, NEW time, NEW k \in Note, NEW T, time \in T
  PROVE  Fit(note_off(i, time, k), T)
<1>1. note_off(i, time, k) =
        [id |-> Made(i), type |-> "off", time |-> time, key |-> k, ctype |-> "",
         val |-> NOVELOC, irregular |-> time = input[note_tbl[k]].time]
  BY DEF note_off, Event
<1>2. DOMAIN note_off(i, time, k) = Fields  BY <1>1 DEF Fields
<1>3. /\ note_off(i, time, k).time = time
      /\ note_off(i, time, k).type = "off" /\ note_off(i, time, k).key = k
  BY DEF note_off, Event
<1>. QED  BY <1>2, <1>3 DEF Fit, Keyed

Playing == {k \in Note : nnotes[k] > 0}
LEMMA PlayingSeq ==
  Cardinality(Playing) \in Nat /\ SetToSeq(Playing) \in [1..Cardinality(Playing) -> Playing]
<1>1. IsFiniteSet(Playing)  BY KeyAssumption, FS_Subset DEF Playing
<1>. QED  BY <1>1, SetSeq

LEMMA OffsTimed ==
  ASSUME NEW T, NEW time \in T
  PROVE  Timed(sim_all_notes_off(time), T)
<1>. DEFINE ks == SetToSeq(Playing)
            n == Cardinality(Playing)
            offs == [i \in DOMAIN ks |-> note_off(i, time, ks[i])]
<1>1. n \in Nat /\ ks \in [1..n -> Playing]  BY PlayingSeq
<1>2. sim_all_notes_off(time) = offs  BY DEF sim_all_notes_off, Playing
<1>. HIDE DEF ks, n
<1>3. \A i \in 1..n : Fit(note_off(i, time, ks[i]), T)
  <2>1. \A i \in 1..n : ks[i] \in Note  BY <1>1 DEF Playing
  <2>. QED  BY <2>1, NoteOffFits
<1>4. DOMAIN offs = 1..n /\ \A i \in 1..n : Fit(offs[i], T)  BY <1>1, <1>3
<1>5. offs = [i \in DOMAIN offs |-> offs[i]]  OBVIOUS
<1>. HIDE DEF offs
<1>. QED  BY <1>1, <1>2, <1>4, <1>5, TimedMap

(* The times of the result so far: below begin_time or up to the event the *)
(* scan is at, and before end_time; behind the end of the range, up to it.  *)
Passed(m) ==
  {t \in Int : /\ t >= 0 \/ t >= begin_time
               /\ t <= begin_time \/ t <= m
               /\ t < end_time}
Ended ==
  {t \in Int : /\ t >= 0 \/ t >= begin_time
               /\ t <= begin_time \/ t = 0 \/ t <= term_time}
Reached == IF output = 3 THEN Ended ELSE Passed(cur_time)

Rising(s) ==
  /\ Timed(s, Nat)
  /\ \A i, j \in DOMAIN s : i <= j => s[i].time <= s[j].time

Positions ==
  /\ Rising(input) /\ input # <<>>
  /\ pos \in Nat \ {0} /\ pos - 1 \in 0..Len(input) /\ output \in 0..3 /\ cur_time \in Nat
  /\ term_time \in Int /\ begin_time \in Int /\ end_time \in Int /\ begin_time < end_time
  /\ stage = "event" => pos \in DOMAIN input /\ cur_time = input[pos].time
  /\ stage = "check" /\ pos \in DOMAIN input => cur_time <= input[pos].time
  /\ cur_time <= input[Len(input)].time
Tables ==
  /\ note_tbl \in [Note -> 0..(pos - 1)] /\ nnotes \in [Note -> Nat]
  /\ \A k \in Note : nnotes[k] > 0 => note_tbl[k] # 0
  /\ timesig \in 0..(pos - 1)
  /\ ctrl_tbl = [k \in Ctrl |-> ctrl_tbl[k]]
  /\ \A k \in Ctrl : Timed(ctrl_tbl[k], 0..cur_time)
InRange ==
  /\ output < 2 => \A i \in DOMAIN input : i < pos => input[i].time <= begin_time
  /\ stage = "event" /\ output < 2 => cur_time <= begin_time
  /\ output # 3 => term_time = end_time
  /\ stage = "event" /\ output # 3 => cur_time < end_time
  /\ output = 3 => term_time <= cur_time
ScanInv ==
  stage \in {"check", "event"} => Positions /\ Tables /\ InRange /\ Timed(tmp, Reached)

LEMMA Places == ASSUME Positions
  PROVE  /\ Len(input) \in Nat /\ DOMAIN input = 1..Len(input)
         /\ \A i \in 1..(pos - 1) : i \in DOMAIN input /\ i < pos
         /\ \A i \in DOMAIN input : Fit(input[i], Nat) /\ input[i].time \in Nat
<1>1. input \in Seq(Elements(input)) /\ Len(input) \in Nat /\ DOMAIN input = 1..Len(input)
  BY LenProperties DEF Positions, Rising, Timed
<1>2. pos \in Nat /\ pos - 1 \in 0..Len(input)  BY DEF Positions
<1>. QED  BY <1>1, <1>2 DEF Positions, Rising, Timed, Fit

LEMMA PlayingTimed ==
  ASSUME Positions, Tables, NEW T,
         \A i \in DOMAIN input : i < pos => input[i].time \in T
  PROVE  Timed(PlayingNotes, T)
<1>. DEFINE ks == SetToSeq(Playing)
            n == Cardinality(Playing)
            notes == [i \in DOMAIN ks |-> input[note_tbl[ks[i]]]]
<1>1. n \in Nat /\ ks \in [1..n -> Playing]  BY PlayingSeq
<1>2. PlayingNotes = notes  BY DEF PlayingNotes, Playing
<1>. HIDE DEF ks, n
<1>3. \A i \in DOMAIN input : i < pos => Fit(input[i], T)  BY Places DEF Fit
<1>4. ASSUME NEW k \in Playing  PROVE note_tbl[k] \in DOMAIN input /\ note_tbl[k] < pos
  <2>1. k \in Note /\ note_tbl[k] # 0 /\ note_tbl[k] \in 0..(pos - 1)
    BY DEF Playing, Tables
  <2>2. note_tbl[k] \in 1..(pos - 1)  BY <2>1
  <2>. QED  BY <2>2, Places
<1>5. DOMAIN notes = 1..n /\ \A i \in 1..n : Fit(notes[i], T)
  <2>1. ASSUME NEW i \in 1..n  PROVE Fit(notes[i], T)
    <3>1. ks[i] \in Playing /\ notes[i] = input[note_tbl[ks[i]]]  BY <1>1
    <3>. HIDE DEF notes
    <3>. QED  BY <1>3, <1>4, <3>1
  <2>. QED  BY <1>1, <2>1
<1>6. notes = [i \in DOMAIN notes |-> notes[i]]  OBVIOUS
<1>. HIDE DEF notes
<1>. QED  BY <1>1, <1>2, <1>5, <1>6, TimedMap

LEMMA SignatureTimed ==
  ASSUME Positions, Tables, NEW T,
         \A i \in DOMAIN input : i < pos => input[i].time \in T
  PROVE  Timed(Signature, T)
<1>1. CASE timesig = 0  BY <1>1, TimedEmpty DEF Signature
<1>2. CASE timesig # 0
  <2>1. timesig \in 1..(pos - 1)  BY <1>2 DEF Tables
  <2>2. Fit(input[timesig], T)  BY <2>1, Places DEF Fit
  <2>. QED  BY <1>2, <2>2, TimedOne DEF Signature
<1>. QED  BY <1>1, <1>2

LEMMA FlushedTimed ==
  ASSUME begin_time \in Int, NEW k, NEW m \in Nat, Timed(ctrl_tbl[k], 0..m)
  PROVE  Timed(Flushed(k), {t \in Nat : t <= begin_time /\ t < begin_time})
<1>. DEFINE l == ctrl_tbl[k]
            T == {t \in Nat : t <= begin_time /\ t < begin_time}
<1>1. CASE l # <<>> /\ Last(l).ctype # "Pt" /\ Last(l).time < begin_time
  <2>1. l \in Seq(Elements(l)) /\ Len(l) \in Nat /\ DOMAIN l = 1..Len(l)
    BY LenProperties DEF Timed
  <2>2. Len(l) # 0  BY <1>1, <2>1, EmptySeq
  <2>3. Fit(Last(l), 0..m)  BY <2>1, <2>2 DEF Timed, Last
  <2>4. Fit(Last(l), T)  BY <1>1, <2>3 DEF Fit
  <2>5. Flushed(k) = <<Last(l)>>  BY <1>1 DEF Flushed
  <2>. HIDE DEF T, l
  <2>6. Timed(Flushed(k), T)  BY <2>4, <2>5, TimedOne
  <2>. QED  BY <2>6 DEF T
<1>2. CASE ~(l # <<>> /\ Last(l).ctype # "Pt" /\ Last(l).time < begin_time)
  <2>1. Flushed(k) = <<>>  BY <1>2 DEF Flushed
  <2>. QED  BY <2>1, TimedEmpty
<1>. QED  BY <1>1, <1>2

LEMMA FlushTimed ==
  ASSUME begin_time \in Int, cur_time \in Nat, Tables, NEW keys \in SUBSET Ctrl, NEW T,
         {t \in Nat : t <= begin_time} \subseteq T
  PROVE  Timed(FlushAll(keys), T)
<1>. DEFINE n == Cardinality(keys)
            q == [i \in 1..n |-> Flushed(SetToSeq(keys)[i])]
<1>1. IsFiniteSet(keys)  BY KeyAssumption, FS_Subset
<1>2. n \in Nat /\ SetToSeq(keys) \in [1..n -> keys]  BY <1>1, SetSeq
<1>3. \A k \in Ctrl : Timed(Flushed(k), T)
  <2>1. ASSUME NEW k \in Ctrl  PROVE Timed(Flushed(k), T)
    <3>1. Timed(Flushed(k), {t \in Nat : t <= begin_time /\ t < begin_time})
      BY FlushedTimed DEF Tables
    <3>2. {t \in Nat : t <= begin_time /\ t < begin_time} \subseteq T  OBVIOUS
    <3>. QED  BY <3>1, <3>2, TimedMore
  <2>. QED  BY <2>1
<1>4. FlushAll(keys) = FlattenSeq(q)  BY DEF FlushAll
<1>. HIDE DEF n
<1>5. DOMAIN q = 1..n /\ \A i \in 1..n : Timed(q[i], T)  BY <1>2, <1>3
<1>6. q = [i \in DOMAIN q |-> q[i]]  OBVIOUS
<1>. HIDE DEF q
<1>. QED  BY <1>2, <1>4, <1>5, <1>6, TimedFlat

-----------------------------------------------------------------------------
(* The cases of the scan.                                                  *)
LEMMA CaseStep ==
  ASSUME ScanInv, stage = "event", stage' = "check", pos' = pos + 1,
         UNCHANGED <<input, req, output, cur_time, term_time>>,
         Timed(tmp', Reached), Tables'
  PROVE  ScanInv'
<1>0. Positions /\ InRange  BY DEF ScanInv
<1>1. /\ begin_time' = begin_time /\ end_time' = end_time /\ Ended' = Ended
      /\ \A m : Passed(m)' = Passed(m)
  BY DEF begin_time, end_time, Does, Ended, Passed
<1>2. Reached' = Reached  BY <1>1 DEF Reached
<1>3. Len(input) \in Nat /\ DOMAIN input = 1..Len(input)  BY <1>0, Places
<1>4. pos \in DOMAIN input /\ cur_time = input[pos].time  BY <1>0 DEF Positions
<1>5. pos + 1 \in DOMAIN input => cur_time <= input[pos + 1].time
  BY <1>0, <1>3, <1>4 DEF Positions, Rising
<1>6. Rising(input)'  BY <1>0 DEF Positions, Rising, Timed, Fit, Keyed, Elements
<1>7. Positions'
  <2>1. pos + 1 \in Nat \ {0} /\ (pos + 1) - 1 \in 0..Len(input)  BY <1>3, <1>4
  <2>. QED  BY <1>0, <1>1, <1>5, <1>6, <2>1 DEF Positions
<1>8. InRange'
  <2>1. output < 2 => \A i \in DOMAIN input : i < pos + 1 => input[i].time <= begin_time
    BY <1>0, <1>3, <1>4 DEF InRange
  <2>. QED  BY <1>0, <1>1, <2>1 DEF InRange
<1>. QED  BY <1>2, <1>7, <1>8 DEF ScanInv

(* What is known of the event that the scan is at.                         *)
LEMMA Here ==
  ASSUME ScanInv, stage = "event"
  PROVE  /\ Positions /\ Tables /\ InRange /\ Timed(tmp, Reached)
         /\ pos \in DOMAIN input /\ ep = input[pos] /\ Fit(ep, {cur_time})
         /\ begin_time \in Int /\ term_time \in Int /\ cur_time \in Nat
         /\ output # 3 => cur_time \in Reached
         /\ cur_time = 0 => cur_time \in Reached
         /\ {t \in Nat : t <= begin_time} \subseteq Reached
         /\ LineTimes(cur_time) \subseteq Reached
<1>1. Positions /\ Tables /\ InRange /\ Timed(tmp, Reached)  BY DEF ScanInv
<1>2. pos \in DOMAIN input /\ cur_time = input[pos].time  BY <1>1 DEF Positions
<1>3. ep = input[pos] /\ Fit(ep, {cur_time})  BY <1>1, <1>2, Places DEF ep, Fit
<1>4. begin_time \in Int /\ term_time \in Int /\ cur_time \in Nat /\ end_time \in Int
      /\ begin_time < end_time
  BY <1>1 DEF Positions
<1>5. CASE output = 3
  <2>1. Reached = Ended  BY <1>5 DEF Reached
  <2>2. 0 \in Ended  BY DEF Ended
  <2>3. {t \in Nat : t <= begin_time} \subseteq Ended  BY DEF Ended
  <2>4. LineTimes(cur_time) \subseteq Ended  BY <1>4 DEF Ended, LineTimes
  <2>. QED  BY <1>1, <1>2, <1>3, <1>4, <1>5, <2>1, <2>2, <2>3, <2>4
<1>6. CASE output # 3
  <2>1. Reached = Passed(cur_time)  BY <1>6 DEF Reached
  <2>2. cur_time < end_time  BY <1>1, <1>6 DEF InRange
  <2>3. cur_time \in Passed(cur_time)  BY <1>4, <2>2 DEF Passed
  <2>4. {t \in Nat : t <= begin_time} \subseteq Passed(cur_time)  BY <1>4 DEF Passed
  <2>5. LineTimes(cur_time) \subseteq Passed(cur_time)
    BY <1>4, <2>2 DEF Passed, LineTimes
  <2>. QED  BY <1>1, <1>2, <1>3, <1>4, <2>1, <2>3, <2>4, <2>5
<1>. QED  BY <1>5, <1>6

LEMMA CtrlKept ==
  ASSUME Tables, UNCHANGED <<ctrl_tbl, cur_time>>
  PROVE  /\ ctrl_tbl' = [k \in Ctrl |-> ctrl_tbl'[k]]
         /\ \A k \in Ctrl : Timed(ctrl_tbl'[k], 0..cur_time')
<1>1. /\ ctrl_tbl = [k \in Ctrl |-> ctrl_tbl[k]]
      /\ \A k \in Ctrl : Timed(ctrl_tbl[k], 0..cur_time)
  BY DEF Tables
<1>. QED  BY <1>1

LEMMA TablesKept ==
  ASSUME Positions, Tables, pos' = pos + 1, cur_time' = cur_time,
         UNCHANGED <<nnotes, note_tbl, timesig, ctrl_tbl>>
  PROVE  Tables'
<1>1. pos \in Nat /\ 0..(pos - 1) \subseteq 0..(pos' - 1)  BY DEF Positions
<1>. QED  BY <1>1, CtrlKept DEF Tables

LEMMA NoteOnStep == ASSUME ScanInv, E_NoteOn  PROVE ScanInv'
<1>. USE DEF Case
<1>0. stage = "event" /\ stage' = "check" /\ pos' = pos + 1 /\ ep.type = "on"
      /\ UNCHANGED <<input, req, output, cur_time, term_time>>
  BY DEF E_NoteOn
<1>1. /\ Positions /\ Tables /\ InRange /\ Timed(tmp, Reached)
      /\ pos \in DOMAIN input /\ Fit(ep, {cur_time})
      /\ output # 3 => cur_time \in Reached
  BY <1>0, Here
<1>. DEFINE k == ep.key
            off == IF Retriggers(k) THEN <<note_off(1, cur_time, k)>> ELSE <<>>
<1>2. k \in Note  BY <1>0, <1>1 DEF Fit, Keyed
<1>3. Timed(tmp', Reached)
  <2>1. CASE tmp' = tmp  BY <1>1, <2>1
  <2>2. CASE output = 2 /\ tmp' = tmp \o off \o <<ep>>
    <3>1. Fit(ep, Reached) /\ Fit(note_off(1, cur_time, k), Reached)
      BY <1>1, <1>2, <2>2, NoteOffFits DEF Fit
    <3>2. Timed(<<ep>>, Reached) /\ Timed(<<note_off(1, cur_time, k)>>, Reached)
          /\ Timed(<<>>, Reached)
      BY <3>1, TimedOne, TimedEmpty
    <3>3. Timed(off, Reached)  BY <3>2
    <3>. HIDE DEF off
    <3>4. Timed(tmp \o off, Reached)  BY <1>1, <3>3, TimedJoin
    <3>. QED  BY <2>2, <3>2, <3>4, TimedJoin
  <2>. QED  BY <2>1, <2>2 DEF E_NoteOn
<1>4. Tables'
  <2>1. UNCHANGED <<ctrl_tbl, timesig>>
    BY DEF E_NoteOn
  <2>2. \/ UNCHANGED <<nnotes, note_tbl>>
        \/ /\ nnotes' = [nnotes EXCEPT ![k] = IF @ < MaxCount THEN @ + 1 ELSE @]
           /\ note_tbl' = [note_tbl EXCEPT ![k] = pos]
    BY DEF E_NoteOn
  <2>3. CASE UNCHANGED <<nnotes, note_tbl>>  BY <1>0, <1>1, <2>1, <2>3, TablesKept
  <2>4. CASE /\ nnotes' = [nnotes EXCEPT ![k] = IF @ < MaxCount THEN @ + 1 ELSE @]
             /\ note_tbl' = [note_tbl EXCEPT ![k] = pos]
    <3>. HIDE DEF k
    <3>1. pos \in Nat \ {0} /\ pos' - 1 = pos  BY <1>0, <1>1 DEF Positions
    <3>2. /\ note_tbl \in [Note -> 0..(pos - 1)] /\ nnotes \in [Note -> Nat]
          /\ \A n \in Note : nnotes[n] > 0 => note_tbl[n] # 0
          /\ timesig \in 0..(pos - 1)
      BY <1>1 DEF Tables
    <3>3. note_tbl' \in [Note -> 0..pos]  BY <1>2, <2>4, <3>1, <3>2
    <3>4. nnotes' \in [Note -> Nat]
      <4>1. nnotes[k] \in Nat /\ nnotes[k] + 1 \in Nat  BY <1>2, <3>2
      <4>. QED  BY <2>4, <3>2, <4>1
    <3>5. \A n \in Note : nnotes'[n] > 0 => note_tbl'[n] # 0  BY <2>4, <3>1, <3>2
    <3>6. ctrl_tbl' = [n \in Ctrl |-> ctrl_tbl'[n]]
          /\ \A n \in Ctrl : Timed(ctrl_tbl'[n], 0..cur_time')
      BY <1>0, <1>1, <2>1, CtrlKept
    <3>7. timesig' \in 0..pos  BY <2>1, <3>1, <3>2
    <3>. QED  BY <3>1, <3>3, <3>4, <3>5, <3>6, <3>7 DEF Tables
  <2>. QED  BY <2>2, <2>3, <2>4
<1>. QED  BY <1>0, <1>3, <1>4, CaseStep

LEMMA NoteOffStep == ASSUME ScanInv, E_NoteOff  PROVE ScanInv'
<1>. USE DEF Case
<1>0. stage = "event" /\ stage' = "check" /\ pos' = pos + 1 /\ ep.type = "off"
      /\ UNCHANGED <<input, req, output, cur_time, term_time, note_tbl, ctrl_tbl, timesig>>
  BY DEF E_NoteOff
<1>1. /\ Positions /\ Tables /\ InRange /\ Timed(tmp, Reached)
      /\ pos \in DOMAIN input /\ Fit(ep, {cur_time})
      /\ output # 3 => cur_time \in Reached
  BY <1>0, Here
<1>. DEFINE k == ep.key
            e == [ep EXCEPT !.irregular = cur_time = input[note_tbl[k]].time]
<1>2. k \in Note  BY <1>0, <1>1 DEF Fit, Keyed
<1>3. Timed(tmp', Reached)
  <2>1. tmp' = tmp \/ (output = 2 /\ (tmp' = Append(tmp, ep) \/ tmp' = tmp \o <<e>>))
    BY DEF E_NoteOff
  <2>2. ASSUME output = 2  PROVE Fit(ep, Reached) /\ Fit(e, Reached)
    <3>1. Fit(ep, Reached)  BY <1>1, <2>2 DEF Fit
    <3>2. DOMAIN e = DOMAIN ep /\ e.time = ep.time /\ e.type = ep.type /\ e.key = ep.key
      BY <1>1 DEF Fit, Fields
    <3>. HIDE DEF e
    <3>. QED  BY <3>1, <3>2 DEF Fit, Keyed
  <2>. HIDE DEF e
  <2>3. output = 2 => Timed(Append(tmp, ep), Reached) /\ Timed(tmp \o <<e>>, Reached)
    BY <1>1, <2>2, TimedOne, TimedJoin, TimedAppend
  <2>. QED  BY <1>1, <2>1, <2>3
<1>4. Tables'
  <2>1. nnotes' = [nnotes EXCEPT ![k] = Fewer(@)]  BY DEF E_NoteOff
  <2>. HIDE DEF k
  <2>2. pos \in Nat \ {0} /\ pos' - 1 = pos /\ 0..(pos - 1) \subseteq 0..pos
    BY <1>0, <1>1 DEF Positions
  <2>3. /\ note_tbl \in [Note -> 0..(pos - 1)] /\ nnotes \in [Note -> Nat]
        /\ \A n \in Note : nnotes[n] > 0 => note_tbl[n] # 0
        /\ timesig \in 0..(pos - 1)
    BY <1>1 DEF Tables
  <2>4. Fewer(nnotes[k]) \in Nat /\ (Fewer(nnotes[k]) > 0 => nnotes[k] > 0)
    <3>1. nnotes[k] \in Nat  BY <1>2, <2>3
    <3>. QED  BY <3>1 DEF Fewer
  <2>5. nnotes' \in [Note -> Nat] /\ \A n \in Note : nnotes'[n] > 0 => nnotes[n] > 0
    BY <2>1, <2>3, <2>4
  <2>6. ctrl_tbl' = [n \in Ctrl |-> ctrl_tbl'[n]]
        /\ \A n \in Ctrl : Timed(ctrl_tbl'[n], 0..cur_time')
    BY <1>0, <1>1, CtrlKept
  <2>7. note_tbl' \in [Note -> 0..pos] /\ timesig' \in 0..pos
    BY <1>0, <2>2, <2>3
  <2>8. \A n \in Note : nnotes'[n] > 0 => note_tbl'[n] # 0  BY <1>0, <2>3, <2>5
  <2>. QED  BY <2>2, <2>5, <2>6, <2>7, <2>8 DEF Tables
<1>. QED  BY <1>0, <1>3, <1>4, CaseStep

LEMMA AllNotesOffStep == ASSUME ScanInv, E_AllNotesOff  PROVE ScanInv'
<1>. USE DEF Case
<1>0. stage = "event" /\ stage' = "check" /\ pos' = pos + 1
      /\ UNCHANGED <<input, req, output, cur_time, term_time, note_tbl, ctrl_tbl, timesig>>
  BY DEF E_AllNotesOff
<1>1. /\ Positions /\ Tables /\ InRange /\ Timed(tmp, Reached)
      /\ pos \in DOMAIN input /\ Fit(ep, {cur_time})
      /\ output # 3 => cur_time \in Reached
  BY <1>0, Here
<1>2. Timed(tmp', Reached)
  <2>1. \/ tmp' = tmp
        \/ output = 2 /\ (tmp' = Append(tmp, ep) \/ tmp' = tmp \o sim_all_notes_off(cur_time))
    BY DEF E_AllNotesOff
  <2>2. output = 2 => Fit(ep, Reached) /\ Timed(sim_all_notes_off(cur_time), Reached)
    BY <1>1, OffsTimed DEF Fit
  <2>. QED  BY <1>1, <2>1, <2>2, TimedJoin, TimedAppend
<1>3. Tables'
  <2>1. nnotes' = [n \in Note |-> 0]  BY DEF E_AllNotesOff
  <2>2. pos \in Nat \ {0} /\ pos' - 1 = pos /\ 0..(pos - 1) \subseteq 0..pos
    BY <1>0, <1>1 DEF Positions
  <2>3. ctrl_tbl' = [n \in Ctrl |-> ctrl_tbl'[n]]
        /\ \A n \in Ctrl : Timed(ctrl_tbl'[n], 0..cur_time')
    BY <1>0, <1>1, CtrlKept
  <2>4. note_tbl \in [Note -> 0..(pos - 1)] /\ timesig \in 0..(pos - 1)  BY <1>1 DEF Tables
  <2>5. note_tbl' \in [Note -> 0..pos] /\ timesig' \in 0..pos  BY <1>0, <2>2, <2>4
  <2>6. nnotes' \in [Note -> Nat] /\ \A n \in Note : ~(nnotes'[n] > 0)  BY <2>1
  <2>. QED  BY <2>2, <2>3, <2>5, <2>6 DEF Tables
<1>. QED  BY <1>0, <1>2, <1>3, CaseStep

LEMMA BarrierStep ==
  ASSUME ScanInv, stage = "event", stage' = "check", pos' = pos + 1,
         UNCHANGED <<input, req, output, cur_time, term_time>>,
         NEW keys \in SUBSET Ctrl, Barrier(keys)
  PROVE  ScanInv'
<1>1. /\ Positions /\ Tables /\ InRange /\ Timed(tmp, Reached)
      /\ pos \in DOMAIN input /\ Fit(ep, {cur_time})
      /\ begin_time \in Int /\ cur_time \in Nat
      /\ output # 3 => cur_time \in Reached
      /\ {t \in Nat : t <= begin_time} \subseteq Reached
  BY Here
<1>2. Timed(FlushAll(keys), Reached)  BY <1>1, FlushTimed
<1>3. Timed(IF output # 3 THEN <<ep>> ELSE <<>>, Reached)
  <2>1. output # 3 => Fit(ep, Reached)  BY <1>1 DEF Fit
  <2>. QED  BY <2>1, TimedOne, TimedEmpty
<1>4. Timed(tmp', Reached)
  <2>1. Timed(tmp \o FlushAll(keys), Reached)  BY <1>1, <1>2, TimedJoin
  <2>2. tmp' = tmp \o FlushAll(keys) \o (IF output # 3 THEN <<ep>> ELSE <<>>)  BY DEF Barrier
  <2>. QED  BY <1>3, <2>1, <2>2, TimedJoin
<1>5. Tables'
  <2>1. ctrl_tbl' = [k \in Ctrl |-> IF k \in keys THEN <<>> ELSE ctrl_tbl[k]]
        /\ UNCHANGED <<nnotes, note_tbl, timesig>>
    BY DEF Barrier, Emptied
  <2>2. \A k \in Ctrl : Timed(ctrl_tbl'[k], 0..cur_time)
    <3>1. \A k \in Ctrl : Timed(ctrl_tbl[k], 0..cur_time)  BY <1>1 DEF Tables
    <3>2. Timed(<<>>, 0..cur_time)  BY TimedEmpty
    <3>. QED  BY <2>1, <3>1, <3>2
  <2>3. pos \in Nat \ {0} /\ pos' - 1 = pos /\ 0..(pos - 1) \subseteq 0..pos
    BY <1>1 DEF Positions
  <2>4. ctrl_tbl' = [k \in Ctrl |-> ctrl_tbl'[k]]  BY <2>1
  <2>5. note_tbl \in [Note -> 0..(pos - 1)] /\ timesig \in 0..(pos - 1) /\ nnotes \in [Note -> Nat]
        /\ \A k \in Note : nnotes[k] > 0 => note_tbl[k] # 0
    BY <1>1 DEF Tables
  <2>6. note_tbl' \in [Note -> 0..pos] /\ timesig' \in 0..pos  BY <2>1, <2>3, <2>5
  <2>. QED  BY <2>1, <2>2, <2>3, <2>4, <2>5, <2>6 DEF Tables
<1>. QED  BY <1>4, <1>5, CaseStep

LEMMA PassedOn ==
  ASSUME ScanInv, stage = "event", stage' = "check", pos' = pos + 1,
         UNCHANGED <<input, req, output, cur_time, term_time, nnotes, note_tbl, ctrl_tbl>>,
         tmp' = tmp \/ (tmp' = Append(tmp, ep) /\ cur_time \in Reached),
         timesig' \in {timesig, pos}
  PROVE  ScanInv'
<1>1. /\ Positions /\ Tables /\ InRange /\ Timed(tmp, Reached)
      /\ pos \in DOMAIN input /\ Fit(ep, {cur_time})
  BY Here
<1>2. Timed(tmp', Reached)
  <2>1. cur_time \in Reached => Fit(ep, Reached)  BY <1>1 DEF Fit
  <2>. QED  BY <1>1, <2>1, TimedAppend
<1>3. Tables'
  <2>1. pos \in Nat \ {0} /\ pos' - 1 = pos /\ 0..(pos - 1) \subseteq 0..pos
    BY <1>1 DEF Positions
  <2>2. note_tbl \in [Note -> 0..(pos - 1)] /\ timesig \in 0..(pos - 1) /\ nnotes \in [Note -> Nat]
        /\ \A k \in Note : nnotes[k] > 0 => note_tbl[k] # 0
    BY <1>1 DEF Tables
  <2>3. note_tbl' \in [Note -> 0..pos] /\ timesig' \in 0..pos  BY <2>1, <2>2
  <2>4. ctrl_tbl' = [n \in Ctrl |-> ctrl_tbl'[n]]
        /\ \A n \in Ctrl : Timed(ctrl_tbl'[n], 0..cur_time')
    BY <1>1, CtrlKept
  <2>. QED  BY <2>1, <2>2, <2>3, <2>4 DEF Tables
<1>. QED  BY <1>2, <1>3, CaseStep

LEMMA CasesStep ==
  ASSUME ScanInv, E_ResetAllCtrl \/ E_RPN \/ E_Text \/ E_TimeSig \/ Other
  PROVE  ScanInv'
<1>. USE DEF Case
<1>1. CASE E_ResetAllCtrl
  <2>1. Change \in SUBSET Ctrl  BY KeyAssumption
  <2>. QED  BY <1>1, <2>1, BarrierStep DEF E_ResetAllCtrl
<1>2. CASE E_RPN
  <2>1. DataEntry \in SUBSET Ctrl  BY KeyAssumption
  <2>. QED  BY <1>2, <2>1, BarrierStep DEF E_RPN
<1>3. ASSUME stage = "event"
      PROVE  (output # 3 => cur_time \in Reached) /\ (cur_time = 0 => cur_time \in Reached)
             /\ output \in 0..3
  BY <1>3, Here DEF Positions
<1>4. CASE E_Text
  <2>1. /\ stage = "event" /\ stage' = "check" /\ pos' = pos + 1
        /\ UNCHANGED <<input, req, output, cur_time, term_time, nnotes, note_tbl, ctrl_tbl>>
        /\ timesig' = timesig
        /\ tmp' = tmp \/ (tmp' = Append(tmp, ep) /\ (output \in {1, 2} \/ cur_time = 0))
    BY <1>4 DEF E_Text
  <2>2. tmp' = tmp \/ (tmp' = Append(tmp, ep) /\ cur_time \in Reached)  BY <1>3, <2>1
  <2>. QED  BY <2>1, <2>2, PassedOn
<1>5. CASE E_TimeSig
  <2>1. /\ stage = "event" /\ stage' = "check" /\ pos' = pos + 1
        /\ UNCHANGED <<input, req, output, cur_time, term_time, nnotes, note_tbl, ctrl_tbl>>
        /\ timesig' \in {timesig, pos}
        /\ tmp' = tmp \/ (tmp' = Append(tmp, ep) /\ output = 2)
    BY <1>5 DEF E_TimeSig
  <2>2. tmp' = tmp \/ (tmp' = Append(tmp, ep) /\ cur_time \in Reached)  BY <1>3, <2>1
  <2>. QED  BY <2>1, <2>2, PassedOn
<1>6. CASE Other
  <2>1. /\ stage = "event" /\ stage' = "check" /\ pos' = pos + 1
        /\ UNCHANGED <<input, req, output, cur_time, term_time, nnotes, note_tbl, ctrl_tbl>>
        /\ timesig' = timesig
        /\ tmp' = tmp \/ (tmp' = Append(tmp, ep) /\ output # 3)
    BY <1>6 DEF Other
  <2>2. tmp' = tmp \/ (tmp' = Append(tmp, ep) /\ cur_time \in Reached)  BY <1>3, <2>1
  <2>. QED  BY <2>1, <2>2, PassedOn
<1>. QED  BY <1>1, <1>2, <1>4, <1>5, <1>6

LEMMA ControlSet ==
  ASSUME Positions, Tables, pos' = pos + 1, UNCHANGED <<cur_time, nnotes, note_tbl, timesig>>,
         NEW k \in Ctrl, NEW new, Timed(new, 0..cur_time),
         ctrl_tbl' = [ctrl_tbl EXCEPT ![k] = new]
  PROVE  Tables'
<1>1. /\ ctrl_tbl = [n \in Ctrl |-> ctrl_tbl[n]]
      /\ \A n \in Ctrl : Timed(ctrl_tbl[n], 0..cur_time)
  BY DEF Tables
<1>2. ctrl_tbl' = [n \in Ctrl |-> IF n = k THEN new ELSE ctrl_tbl[n]]  BY <1>1
<1>3. /\ ctrl_tbl' = [n \in Ctrl |-> ctrl_tbl'[n]]
      /\ \A n \in Ctrl : Timed(ctrl_tbl'[n], 0..cur_time')
  BY <1>1, <1>2
<1>4. pos \in Nat \ {0} /\ pos' - 1 = pos /\ 0..(pos - 1) \subseteq 0..pos  BY DEF Positions
<1>5. note_tbl \in [Note -> 0..(pos - 1)] /\ timesig \in 0..(pos - 1) /\ nnotes \in [Note -> Nat]
      /\ \A n \in Note : nnotes[n] > 0 => note_tbl[n] # 0
  BY DEF Tables
<1>6. note_tbl' \in [Note -> 0..pos] /\ timesig' \in 0..pos  BY <1>4, <1>5
<1>. QED  BY <1>3, <1>4, <1>5, <1>6 DEF Tables

LEMMA ControlStep == ASSUME ScanInv, E_Ctrl  PROVE ScanInv'
<1>0. stage = "event" /\ pos' = pos + 1 /\ ep.type = "ctrl"
      /\ UNCHANGED <<input, req, output, cur_time, term_time, nnotes, note_tbl, timesig>>
  BY DEF E_Ctrl
<1>1. /\ Positions /\ Tables /\ InRange /\ Timed(tmp, Reached)
      /\ pos \in DOMAIN input /\ Fit(ep, {cur_time})
      /\ begin_time \in Int /\ term_time \in Int /\ cur_time \in Nat
      /\ output # 3 => cur_time \in Reached
      /\ {t \in Nat : t <= begin_time} \subseteq Reached
      /\ LineTimes(cur_time) \subseteq Reached
  BY <1>0, Here
<1>. DEFINE k == ep.key
            l == ctrl_tbl[k]
            e == Valued(ep)
            S(new) == ctrl_tbl' = [ctrl_tbl EXCEPT ![k] = new]
<1>2. k \in Ctrl  BY <1>0, <1>1 DEF Fit, Keyed
<1>3. Timed(l, 0..cur_time)  BY <1>1, <1>2 DEF Tables
<1>4. Fit(e, {cur_time})
  <2>1. DOMAIN e = DOMAIN ep /\ e.time = ep.time /\ e.type = ep.type /\ e.key = ep.key
    <3>1. e = ep \/ \E v : e = [ep EXCEPT !.val = v]  BY DEF Valued
    <3>2. DOMAIN ep = Fields  BY <1>1 DEF Fit
    <3>. HIDE DEF e
    <3>. QED  BY <3>1, <3>2 DEF Fields
  <2>. HIDE DEF e
  <2>. QED  BY <1>1, <2>1 DEF Fit, Keyed
<1>5. e.key = k
  <2>1. e = ep \/ \E v : e = [ep EXCEPT !.val = v]  BY DEF Valued
  <2>2. DOMAIN ep = Fields  BY <1>1 DEF Fit
  <2>. HIDE DEF e
  <2>. QED  BY <2>1, <2>2 DEF Fields
<1>. HIDE DEF e
<1>6. Fit(e, 0..cur_time) /\ Fit(Normal(e), 0..cur_time) /\ e.time = cur_time
  <2>1. e.time = cur_time /\ cur_time \in 0..cur_time  BY <1>1, <1>4 DEF Fit
  <2>2. Fit(e, 0..cur_time)  BY <1>4, <2>1 DEF Fit
  <2>. QED  BY <2>1, <2>2, NormalFits
<1>7. \A new \in {<<e>> \o l, <<Normal(e)>>, <<e>>, <<>>, l} : Timed(new, 0..cur_time)
  <2>1. Timed(<<e>>, 0..cur_time) /\ Timed(<<Normal(e)>>, 0..cur_time) /\ Timed(<<>>, 0..cur_time)
    BY <1>6, TimedOne, TimedEmpty
  <2>2. Timed(<<e>> \o l, 0..cur_time)  BY <1>3, <2>1, TimedJoin
  <2>. QED  BY <1>3, <2>1, <2>2
<1>8. ASSUME stage' = "check"
      PROVE  /\ \E new \in {<<e>> \o l, <<Normal(e)>>, <<e>>, <<>>, l} :
                  S(new) \/ (new = l /\ ctrl_tbl' = ctrl_tbl)
             /\ \/ tmp' = tmp
                \/ \E f \in {<<>>, Flushed(k)}, g \in {<<>>, <<e>>} :
                     tmp' = tmp \o f \o g /\ (g = <<e>> => output < 3)
                \/ Drawable(e, l) /\ tmp' = tmp \o Drawn(e, l)
  <2>1. CASE /\ output = 0
             /\ S(IF e.ctype = "Pt" THEN <<e>> \o l ELSE <<Normal(e)>>)
             /\ stage' = "check" /\ UNCHANGED tmp
    BY <2>1
  <2>2. CASE /\ output > 0 /\ e.ctype = ""
             /\ tmp' = tmp \o (IF output = 1 THEN <<>> ELSE Flushed(k))
                           \o (IF output < 3 THEN <<e>> ELSE <<>>)
             /\ S(IF output < 3 THEN <<e>> ELSE <<>>)
    <3>. DEFINE f == IF output = 1 THEN <<>> ELSE Flushed(k)
                g == IF output < 3 THEN <<e>> ELSE <<>>
    <3>1. f \in {<<>>, Flushed(k)} /\ g \in {<<>>, <<e>>} /\ (g = <<e>> => output < 3)
          /\ tmp' = tmp \o f \o g
      BY <2>2
    <3>2. \E new \in {<<e>> \o l, <<Normal(e)>>, <<e>>, <<>>, l} : S(new)  BY <2>2
    <3>. HIDE DEF f, g, S
    <3>. QED  BY <3>1, <3>2
  <2>3. CASE /\ output > 0 /\ e.ctype = "Pt"
             /\ S(IF output < 3 \/ l # <<>> THEN <<e>> \o l ELSE l)
             /\ UNCHANGED tmp
    BY <2>3
  <2>4. CASE /\ Drawable(e, l)
             /\ tmp' = tmp \o Drawn(e, l)
             /\ S(IF output < 3 THEN <<Normal(e)>> ELSE <<>>)
    BY <2>4
  <2>5. CASE UNCHANGED <<tmp, ctrl_tbl>>  BY <2>5
  <2>6. \/ /\ output = 0
           /\ S(IF e.ctype = "Pt" THEN <<e>> \o l ELSE <<Normal(e)>>)
           /\ stage' = "check" /\ UNCHANGED tmp
        \/ /\ output > 0 /\ e.ctype = ""
           /\ tmp' = tmp \o (IF output = 1 THEN <<>> ELSE Flushed(k))
                         \o (IF output < 3 THEN <<e>> ELSE <<>>)
           /\ S(IF output < 3 THEN <<e>> ELSE <<>>)
        \/ /\ output > 0 /\ e.ctype = "Pt"
           /\ S(IF output < 3 \/ l # <<>> THEN <<e>> \o l ELSE l)
           /\ UNCHANGED tmp
        \/ /\ Drawable(e, l)
           /\ tmp' = tmp \o Drawn(e, l)
           /\ S(IF output < 3 THEN <<Normal(e)>> ELSE <<>>)
        \/ stage' = "error"
        \/ UNCHANGED <<tmp, ctrl_tbl>>
    BY Zenon DEF E_Ctrl, e
  <2>. HIDE DEF S
  <2>. QED  BY <1>8, <2>1, <2>2, <2>3, <2>4, <2>5, <2>6
<1>9. CASE stage' = "check"
  <2>1. Tables'
    <3>1. PICK new \in {<<e>> \o l, <<Normal(e)>>, <<e>>, <<>>, l} :
            S(new) \/ (new = l /\ ctrl_tbl' = ctrl_tbl)
      BY <1>8, <1>9
    <3>2. Timed(new, 0..cur_time)  BY <1>7
    <3>3. CASE S(new)  BY <1>0, <1>1, <1>2, <3>2, <3>3, ControlSet
    <3>4. CASE ctrl_tbl' = ctrl_tbl  BY <1>0, <1>1, <3>4, TablesKept
    <3>. QED  BY <3>1, <3>3, <3>4
  <2>2. Timed(tmp', Reached)
    <3>1. CASE tmp' = tmp  BY <1>1, <3>1
    <3>2. ASSUME NEW f \in {<<>>, Flushed(k)}, NEW g \in {<<>>, <<e>>},
                 tmp' = tmp \o f \o g, g = <<e>> => output < 3
          PROVE  Timed(tmp', Reached)
      <4>1. Timed(Flushed(k), Reached)
        <5>1. Timed(Flushed(k), {t \in Nat : t <= begin_time /\ t < begin_time})
          BY <1>1, <1>3, FlushedTimed
        <5>2. {t \in Nat : t <= begin_time /\ t < begin_time} \subseteq Reached  BY <1>1
        <5>. QED  BY <5>1, <5>2, TimedMore
      <4>2. Timed(f, Reached)  BY <4>1, TimedEmpty
      <4>3. output < 3 => Fit(e, Reached)  BY <1>1, <1>4 DEF Fit
      <4>4. Timed(g, Reached)
        <5>1. CASE g = <<e>>  BY <3>2, <4>3, <5>1, TimedOne
        <5>2. CASE g = <<>>  BY <5>2, TimedEmpty
        <5>. QED  BY <5>1, <5>2
      <4>5. Timed(tmp \o f, Reached)  BY <1>1, <4>2, TimedJoin
      <4>6. Timed(tmp \o f \o g, Reached)  BY <4>4, <4>5, TimedJoin
      <4>. QED  BY <3>2, <4>6
    <3>3. CASE Drawable(e, l) /\ tmp' = tmp \o Drawn(e, l)
      <4>. DEFINE T == LineTimes(cur_time)
      <4>1. Timed(Drawn(e, l), T)
        <5>1. Ranged /\ T = LineTimes(cur_time)  BY <1>1 DEF Ranged
        <5>. HIDE DEF T, l
        <5>. QED  BY <1>1, <1>3, <1>6, <3>3, <5>1, DrawnTimed
      <4>2. Timed(Drawn(e, l), Reached)  BY <1>1, <4>1, TimedMore
      <4>. QED  BY <1>1, <3>3, <4>2, TimedJoin
    <3>. QED  BY <1>8, <1>9, <3>1, <3>2, <3>3
  <2>. QED  BY <1>0, <1>9, <2>1, <2>2, CaseStep
<1>10. CASE stage' = "error"  BY <1>10 DEF ScanInv
<1>11. stage' \in {"check", "error"}  BY DEF E_Ctrl
<1>. QED  BY <1>9, <1>10, <1>11

-----------------------------------------------------------------------------
(* The test of the range: what is output at its beginning, at its end and  *)
(* at the end of the track lies in it.                                     *)
LEMMA NamedTimed ==
  ASSUME NEW T, NEW offs, Timed(offs, T), NEW s, s = [i \in DOMAIN offs |-> s[i]],
         \A i \in DOMAIN offs : \E x : s[i] = [offs[i] EXCEPT !.id = x]
  PROVE  Timed(s, T)
<1>1. Len(offs) \in Nat /\ DOMAIN offs = 1..Len(offs)  BY LenProperties DEF Timed
<1>2. ASSUME NEW i \in DOMAIN offs  PROVE Fit(s[i], T)
  <2>1. Fit(offs[i], T)  BY DEF Timed
  <2>2. PICK x : s[i] = [offs[i] EXCEPT !.id = x]  OBVIOUS
  <2>3. DOMAIN s[i] = DOMAIN offs[i] /\ s[i].time = offs[i].time
        /\ s[i].type = offs[i].type /\ s[i].key = offs[i].key
    BY <2>1, <2>2 DEF Fit, Fields
  <2>. QED  BY <2>1, <2>3 DEF Fit, Keyed
<1>3. DOMAIN s = 1..Len(offs) /\ s = [i \in DOMAIN s |-> s[i]]  BY <1>1
<1>. QED  BY <1>1, <1>2, <1>3, TimedMap

LEMMA RangeStep == ASSUME ScanInv, check_range  PROVE ScanInv'
<1>. DEFINE reached == IF output = 0 /\ ep.time = begin_time THEN 1 ELSE output
            starts == reached < 2 /\ ep.time > begin_time
            began == IF starts THEN 2 ELSE reached
            stops == began = 2 /\ ep.time >= end_time
            cut == Cut /\ began <= 2 /\ ~stops
            offs == IF stops THEN sim_all_notes_off(term_time)
                    ELSE IF cut /\ began = 2 THEN sim_all_notes_off(ep.time) ELSE <<>>
            start == IF starts THEN PlayingNotes \o Signature ELSE <<>>
            named == [i \in DOMAIN offs |->
                       [offs[i] EXCEPT !.id = Made(Len(start) + i)]]
            W == Reached'
<1>1. /\ stage = "check" /\ pos <= Len(input) /\ cur_time' = ep.time
      /\ UNCHANGED <<input, req, nnotes, note_tbl, ctrl_tbl, timesig, max_time>>
      /\ tmp' = tmp \o start \o named \o (IF cut THEN <<ep>> ELSE <<>>)
      /\ output' = IF stops \/ cut THEN 3 ELSE began
      /\ term_time' = IF cut THEN ep.time ELSE term_time
      /\ stage' = IF cut THEN "check" ELSE "event"
      /\ pos' = IF cut THEN pos + 1 ELSE pos
  BY DEF check_range
<1>2. Positions /\ Tables /\ InRange /\ Timed(tmp, Reached)  BY <1>1 DEF ScanInv
<1>3. /\ pos \in Nat \ {0} /\ output \in 0..3 /\ cur_time \in Nat /\ term_time \in Int
      /\ begin_time \in Int /\ end_time \in Int /\ begin_time < end_time
      /\ Len(input) \in Nat /\ DOMAIN input = 1..Len(input) /\ pos \in DOMAIN input
      /\ \A i \in DOMAIN input : input[i].time \in Nat
      /\ \A i, j \in DOMAIN input : i <= j => input[i].time <= input[j].time
  BY <1>1, <1>2, Places DEF Positions, Rising
<1>4. ep = input[pos] /\ ep.time \in Nat /\ cur_time <= ep.time
  BY <1>1, <1>2, <1>3 DEF ep, Positions
<1>5. /\ output # 3 => term_time = end_time
      /\ output = 3 => term_time <= cur_time
      /\ output < 2 => \A i \in DOMAIN input : i < pos => input[i].time <= begin_time
  BY <1>2 DEF InRange
<1>6. /\ began \in 0..3 /\ output <= began /\ (began = 3 <=> output = 3)
      /\ starts => output < 2
      /\ began < 2 => ep.time <= begin_time /\ output < 2
      /\ began = 2 /\ ~stops => ep.time < end_time
      /\ stops => output # 3 /\ ep.time >= end_time /\ ~cut
      /\ cut => output # 3 /\ ep.time < end_time
  <2>. DEFINE time == ep.time
  <2>1. time \in Nat  BY <1>4
  <2>. HIDE DEF time
  <2>2. /\ began \in 0..3 /\ output <= began /\ (began = 3 <=> output = 3)
        /\ starts => output < 2
        /\ began < 2 => time <= begin_time /\ output < 2
        /\ began = 2 /\ ~stops => time < end_time
        /\ stops => output # 3 /\ time >= end_time /\ ~cut
        /\ cut => output # 3 /\ began \in 0..2 /\ ~stops
    BY <1>3, <2>1 DEF time
  <2>3. cut => time < end_time  BY <1>3, <2>1, <2>2
  <2>. QED  BY <2>2, <2>3 DEF time
<1>. HIDE DEF reached, starts, began, stops, cut
<1>7. /\ begin_time' = begin_time /\ end_time' = end_time
  BY <1>1 DEF begin_time, end_time, Does
<1>8. W = IF stops \/ cut \/ output = 3
          THEN {t \in Int : /\ t >= 0 \/ t >= begin_time
                            /\ t <= begin_time \/ t = 0 \/ t <= term_time'}
          ELSE {t \in Int : /\ t >= 0 \/ t >= begin_time
                            /\ t <= begin_time \/ t <= ep.time
                            /\ t < end_time}
  BY <1>1, <1>6, <1>7 DEF Reached, Ended, Passed
<1>9. term_time' \in Int /\ (output' = 3 => term_time' <= ep.time)
      /\ (output' # 3 => term_time' = end_time)
  BY <1>1, <1>3, <1>4, <1>5, <1>6
<1>10. Reached \subseteq W
  <2>1. CASE output = 3
    <3>1. term_time' = term_time  BY <1>1, <1>6, <2>1
    <3>. QED  BY <1>8, <2>1, <3>1 DEF Reached, Ended
  <2>2. CASE output # 3
    <3>1. Reached = {t \in Int : /\ t >= 0 \/ t >= begin_time
                                 /\ t <= begin_time \/ t <= cur_time
                                 /\ t < end_time}
      BY <2>2 DEF Reached, Passed
    <3>2. CASE stops
      <4>1. term_time' = end_time  BY <1>1, <1>5, <1>6, <2>2, <3>2
      <4>. QED  BY <1>3, <1>8, <3>1, <3>2, <4>1
    <3>3. CASE cut
      <4>1. term_time' = ep.time  BY <1>1, <3>3
      <4>. QED  BY <1>3, <1>4, <1>8, <3>1, <3>3, <4>1
    <3>4. CASE ~stops /\ ~cut  BY <1>3, <1>4, <1>8, <2>2, <3>1, <3>4
    <3>. QED  BY <3>2, <3>3, <3>4
  <2>. QED  BY <2>1, <2>2
<1>11. {t \in Nat : t <= begin_time} \subseteq W  BY <1>3, <1>8
<1>12. stops => term_time \in W
  <2>1. stops => term_time = end_time /\ term_time' = end_time  BY <1>1, <1>5, <1>6
  <2>. QED  BY <1>3, <1>8, <2>1
<1>13. cut => ep.time \in W
  <2>1. cut => term_time' = ep.time  BY <1>1
  <2>. QED  BY <1>4, <1>8, <2>1
<1>. HIDE DEF W
<1>14. Timed(tmp, W)  BY <1>2, <1>10, TimedMore
<1>15. Timed(start, W)
  <2>1. CASE starts
    <3>1. \A i \in DOMAIN input : i < pos => input[i].time \in W
      BY <1>3, <1>5, <1>6, <1>11, <2>1
    <3>2. Timed(PlayingNotes, W) /\ Timed(Signature, W)
      BY <1>2, <3>1, PlayingTimed, SignatureTimed
    <3>. QED  BY <2>1, <3>2, TimedJoin
  <2>2. CASE ~starts  BY <2>2, TimedEmpty
  <2>. QED  BY <2>1, <2>2
<1>16. Timed(named, W)
  <2>1. Timed(offs, W)
    <3>1. stops => Timed(sim_all_notes_off(term_time), W)  BY <1>12, OffsTimed
    <3>2. cut => Timed(sim_all_notes_off(ep.time), W)  BY <1>13, OffsTimed
    <3>3. Timed(<<>>, W)  BY TimedEmpty
    <3>. QED  BY <3>1, <3>2, <3>3
  <2>. HIDE DEF offs, start
  <2>2. named = [i \in DOMAIN offs |-> named[i]]  OBVIOUS
  <2>3. \A i \in DOMAIN offs : \E x : named[i] = [offs[i] EXCEPT !.id = x]  OBVIOUS
  <2>. HIDE DEF named
  <2>. QED  BY <2>1, <2>2, <2>3, NamedTimed
<1>17. Timed(IF cut THEN <<ep>> ELSE <<>>, W)
  <2>1. Fit(ep, Nat)  BY <1>2, <1>3, <1>4, Places
  <2>2. cut => Fit(ep, W)  BY <1>13, <2>1 DEF Fit
  <2>. QED  BY <2>2, TimedOne, TimedEmpty
<1>. HIDE DEF start, named
<1>18. Timed(tmp', W)
  <2>1. Timed(tmp \o start, W)  BY <1>14, <1>15, TimedJoin
  <2>2. Timed(tmp \o start \o named, W)  BY <1>16, <2>1, TimedJoin
  <2>3. Timed(tmp \o start \o named \o (IF cut THEN <<ep>> ELSE <<>>), W)
    BY <1>17, <2>2, TimedJoin
  <2>. QED  BY <1>1, <2>3
<1>19. Positions'
  <2>1. Rising(input')  BY <1>1, <1>2 DEF Positions
  <2>2. pos' \in Nat \ {0} /\ pos' - 1 \in 0..Len(input)  BY <1>1, <1>3
  <2>3. output' \in 0..3  BY <1>1, <1>6
  <2>4. stage' = "event" => pos' = pos  BY <1>1
  <2>5. stage' = "check" => pos' = pos + 1  BY <1>1
  <2>6. pos + 1 \in DOMAIN input => ep.time <= input[pos + 1].time  BY <1>3, <1>4
  <2>7. /\ cur_time' \in Nat /\ cur_time' <= input'[Len(input')].time
        /\ stage' = "event" => pos' \in DOMAIN input' /\ cur_time' = input'[pos'].time
        /\ stage' = "check" /\ pos' \in DOMAIN input' => cur_time' <= input'[pos'].time
    <3>1. cur_time' = ep.time /\ input' = input /\ ep = input[pos]
      BY <1>1, <1>4
    <3>2. Len(input) \in DOMAIN input /\ pos <= Len(input)  BY <1>3
    <3>3. ep.time <= input[Len(input)].time /\ ep.time \in Nat  BY <1>3, <3>1, <3>2
    <3>. QED  BY <1>1, <1>3, <2>4, <2>5, <2>6, <3>1, <3>3
  <2>8. term_time' \in Int /\ (begin_time \in Int /\ end_time \in Int /\ begin_time < end_time)'
    BY <1>1, <1>2, <1>3, <1>4, <1>7, <1>9 DEF Positions
  <2>9. input' # <<>> /\ input' = input  BY <1>1, <1>2 DEF Positions
  <2>. QED  BY <2>1, <2>2, <2>3, <2>7, <2>8, <2>9 DEF Positions
<1>20. Tables'
  <2>1. 0..(pos - 1) \subseteq 0..(pos' - 1)  BY <1>1, <1>3
  <2>2. ctrl_tbl' = [k \in Ctrl |-> ctrl_tbl'[k]]
        /\ \A k \in Ctrl : Timed(ctrl_tbl'[k], 0..cur_time')
    <3>1. 0..cur_time \subseteq 0..ep.time  BY <1>3, <1>4
    <3>2. ctrl_tbl = [k \in Ctrl |-> ctrl_tbl[k]]
          /\ \A k \in Ctrl : Timed(ctrl_tbl[k], 0..cur_time)
      BY <1>2 DEF Tables
    <3>3. \A k \in Ctrl : Timed(ctrl_tbl[k], 0..ep.time)  BY <3>1, <3>2, TimedMore
    <3>. QED  BY <1>1, <3>2, <3>3
  <2>3. note_tbl \in [Note -> 0..(pos - 1)] /\ timesig \in 0..(pos - 1) /\ nnotes \in [Note -> Nat]
        /\ \A k \in Note : nnotes[k] > 0 => note_tbl[k] # 0
    BY <1>2 DEF Tables
  <2>4. note_tbl' \in [Note -> 0..(pos' - 1)] /\ timesig' \in 0..(pos' - 1)
    BY <1>1, <2>1, <2>3
  <2>. QED  BY <1>1, <2>2, <2>3, <2>4 DEF Tables
<1>21. InRange'
  <2>1. output' < 2 => output < 2 /\ ~cut  BY <1>1, <1>3, <1>6
  <2>2. output' < 2 => \A i \in DOMAIN input' : i < pos' => input'[i].time <= begin_time
    BY <1>1, <1>5, <2>1
  <2>3. output' < 2 => ep.time <= begin_time  BY <1>1, <1>6
  <2>4. stage' = "event" /\ output' # 3 => ep.time < end_time
    BY <1>1, <1>3, <1>4, <1>6
  <2>. QED  BY <1>1, <1>7, <1>9, <2>2, <2>3, <2>4 DEF InRange
<1>. QED  BY <1>18, <1>19, <1>20, <1>21 DEF ScanInv, W

-----------------------------------------------------------------------------
(* The end of the scan: the shift brings every event into the length.      *)
Term == IF output < 3 THEN cur_time ELSE term_time

LEMMA FinishTimed ==
  ASSUME ScanInv, finish, NEW n \in Nat, Term <= n
  PROVE  Timed(tmp', 0..Max({0, n - begin_time}))
<1>. DEFINE offs == IF Does("Retrigger") /\ output = 2
                    THEN sim_all_notes_off(cur_time) ELSE <<>>
            all == tmp \o offs \o FlushAll(Ctrl) \o (IF output < 2 THEN Signature ELSE <<>>)
            W == {t \in Int : /\ t >= 0 \/ t >= begin_time
                              /\ t <= begin_time \/ t = 0 \/ t <= n}
<1>1. /\ stage = "check" /\ pos > Len(input)
      /\ tmp' = IF Does("TimeRange") THEN [i \in DOMAIN all |-> Shifted(all[i])] ELSE all
  BY DEF finish
<1>2. Positions /\ Tables /\ InRange /\ Timed(tmp, Reached)  BY <1>1 DEF ScanInv
<1>3. /\ output \in 0..3 /\ cur_time \in Nat /\ term_time \in Int
      /\ begin_time \in Int /\ end_time \in Int /\ begin_time < end_time
  BY <1>2 DEF Positions
<1>4. IF output < 3 THEN cur_time <= n ELSE term_time <= n  BY DEF Term
<1>6. Reached \subseteq W
  <2>1. CASE output = 3  BY <1>3, <1>4, <2>1 DEF Reached, Ended
  <2>2. CASE output # 3  BY <1>3, <1>4, <2>2 DEF Reached, Passed
  <2>. QED  BY <2>1, <2>2
<1>7. {t \in Nat : t <= begin_time} \subseteq W  BY <1>3
<1>8. output = 2 => cur_time \in W  BY <1>3, <1>4
<1>9. \A t \in W : t \in Int /\ (t >= 0 \/ t >= begin_time)
                   /\ (t <= begin_time \/ t = 0 \/ t <= n)
  OBVIOUS
<1>. HIDE DEF W
<1>10. Timed(all, W)
  <2>1. Timed(tmp, W)  BY <1>2, <1>6, TimedMore
  <2>2. Timed(offs, W)
    <3>1. output = 2 => Timed(sim_all_notes_off(cur_time), W)  BY <1>8, OffsTimed
    <3>. QED  BY <3>1, TimedEmpty
  <2>3. Timed(FlushAll(Ctrl), W)  BY <1>2, <1>3, <1>7, FlushTimed
  <2>4. Timed(IF output < 2 THEN Signature ELSE <<>>, W)
    <3>1. CASE output < 2
      <4>1. \A i \in DOMAIN input : i < pos => input[i].time \in W
        BY <1>2, <1>7, <3>1, Places DEF InRange
      <4>. QED  BY <1>2, <3>1, <4>1, SignatureTimed
    <3>2. CASE ~(output < 2)  BY <3>2, TimedEmpty
    <3>. QED  BY <3>1, <3>2
  <2>. HIDE DEF offs
  <2>5. Timed(tmp \o offs, W)  BY <2>1, <2>2, TimedJoin
  <2>6. Timed(tmp \o offs \o FlushAll(Ctrl), W)  BY <2>3, <2>5, TimedJoin
  <2>. QED  BY <2>4, <2>6, TimedJoin
<1>. HIDE DEF all
<1>. DEFINE L == Max({0, n - begin_time})
<1>14. PICK b \in Int : b = begin_time  BY <1>3
<1>11. L \in Nat /\ n - b <= L
  <2>2. PICK x \in Int : x = n - b  OBVIOUS
  <2>3. Max({0, x}) = IF 0 >= x THEN 0 ELSE x
    <3>1. Max({0, x}) = CHOOSE y \in {0, x} : \A z \in {0, x} : y >= z
      BY DEF Max
    <3>. QED  BY <2>2, <3>1
  <2>4. L = Max({0, x})  BY <1>14, <2>2
  <2>5. L = IF 0 >= x THEN 0 ELSE x  BY <2>3, <2>4
  <2>. HIDE DEF L
  <2>. QED  BY <2>2, <2>5
<1>15. \A t \in W : t \in Int /\ (t >= 0 \/ t >= b) /\ (t <= b \/ t = 0 \/ t <= n)
  BY <1>9, <1>14
<1>. HIDE DEF L
<1>12. CASE ~Does("TimeRange")
  <2>1. b = 0  BY <1>12, <1>14 DEF begin_time
  <2>2. W \subseteq 0..L  BY <1>11, <1>15, <2>1
  <2>3. Timed(tmp', 0..L)  BY <1>1, <1>10, <1>12, <2>2, TimedMore
  <2>. QED  BY <1>4, <2>3 DEF L
<1>13. CASE Does("TimeRange")
  <2>1. tmp' = [i \in DOMAIN all |-> Shifted(all[i])]  BY <1>1, <1>13
  <2>2. Len(all) \in Nat /\ DOMAIN all = 1..Len(all)  BY <1>10, LenProperties DEF Timed
  <2>3. ASSUME NEW i \in DOMAIN all  PROVE Fit(Shifted(all[i]), 0..L)
    <3>. DEFINE e == all[i]
                t == e.time
    <3>1. Fit(e, W)  BY <1>10 DEF Timed
    <3>2. t \in W  BY <3>1 DEF Fit
    <3>3. PICK x \in Int : x = t /\ (x >= 0 \/ x >= b) /\ (x <= b \/ x = 0 \/ x <= n)
      BY <1>15, <3>2
    <3>4. \/ Shifted(e) = e /\ x = 0
          \/ Shifted(e) = [e EXCEPT !.time = IF @ < begin_time THEN 0 ELSE @ - begin_time]
      BY <3>3 DEF Shifted
    <3>5. CASE Shifted(e) = e /\ x = 0
      <4>1. x \in 0..L  BY <1>11, <3>5
      <4>. QED  BY <3>1, <3>3, <3>5, <4>1 DEF Fit
    <3>6. CASE Shifted(e) = [e EXCEPT !.time = IF @ < begin_time THEN 0 ELSE @ - begin_time]
      <4>. DEFINE y == IF x < b THEN 0 ELSE x - b
      <4>1. y \in 0..L  BY <1>11, <3>3
      <4>2. DOMAIN e = Fields  BY <3>1 DEF Fit
      <4>3. Shifted(e) = [e EXCEPT !.time = y]  BY <1>14, <3>3, <3>6
      <4>. HIDE DEF y, e
      <4>4. DOMAIN Shifted(e) = Fields /\ Shifted(e).time = y
            /\ Shifted(e).type = e.type /\ Shifted(e).key = e.key
        BY <4>2, <4>3 DEF Fields
      <4>5. Keyed(Shifted(e))  BY <3>1, <4>4 DEF Fit, Keyed
      <4>6. Fit(Shifted(e), 0..L)  BY <4>1, <4>4, <4>5 DEF Fit
      <4>. QED  BY <4>6 DEF e
    <3>. QED  BY <3>4, <3>5, <3>6
  <2>4. DOMAIN tmp' = 1..Len(all) /\ tmp' = [i \in DOMAIN tmp' |-> tmp'[i]]
        /\ \A i \in 1..Len(all) : Fit(tmp'[i], 0..L)
    BY <2>1, <2>2, <2>3
  <2>5. Timed(tmp', 0..L)  BY <2>2, <2>4, TimedMap
  <2>. QED  BY <1>4, <2>5 DEF L
<1>. QED  BY <1>12, <1>13

LEMMA Later ==
  ASSUME NEW x \in Int, NEW y \in Int
  PROVE  Max({x, y}) \in Int /\ x <= Max({x, y}) /\ y <= Max({x, y})
<1>1. Max({x, y}) = CHOOSE z \in {x, y} : \A w \in {x, y} : z >= w  BY DEF Max
<1>2. Max({x, y}) = IF x >= y THEN x ELSE y  BY <1>1
<1>. QED  BY <1>2

LEMMA FinishStep ==
  ASSUME ScanInv, max_time \in Nat, finish
  PROVE  max_time' \in Nat /\ max_time <= max_time' /\ Timed(tmp', 0..Max({0, length'}))
<1>1. /\ stage = "check" /\ req' = req
      /\ max_time' = Max({max_time, Term})
  BY DEF finish, Term
<1>2. Term \in Int
  <2>1. Positions  BY <1>1 DEF ScanInv
  <2>. QED  BY <2>1 DEF Term, Positions
<1>3. max_time' \in Nat /\ max_time <= max_time' /\ Term <= max_time'
  <2>1. PICK x \in Int : x = Term  BY <1>2
  <2>2. max_time' = Max({max_time, x})  BY <1>1, <2>1
  <2>. QED  BY <2>1, <2>2, Later
<1>4. length' = max_time' - begin_time  BY <1>1 DEF length, begin_time, Does
<1>5. PICK n \in Nat : n = max_time'  BY <1>3
<1>6. Timed(tmp', 0..Max({0, n - begin_time}))  BY <1>3, <1>5, FinishTimed
<1>. QED  BY <1>3, <1>4, <1>5, <1>6

-----------------------------------------------------------------------------
(* The beginning of a scan.                                                *)
Asks(r) == r.begin \in Int /\ r.end \in Int /\ r.begin < r.end

LEMMA BeginStep ==
  ASSUME NEW track, Rising(track), track # <<>>, NEW partners, NEW r, Asks(r),
         Begin(track, partners, r)
  PROVE  ScanInv' /\ stage' = "check"
<1>0. /\ stage' = "check" /\ input' = track /\ req' = r /\ pos' = 1 /\ tmp' = <<>>
      /\ output' = IF "TimeRange" \in r.oprs THEN 0 ELSE 2
      /\ cur_time' = track[1].time
      /\ term_time' = IF "TimeRange" \in r.oprs THEN r.end ELSE r_max
      /\ nnotes' = [k \in Note |-> 0] /\ note_tbl' = [k \in Note |-> 0]
      /\ ctrl_tbl' = [k \in Ctrl |-> <<>>] /\ timesig' = 0
  BY DEF Begin
<1>1. Len(track) \in Nat \ {0} /\ DOMAIN track = 1..Len(track)
  <2>1. track \in Seq(Elements(track)) /\ Len(track) \in Nat /\ DOMAIN track = 1..Len(track)
    BY LenProperties DEF Rising, Timed
  <2>. QED  BY <2>1, EmptySeq
<1>2. track[1].time \in Nat  BY <1>1 DEF Rising, Timed, Fit
<1>3. /\ begin_time' = IF "TimeRange" \in r.oprs THEN r.begin ELSE 0
      /\ end_time' = IF "TimeRange" \in r.oprs THEN r.end ELSE r_max
  BY <1>0 DEF begin_time, end_time, Does
<1>4. r_max \in Nat /\ r_max > 0  BY BoundAssumption DEF r_max
<1>5. begin_time' \in Int /\ end_time' \in Int /\ begin_time' < end_time'
      /\ term_time' = end_time'
  BY <1>0, <1>3, <1>4 DEF Asks
<1>6. output' \in {0, 2}  BY <1>0
<1>7. Positions'
  <2>1. cur_time' <= input'[Len(input')].time
    <3>1. 1 \in DOMAIN track /\ Len(track) \in DOMAIN track /\ 1 <= Len(track)  BY <1>1
    <3>. QED  BY <1>0, <3>1 DEF Rising
  <2>2. cur_time' <= input'[1].time /\ Len(input') \in Nat  BY <1>0, <1>1, <1>2
  <2>. QED  BY <1>0, <1>1, <1>2, <1>5, <1>6, <2>1, <2>2 DEF Positions
<1>8. Tables'
  <2>1. Timed(<<>>, 0..cur_time')  BY TimedEmpty
  <2>2. nnotes' \in [Note -> Nat] /\ \A k \in Note : ~(nnotes'[k] > 0)  BY <1>0
  <2>3. note_tbl' \in [Note -> 0..0] /\ timesig' \in 0..0 /\ pos' - 1 = 0  BY <1>0
  <2>. QED  BY <1>0, <2>1, <2>2, <2>3 DEF Tables
<1>9. InRange'  BY <1>0, <1>1, <1>5, <1>6 DEF InRange
<1>10. Timed(tmp', Reached')  BY <1>0, TimedEmpty
<1>. QED  BY <1>0, <1>7, <1>8, <1>9, <1>10 DEF ScanInv

(* A track that is collected rises.                                        *)
LEMMA RisesOn ==
  ASSUME NEW s, Rising(s), NEW e, Fit(e, Nat), s # <<>> => ~EV_LESS(e, Last(s))
  PROVE  Rising(Append(s, e))
<1>. DEFINE n == Len(s)
            S == Elements(s) \cup {e}
            a == Append(s, e)
<1>1. s \in Seq(Elements(s)) /\ n \in Nat /\ DOMAIN s = 1..n
  BY LenProperties DEF Rising, Timed
<1>2. s \in Seq(S) /\ e \in S
  <2>1. Elements(s) \subseteq S /\ e \in S  OBVIOUS
  <2>2. \A X, Y : X \subseteq Y => Seq(X) \subseteq Seq(Y)  BY SeqDef
  <2>. HIDE DEF S
  <2>. QED  BY <1>1, <2>1, <2>2
<1>. HIDE DEF S
<1>3. /\ a \in Seq(S) /\ Len(a) = n + 1
      /\ \A i \in 1..n : a[i] = s[i]
      /\ a[n + 1] = e
  BY <1>2, AppendProperties
<1>4. DOMAIN a = 1..(n + 1)  BY <1>3, LenProperties
<1>5. Timed(a, Nat)  BY TimedAppend DEF Rising
<1>. HIDE DEF a
<1>6. \A i \in 1..n : s[i].time \in Nat /\ s[i].time <= e.time
  <2>1. CASE n = 0  BY <2>1
  <2>2. CASE n # 0
    <3>1. s # <<>> /\ Last(s) = s[n] /\ n \in 1..n  BY <1>1, <2>2 DEF Last
    <3>2. ~(e.time < s[n].time)  BY <3>1 DEF EV_LESS
    <3>3. e.time \in Nat /\ \A i \in 1..n : s[i].time \in Nat  BY <1>1 DEF Rising, Timed, Fit
    <3>4. \A i \in 1..n : s[i].time <= s[n].time  BY <1>1, <3>1 DEF Rising
    <3>. QED  BY <3>1, <3>2, <3>3, <3>4
  <2>. QED  BY <2>1, <2>2
<1>7. e.time \in Nat /\ \A i, j \in 1..n : i <= j => s[i].time <= s[j].time
  BY <1>1 DEF Rising, Fit
<1>8. ASSUME NEW i \in 1..(n + 1), NEW j \in 1..(n + 1), i <= j
      PROVE  a[i].time <= a[j].time
  <2>1. CASE j \in 1..n
    <3>1. i \in 1..n  BY <1>1, <1>8, <2>1
    <3>. QED  BY <1>3, <1>7, <1>8, <2>1, <3>1
  <2>2. CASE j = n + 1 /\ i \in 1..n  BY <1>3, <1>6, <2>2
  <2>3. CASE j = n + 1 /\ i = n + 1  BY <1>3, <1>7, <2>3
  <2>. QED  BY <1>1, <2>1, <2>2, <2>3
<1>9. Rising(a)  BY <1>4, <1>5, <1>8 DEF Rising
<1>. QED  BY <1>9 DEF a

LEMMA CollectStep == ASSUME Rising(input), collect  PROVE Rising(input)'
<1>1. PICK part \in Parts, t \in 0..MaxTime : \E k \in part.kinds :
        LET i == Len(input) + 1
            new == Event(i, k.type, t, k.key, k.ctype, k.val, FALSE)
            p == PartnerOf(Append(input, new), i)
            e == [new EXCEPT !.irregular = k.type = "off" /\ (p = 0 \/ input[p].time = t)]
        IN (input # <<>> => ~EV_LESS(e, Last(input))) /\ input' = Append(input, e)
  BY DEF collect
<1>2. PICK k \in part.kinds :
        LET i == Len(input) + 1
            new == Event(i, k.type, t, k.key, k.ctype, k.val, FALSE)
            p == PartnerOf(Append(input, new), i)
            e == [new EXCEPT !.irregular = k.type = "off" /\ (p = 0 \/ input[p].time = t)]
        IN (input # <<>> => ~EV_LESS(e, Last(input))) /\ input' = Append(input, e)
  BY <1>1
<1>. DEFINE new == Event(Len(input) + 1, k.type, t, k.key, k.ctype, k.val, FALSE)
<1>3. PICK x : /\ input # <<>> => ~EV_LESS([new EXCEPT !.irregular = x], Last(input))
               /\ input' = Append(input, [new EXCEPT !.irregular = x])
  BY <1>2
<1>. DEFINE e == [new EXCEPT !.irregular = x]
<1>4. Fit(e, Nat)
  <2>1. DOMAIN new = Fields /\ new.time = t /\ new.type = k.type /\ new.key = k.key
    BY DEF Event, Fields
  <2>. HIDE DEF new
  <2>2. DOMAIN e = Fields /\ e.time = t /\ e.type = k.type /\ e.key = k.key
    BY <2>1 DEF Fields
  <2>. HIDE DEF e
  <2>3. Keyed(e)  BY <2>2, KindAssumption DEF Keyed
  <2>4. t \in Nat  BY BoundAssumption
  <2>. QED  BY <2>2, <2>3, <2>4 DEF Fit
<1>. HIDE DEF e
<1>5. Rising(Append(input, e))  BY <1>3, <1>4, RisesOn DEF e
<1>. QED  BY <1>3, <1>5 DEF e

-----------------------------------------------------------------------------
(* The length of the song covers every event (LengthCovers), for any       *)
(* track, range and operations.  Overlapping notes, a line that crosses    *)
(* the end of the range, or an end of the track before it must not output  *)
(* an event behind the time the scan has reached.                          *)
LengthInv ==
  /\ stage \in {"collect", "check", "event", "done", "error"}
  /\ stage = "collect" => Rising(input)
  /\ max_time \in Nat
  /\ ScanInv
  /\ stage = "done" => Timed(tmp, 0..Max({0, length}))

LEMMA LengthInit == Init => LengthInv
<1>. SUFFICES ASSUME Init  PROVE LengthInv  OBVIOUS
<1>1. stage = "collect" /\ input = <<>> /\ max_time = 0  BY DEF Init
<1>2. Rising(<<>>)
  <2>1. DOMAIN <<>> = {}  OBVIOUS
  <2>. QED  BY <2>1, TimedEmpty DEF Rising
<1>. QED  BY <1>1, <1>2 DEF LengthInv, ScanInv

LEMMA ScanStep ==
  ASSUME ScanInv, max_time \in Nat, Scan
  PROVE  /\ max_time' \in Nat /\ ScanInv' /\ stage' \in {"check", "event", "done", "error"}
         /\ stage' = "done" => Timed(tmp', 0..Max({0, length'}))
<1>1. CASE finish
  <2>1. stage' = "done"  BY <1>1 DEF finish
  <2>2. ScanInv'  BY <2>1 DEF ScanInv
  <2>. QED  BY <1>1, <2>1, <2>2, FinishStep
<1>2. CASE check_range
  <2>1. stage' \in {"check", "event"} /\ max_time' = max_time  BY <1>2 DEF check_range
  <2>. QED  BY <1>2, <2>1, RangeStep
<1>3. CASE E_Ctrl
  <2>1. stage' \in {"check", "error"} /\ max_time' = max_time  BY <1>3 DEF E_Ctrl
  <2>. QED  BY <1>3, <2>1, ControlStep
<1>4. CASE E_NoteOn \/ E_NoteOff \/ E_AllNotesOff \/ E_ResetAllCtrl \/ E_RPN \/ E_Text
           \/ E_TimeSig \/ Other
  <2>1. stage' = "check" /\ max_time' = max_time
    BY <1>4 DEF E_NoteOn, E_NoteOff, E_AllNotesOff, E_ResetAllCtrl, E_RPN, E_Text, E_TimeSig,
                Other, Case
  <2>2. ScanInv'  BY <1>4, NoteOnStep, NoteOffStep, AllNotesOffStep, CasesStep
  <2>. QED  BY <2>1, <2>2
<1>. QED  BY <1>1, <1>2, <1>3, <1>4 DEF Scan

LEMMA LengthNext == LengthInv /\ [Next]_vars => LengthInv'
<1>. SUFFICES ASSUME LengthInv, [Next]_vars  PROVE LengthInv'  OBVIOUS
<1>1. CASE Scan
  <2>1. ScanInv /\ max_time \in Nat  BY DEF LengthInv
  <2>. QED  BY <1>1, <2>1, ScanStep DEF LengthInv
<1>2. CASE collect
  <2>1. stage = "collect" /\ stage' = stage /\ max_time' = max_time  BY <1>2 DEF collect
  <2>2. Rising(input)'  BY <1>2, <2>1, CollectStep DEF LengthInv
  <2>. QED  BY <2>1, <2>2 DEF LengthInv, ScanInv
<1>3. CASE begin_scan
  <2>1. PICK r \in Requests : Begin(input, Paired(input), r)  BY <1>3 DEF begin_scan
  <2>2. stage = "collect" /\ input # <<>> /\ max_time' = max_time  BY <1>3 DEF begin_scan
  <2>3. Asks(r)  BY RequestAssumption DEF Asks
  <2>4. ScanInv' /\ stage' = "check"  BY <2>1, <2>2, <2>3, BeginStep DEF LengthInv
  <2>. QED  BY <2>2, <2>4 DEF LengthInv
<1>4. CASE UNCHANGED vars
  <2>1. UNCHANGED <<stage, input, req, pos, output, cur_time, term_time, nnotes, note_tbl,
                    ctrl_tbl, timesig, tmp, max_time>>
    BY <1>4 DEF vars, scanVars
  <2>2. begin_time' = begin_time /\ end_time' = end_time  BY <2>1 DEF begin_time, end_time, Does
  <2>3. length' = length /\ Reached' = Reached
    BY <2>1, <2>2 DEF length, Reached, Ended, Passed
  <2>4. ScanInv' <=> ScanInv
    BY <2>1, <2>2, <2>3 DEF ScanInv, Positions, Tables, InRange
  <2>. QED  BY <2>1, <2>3, <2>4 DEF LengthInv
<1>. QED  BY <1>1, <1>2, <1>3, <1>4 DEF Next, terminated

THEOREM LengthCoversAll == Spec => []LengthCovers
<1>1. LengthInv => LengthCovers
  <2>. SUFFICES ASSUME LengthInv, stage = "done", NEW i \in DOMAIN tmp
                PROVE  tmp[i].time \in 0..Max({0, length})
    BY DEF LengthCovers
  <2>. QED  BY DEF LengthInv, Timed, Fit
<1>. QED  BY LengthInit, LengthNext, <1>1, PTL DEF Spec

-----------------------------------------------------------------------------
(* Sorting puts a list in order: the ranks of its events are their places. *)
Before(s, i, j) == EV_LESS(s[i], s[j]) \/ (~EV_LESS(s[j], s[i]) /\ i < j)
Earlier(s, j) == {i \in DOMAIN s : Before(s, i, j)}
Rank(s, j) == Cardinality(Earlier(s, j)) + 1

LEMMA Priority == ASSUME NEW e  PROVE EPRI(e) \in 1..5
BY DEF EPRI

LEMMA BeforeOrder ==
  ASSUME NEW n \in Nat, NEW s, \A i \in 1..n : s[i].time \in Nat
  PROVE  /\ \A i \in 1..n : ~Before(s, i, i)
         /\ \A i, j \in 1..n : i # j => Before(s, i, j) \/ Before(s, j, i)
         /\ \A i, j, k \in 1..n : Before(s, i, j) /\ Before(s, j, k) => Before(s, i, k)
         /\ \A i, j \in 1..n : Before(s, i, j) => s[i].time <= s[j].time
<1>. DEFINE t == [i \in 1..n |-> s[i].time]
            p == [i \in 1..n |-> EPRI(s[i])]
            less(i, j) == t[i] < t[j] \/ (t[i] = t[j] /\ p[i] < p[j])
            before(i, j) == less(i, j) \/ (~less(j, i) /\ i < j)
<1>1. \A i \in 1..n : t[i] \in Nat /\ t[i] = s[i].time  OBVIOUS
<1>2. \A i \in 1..n : p[i] \in Nat /\ p[i] = EPRI(s[i])  BY Priority
<1>. HIDE DEF t, p
<1>3. ASSUME NEW i \in 1..n, NEW j \in 1..n  PROVE Before(s, i, j) <=> before(i, j)
  BY <1>1, <1>2 DEF Before, EV_LESS
<1>4. \A i \in 1..n : ~before(i, i)  BY <1>1, <1>2
<1>5. ASSUME NEW i \in 1..n, NEW j \in 1..n, i # j  PROVE before(i, j) \/ before(j, i)
  BY <1>1, <1>2, <1>5
<1>6. ASSUME NEW i \in 1..n, NEW j \in 1..n, NEW k \in 1..n, before(i, j), before(j, k)
      PROVE  before(i, k)
  BY <1>1, <1>2, <1>6
<1>7. ASSUME NEW i \in 1..n, NEW j \in 1..n, before(i, j)  PROVE s[i].time <= s[j].time
  BY <1>1, <1>2, <1>7
<1>. HIDE DEF before
<1>. QED  BY <1>3, <1>4, <1>5, <1>6, <1>7

LEMMA Ranked ==
  ASSUME NEW n \in Nat, NEW s, DOMAIN s = 1..n, \A i \in 1..n : s[i].time \in Nat
  PROVE  /\ \A j \in 1..n : Rank(s, j) \in 1..n
         /\ \A i, j \in 1..n : Before(s, i, j) => Rank(s, i) < Rank(s, j)
         /\ \A k \in 1..n : \E j \in 1..n : Rank(s, j) = k
<1>0. IsFiniteSet(1..n) /\ Cardinality(1..n) = n  BY FS_Interval
<1>1. ASSUME NEW j \in 1..n
      PROVE  /\ IsFiniteSet(Earlier(s, j)) /\ Cardinality(Earlier(s, j)) \in Nat
             /\ Earlier(s, j) \subseteq 1..n /\ Rank(s, j) \in 1..n
  <2>1. Earlier(s, j) \subseteq (1..n) \ {j}  BY BeforeOrder DEF Earlier
  <2>2. IsFiniteSet((1..n) \ {j}) /\ Cardinality((1..n) \ {j}) = n - 1
    BY <1>0, FS_RemoveElement
  <2>3. IsFiniteSet(Earlier(s, j)) /\ Cardinality(Earlier(s, j)) <= n - 1
    BY <2>1, <2>2, FS_Subset
  <2>4. Cardinality(Earlier(s, j)) \in Nat  BY <2>3, FS_CardinalityType
  <2>. QED  BY <2>1, <2>3, <2>4 DEF Rank
<1>2. ASSUME NEW i \in 1..n, NEW j \in 1..n, Before(s, i, j)  PROVE Rank(s, i) < Rank(s, j)
  <2>1. Earlier(s, i) \cup {i} \subseteq Earlier(s, j) /\ i \notin Earlier(s, i)
    BY <1>2, BeforeOrder DEF Earlier
  <2>2. Cardinality(Earlier(s, i) \cup {i}) = Cardinality(Earlier(s, i)) + 1
    BY <1>1, <2>1, FS_AddElement
  <2>3. Cardinality(Earlier(s, i) \cup {i}) <= Cardinality(Earlier(s, j))
    BY <1>1, <2>1, FS_Subset
  <2>. QED  BY <1>1, <2>2, <2>3 DEF Rank
<1>3. \A k \in 1..n : \E j \in 1..n : Rank(s, j) = k
  <2>. DEFINE r == [j \in 1..n |-> Rank(s, j)]
  <2>1. r \in [1..n -> 1..n]  BY <1>1
  <2>2. ASSUME NEW i \in 1..n, NEW j \in 1..n, r[i] = r[j]  PROVE i = j
    <3>1. Rank(s, i) = Rank(s, j) /\ Rank(s, i) \in 1..n  BY <1>1, <2>2
    <3>2. ~Before(s, i, j) /\ ~Before(s, j, i)  BY <1>2, <3>1
    <3>. QED  BY <3>2, BeforeOrder
  <2>3. r \in Injection(1..n, 1..n)  BY <2>1, <2>2 DEF Injection, IsInjective
  <2>4. r \in Surjection(1..n, 1..n)  BY <1>0, <2>3, FS_Injection
  <2>5. ASSUME NEW k \in 1..n  PROVE \E j \in 1..n : Rank(s, j) = k
    <3>1. \E j \in 1..n : r[j] = k  BY <2>4 DEF Surjection
    <3>. QED  BY <3>1
  <2>. QED  BY <2>5
<1>. QED  BY <1>1, <1>2, <1>3

LEMMA SortedBy ==
  ASSUME NEW s
  PROVE  sort_event(s) = [k \in DOMAIN s |-> s[CHOOSE j \in DOMAIN s : Rank(s, j) = k]]
BY DEF sort_event, Rank, Earlier, Before

LEMMA SortRises ==
  ASSUME NEW T \in SUBSET Nat, NEW s, Timed(s, T)
  PROVE  Timed(sort_event(s), T) /\ Rising(sort_event(s)) /\ DOMAIN sort_event(s) = DOMAIN s
<1>. DEFINE n == Len(s)
            z == sort_event(s)
            at(k) == CHOOSE j \in DOMAIN s : Rank(s, j) = k
<1>1. n \in Nat /\ DOMAIN s = 1..n /\ \A i \in 1..n : Fit(s[i], T) /\ s[i].time \in Nat
  BY LenProperties DEF Timed, Fit
<1>. HIDE DEF n
<1>2. z = [k \in 1..n |-> s[at(k)]]
  BY <1>1, SortedBy
<1>3. ASSUME NEW k \in 1..n  PROVE at(k) \in 1..n /\ Rank(s, at(k)) = k
  <2>1. \E j \in 1..n : Rank(s, j) = k  BY <1>1, Ranked
  <2>. QED  BY <1>1, <2>1
<1>. HIDE DEF z, at
<1>4. DOMAIN z = 1..n /\ z = [k \in DOMAIN z |-> z[k]]  BY <1>2
<1>5. \A k \in 1..n : Fit(z[k], T) /\ Fit(z[k], Nat) /\ z[k].time = s[at(k)].time
  BY <1>1, <1>2, <1>3 DEF Fit
<1>6. Timed(z, T) /\ Timed(z, Nat)  BY <1>1, <1>4, <1>5, TimedMap
<1>7. ASSUME NEW k \in 1..n, NEW l \in 1..n, k <= l  PROVE z[k].time <= z[l].time
  <2>1. at(k) \in 1..n /\ at(l) \in 1..n /\ Rank(s, at(k)) = k /\ Rank(s, at(l)) = l
    BY <1>3
  <2>2. ~Before(s, at(l), at(k))
    <3>1. ~(l < k)  BY <1>7
    <3>. QED  BY <1>1, <2>1, <3>1, Ranked
  <2>3. CASE at(k) = at(l)
    <3>1. z[k].time = z[l].time /\ z[k].time \in Nat  BY <1>1, <1>5, <2>1, <2>3
    <3>. QED  BY <3>1
  <2>4. CASE Before(s, at(k), at(l))
    <3>1. s[at(k)].time <= s[at(l)].time  BY <1>1, <2>1, <2>4, BeforeOrder
    <3>. QED  BY <1>5, <3>1
  <2>. QED  BY <1>1, <2>1, <2>2, <2>3, <2>4, BeforeOrder
<1>8. Rising(z)  BY <1>4, <1>6, <1>7 DEF Rising
<1>. QED  BY <1>1, <1>4, <1>6, <1>8 DEF z

LEMMA RenumberedRises ==
  ASSUME NEW T \in SUBSET Nat, NEW s, Timed(s, T), NEW p
  PROVE  /\ Timed(Renumbered(s, p).events, T) /\ Rising(Renumbered(s, p).events)
         /\ Renumbered(s, p) = Track(Renumbered(s, p).events, Renumbered(s, p).partners)
<1>. DEFINE z == sort_event(s)
            n == Len(z)
            l == [j \in DOMAIN z |-> [z[j] EXCEPT !.id = j]]
            r == Renumbered(s, p)
<1>1. r.events = l /\ r = Track(r.events, r.partners)  BY DEF Renumbered, Track
<1>2. Timed(z, T) /\ Rising(z)  BY SortRises
<1>. HIDE DEF z, r
<1>3. n \in Nat /\ DOMAIN z = 1..n /\ \A j \in 1..n : Fit(z[j], T)
  BY <1>2, LenProperties DEF Timed
<1>. HIDE DEF n
<1>4. ASSUME NEW j \in 1..n
      PROVE  Fit(l[j], T) /\ Fit(l[j], Nat) /\ l[j].time = z[j].time
  <2>. DEFINE e == [z[j] EXCEPT !.id = j]
  <2>1. l[j] = e  BY <1>3
  <2>2. DOMAIN z[j] = Fields /\ z[j].time \in T /\ Keyed(z[j])  BY <1>3 DEF Fit
  <2>3. DOMAIN e = Fields /\ e.time = z[j].time /\ e.type = z[j].type /\ e.key = z[j].key
    BY <2>2 DEF Fields
  <2>. HIDE DEF e, l
  <2>4. Keyed(e)  BY <2>2, <2>3 DEF Keyed
  <2>. QED  BY <2>1, <2>2, <2>3, <2>4 DEF Fit
<1>5. DOMAIN l = 1..n /\ l = [j \in DOMAIN l |-> l[j]]  BY <1>3
<1>. HIDE DEF l
<1>6. Timed(l, T) /\ Timed(l, Nat)  BY <1>3, <1>4, <1>5, TimedMap
<1>7. \A i, j \in 1..n : i <= j => l[i].time <= l[j].time
  BY <1>2, <1>3, <1>4 DEF Rising
<1>8. Rising(l)  BY <1>5, <1>6, <1>7 DEF Rising
<1>. QED  BY <1>1, <1>6, <1>8 DEF r

-----------------------------------------------------------------------------
(* The file: its chunks but the open one are closed.  The delta times of a *)
(* chunk add up to x.                                                      *)
Delays(m, g) ==
  /\ g \in [0..Len(m) -> Int] /\ g[0] = 0
  /\ \A i \in 1..Len(m) : g[i] = g[i - 1] + m[i].dtime
Runs(m, x) ==
  /\ List(m) /\ \A i \in DOMAIN m : m[i].dtime \in Nat
  /\ \E g : Delays(m, g) /\ g[Len(m)] = x
IsChunk(c) == DOMAIN c = {"msgs", "rest"}
Closed(c) ==
  /\ IsChunk(c) /\ c.rest \in Nat
  /\ \E x \in Int : Runs(c.msgs, x) /\ (opt.format < 2 => x + c.rest = end_of_song)
Shut(f, n) ==
  /\ DOMAIN f = {"open", "ntracks", "chunks"} /\ f.open = FALSE
  /\ List(f.chunks) /\ Len(f.chunks) = n
  /\ \A i \in 1..n : Closed(f.chunks[i])
Open(f, n, x) ==
  /\ DOMAIN f = {"open", "ntracks", "chunks"} /\ f.open = TRUE
  /\ List(f.chunks) /\ Len(f.chunks) = n
  /\ n > 0 /\ IsChunk(f.chunks[n]) /\ Runs(f.chunks[n].msgs, x)
  /\ \A i \in 1..n : i < n => Closed(f.chunks[i])

LEMMA RunsEmpty == Runs(<<>>, 0)
<1>. DEFINE g == [i \in 0..0 |-> 0]
<1>1. Delays(<<>>, g) /\ g[Len(<<>>)] = 0  BY ListEmpty DEF Delays
<1>. QED  BY <1>1, ListEmpty DEF Runs

LEMMA RunsOn ==
  ASSUME NEW m, NEW x \in Int, Runs(m, x), NEW y \in Int, x <= y, NEW e
  PROVE  Runs(Append(m, [dtime |-> y - x, ev |-> e]), y)
<1>. DEFINE n == Len(m)
            a == Append(m, [dtime |-> y - x, ev |-> e])
<1>0. [dtime |-> y - x, ev |-> e].dtime = y - x /\ y - x \in Nat  OBVIOUS
<1>1. /\ List(a) /\ n \in Nat /\ DOMAIN m = 1..n /\ Len(a) = n + 1 /\ DOMAIN a = 1..(n + 1)
      /\ \A i \in 1..n : a[i] = m[i]
      /\ a[n + 1].dtime = y - x
  BY <1>0, ListAppend DEF Runs
<1>2. PICK g : Delays(m, g) /\ g[n] = x  BY DEF Runs
<1>3. \A i \in 1..n : m[i].dtime \in Nat  BY <1>1 DEF Runs
<1>4. /\ g \in [0..n -> Int] /\ g[0] = 0
      /\ \A i \in 1..n : g[i] = g[i - 1] + m[i].dtime
  BY <1>2 DEF Delays
<1>. HIDE DEF n, a
<1>. DEFINE h == [i \in 0..(n + 1) |-> IF i = n + 1 THEN y ELSE g[i]]
<1>5. /\ h \in [0..(n + 1) -> Int] /\ h[0] = 0 /\ h[n + 1] = y
      /\ \A i \in 0..n : h[i] = g[i]
  BY <1>1, <1>4
<1>. HIDE DEF h
<1>6. ASSUME NEW i \in 1..(n + 1)  PROVE h[i] = h[i - 1] + a[i].dtime /\ a[i].dtime \in Nat
  <2>1. CASE i \in 1..n
    <3>1. i - 1 \in 0..n /\ i \in 0..n  BY <1>1, <2>1
    <3>. QED  BY <1>1, <1>3, <1>4, <1>5, <2>1, <3>1
  <2>2. CASE i = n + 1
    <3>1. i - 1 = n /\ n \in 0..n  BY <1>1, <2>2
    <3>2. h[i - 1] = x /\ h[i] = y /\ a[i].dtime = y - x  BY <1>1, <1>2, <1>5, <2>2, <3>1
    <3>. QED  BY <1>0, <3>2
  <2>. QED  BY <1>1, <2>1, <2>2
<1>7. Delays(a, h) /\ h[Len(a)] = y  BY <1>1, <1>5, <1>6 DEF Delays
<1>. QED  BY <1>1, <1>6, <1>7 DEF Runs, a

LEMMA BegunFile ==
  ASSUME NEW f, NEW n \in Nat, Shut(f, n)
  PROVE  Open(bgntrack(f), n + 1, 0) /\ bgntrack(f).ntracks = f.ntracks
<1>. DEFINE c == [msgs |-> <<>>, rest |-> 0]
            g == bgntrack(f)
<1>1. /\ DOMAIN f = {"open", "ntracks", "chunks"} /\ f.open = FALSE
      /\ List(f.chunks) /\ Len(f.chunks) = n
      /\ \A i \in 1..n : Closed(f.chunks[i])
  BY DEF Open, Shut
<1>2. c.msgs = <<>> /\ IsChunk(c)  BY DEF IsChunk
<1>. HIDE DEF c
<1>3. g = [f EXCEPT !.open = TRUE, !.chunks = Append(@, c)]  BY DEF bgntrack, c
<1>. HIDE DEF g
<1>4. /\ DOMAIN g = {"open", "ntracks", "chunks"} /\ g.open = TRUE
      /\ g.ntracks = f.ntracks /\ g.chunks = Append(f.chunks, c)
  BY <1>1, <1>3
<1>5. /\ List(g.chunks) /\ Len(g.chunks) = n + 1
      /\ \A i \in 1..n : g.chunks[i] = f.chunks[i]
      /\ g.chunks[n + 1] = c
  BY <1>1, <1>4, ListAppend
<1>6. \A i \in 1..(n + 1) : i < n + 1 => i \in 1..n  OBVIOUS
<1>7. Open(g, n + 1, 0)  BY <1>1, <1>2, <1>4, <1>5, <1>6, RunsEmpty DEF Open, Shut
<1>. QED  BY <1>4, <1>7 DEF g

Delta(x, y) == y - x
LEMMA PutFile ==
  ASSUME NEW f, NEW n, NEW x, NEW y, NEW d, NEW e,
         n \in Nat, x \in Int, y \in Int, x <= y, d = Delta(x, y), Open(f, n, x)
  PROVE  Open(putevent(f, d, e), n, y) /\ putevent(f, d, e).ntracks = f.ntracks
<1>. DEFINE m == [dtime |-> d, ev |-> e]
            c == f.chunks[n]
            new == [c EXCEPT !.msgs = Append(@, m)]
            g == putevent(f, d, e)
<1>1. /\ DOMAIN f = {"open", "ntracks", "chunks"} /\ f.open = TRUE
      /\ List(f.chunks) /\ Len(f.chunks) = n
      /\ n > 0 /\ IsChunk(c) /\ Runs(c.msgs, x)
      /\ \A i \in 1..n : i < n => Closed(f.chunks[i])
  BY DEF Open, Shut
<1>2. n \in DOMAIN f.chunks  BY <1>1, ListOf DEF List
<1>3. new.msgs = Append(c.msgs, m) /\ new.rest = c.rest /\ IsChunk(new)  BY <1>1 DEF IsChunk
<1>. HIDE DEF m, new
<1>4. g = [f EXCEPT !.chunks = [@ EXCEPT ![n] = new]]  BY <1>1 DEF putevent, new, m
<1>. HIDE DEF g
<1>6. /\ DOMAIN g = {"open", "ntracks", "chunks"} /\ g.open = TRUE
      /\ g.ntracks = f.ntracks /\ g.chunks = [f.chunks EXCEPT ![n] = new]
  BY <1>1, <1>4
<1>7. /\ List(g.chunks) /\ Len(g.chunks) = n /\ g.chunks[n] = new
      /\ \A i \in 1..n : i < n => g.chunks[i] = f.chunks[i]
  BY <1>1, <1>2, <1>6, ListPut
<1>9. Runs(new.msgs, y)  BY <1>1, <1>3, RunsOn DEF m, Delta
<1>10. Open(g, n, y)  BY <1>1, <1>3, <1>6, <1>7, <1>9 DEF Open, Shut
<1>. QED  BY <1>6, <1>10 DEF g

LEMMA EndedFile ==
  ASSUME opt.format \in 0..2, end_of_song \in Int,
         NEW f, NEW n \in Nat, NEW x \in Int, Open(f, n, x), x <= end_of_song
  PROVE  /\ Shut(endtrack(f, Rest(x)), n)
         /\ endtrack(f, Rest(x)).ntracks = f.ntracks
<1>. DEFINE c == f.chunks[n]
            r == Rest(x)
            d == [c EXCEPT !.rest = r]
            g == endtrack(f, r)
<1>1. /\ DOMAIN f = {"open", "ntracks", "chunks"} /\ f.open = TRUE
      /\ List(f.chunks) /\ Len(f.chunks) = n
      /\ n > 0 /\ IsChunk(c) /\ Runs(c.msgs, x)
      /\ \A i \in 1..n : i < n => Closed(f.chunks[i])
  BY DEF Open, Shut
<1>2. n \in DOMAIN f.chunks  BY <1>1, ListOf DEF List
<1>3. d.msgs = c.msgs /\ d.rest = r /\ IsChunk(d)  BY <1>1 DEF IsChunk
<1>. HIDE DEF d
<1>4. f.open  BY <1>1
<1>5. r \in Nat /\ (opt.format < 2 => x + r = end_of_song)  BY DEF Rest
<1>. HIDE DEF r
<1>6. g = [f EXCEPT !.open = FALSE, !.chunks = [@ EXCEPT ![n] = d]]
  BY <1>1, <1>4 DEF endtrack, d
<1>. HIDE DEF g
<1>7. /\ DOMAIN g = {"open", "ntracks", "chunks"} /\ g.open = FALSE
      /\ g.ntracks = f.ntracks /\ g.chunks = [f.chunks EXCEPT ![n] = d]
  BY <1>1, <1>6
<1>8. /\ List(g.chunks) /\ Len(g.chunks) = n /\ g.chunks[n] = d
      /\ \A i \in 1..n : i < n => g.chunks[i] = f.chunks[i]
  BY <1>1, <1>2, <1>7, ListPut
<1>10. Closed(d)  BY <1>1, <1>3, <1>5 DEF Closed
<1>11. \A i \in 1..n : Closed(g.chunks[i])
  <2>1. \A i \in 1..n : i < n \/ i = n  OBVIOUS
  <2>. QED  BY <1>1, <1>8, <1>10, <2>1
<1>12. Shut(g, n)  BY <1>7, <1>8, <1>11 DEF Open, Shut
<1>. QED  BY <1>7, <1>12 DEF g, r

LEMMA EmptyFile ==
  ASSUME opt.format \in 0..2, end_of_song \in Nat,
         NEW f, NEW n \in Nat, Shut(f, n), NEW k \in Nat
  PROVE  /\ Shut(EmptyTracks(f, k), n + k)
         /\ EmptyTracks(f, k).ntracks = f.ntracks
<1>. DEFINE c == [msgs |-> <<>>, rest |-> Rest(0)]
            t == [i \in 1..k |-> c]
            g == EmptyTracks(f, k)
<1>1. /\ DOMAIN f = {"open", "ntracks", "chunks"} /\ f.open = FALSE
      /\ List(f.chunks) /\ Len(f.chunks) = n
      /\ \A i \in 1..n : Closed(f.chunks[i])
  BY DEF Open, Shut
<1>3. Rest(0) \in Nat /\ (opt.format < 2 => 0 + Rest(0) = end_of_song)  BY DEF Rest
<1>4. c.msgs = <<>> /\ c.rest = Rest(0) /\ IsChunk(c)  BY DEF IsChunk
<1>. HIDE DEF c
<1>5. Closed(c)  BY <1>3, <1>4, RunsEmpty DEF Closed
<1>6. List(t) /\ Len(t) = k /\ \A i \in 1..k : t[i] = c  BY ListMap
<1>. HIDE DEF t
<1>2. g = [f EXCEPT !.chunks = @ \o t]  BY DEF EmptyTracks, t, c
<1>. HIDE DEF g
<1>7. /\ DOMAIN g = {"open", "ntracks", "chunks"} /\ g.open = FALSE
      /\ g.ntracks = f.ntracks /\ g.chunks = f.chunks \o t
  BY <1>1, <1>2
<1>8. /\ List(g.chunks) /\ Len(g.chunks) = n + k
      /\ \A i \in 1..(n + k) :
           g.chunks[i] = IF i <= n THEN f.chunks[i] ELSE t[i - n]
  <2>1. PICK u, v, w : u = f.chunks /\ v = t /\ w = g.chunks  OBVIOUS
  <2>2. List(u) /\ Len(u) = n /\ List(v) /\ Len(v) = k /\ w = u \o v
    BY <1>1, <1>6, <1>7, <2>1
  <2>3. List(u \o v) /\ Len(u \o v) = n + k  BY <2>2, ListJoin
  <2>4. \A i \in 1..(n + k) : (u \o v)[i] = IF i <= n THEN u[i] ELSE v[i - n]
    BY <2>2, ListJoin
  <2>. QED  BY <2>1, <2>2, <2>3, <2>4
<1>9. ASSUME NEW i \in 1..(n + k)  PROVE Closed(g.chunks[i])
  <2>1. CASE i \in 1..n  BY <1>1, <1>8, <2>1
  <2>2. CASE i \notin 1..n
    <3>1. i - n \in 1..k /\ ~(i <= n)  BY <2>2
    <3>. QED  BY <1>5, <1>6, <1>8, <3>1
  <2>. QED  BY <2>1, <2>2
<1>10. Shut(g, n + k)  BY <1>7, <1>8, <1>9 DEF Open, Shut
<1>. QED  BY <1>7, <1>10 DEF g

LEMMA SumOf ==
  ASSUME NEW n \in Nat, NEW d, Len(d) = n, NEW g \in [0..n -> Int], g[0] = 0,
         \A i \in 1..n : g[i] = g[i - 1] + d[i]
  PROVE  Sum(d) = g[n]
<1>. DEFINE sum == CHOOSE f : f = [i \in 0..n |-> IF i = 0 THEN 0 ELSE f[i - 1] + d[i]]
<1>1. Sum(d) = sum[n]  BY DEF Sum
<1>2. g = [i \in 0..n |-> IF i = 0 THEN 0 ELSE g[i - 1] + d[i]]
  <2>1. ASSUME NEW i \in 0..n  PROVE g[i] = IF i = 0 THEN 0 ELSE g[i - 1] + d[i]
    <3>1. i # 0 => i \in 1..n  OBVIOUS
    <3>. QED  BY <3>1
  <2>. QED  BY <2>1
<1>3. sum = [i \in 0..n |-> IF i = 0 THEN 0 ELSE sum[i - 1] + d[i]]  BY <1>2
<1>. HIDE DEF sum
<1>. DEFINE same == [i \in 0..n |-> IF sum[i] = g[i] THEN 0 ELSE 1]
<1>4. same[0] \in {0}  BY <1>3
<1>5. ASSUME NEW i \in 1..n, same[i - 1] \in {0}  PROVE same[i] \in {0}
  <2>1. i - 1 \in 0..n /\ i \in 0..n /\ i # 0  OBVIOUS
  <2>2. sum[i - 1] = g[i - 1]  BY <1>5, <2>1
  <2>3. sum[i] = sum[i - 1] + d[i]  BY <1>3, <2>1
  <2>4. sum[i] = g[i]  BY <2>2, <2>3
  <2>. QED  BY <2>1, <2>4
<1>. HIDE DEF same
<1>6. same[n] \in {0}
  <2>1. PICK Z : Z = {0}  OBVIOUS
  <2>2. same[0] \in Z /\ \A i \in 1..n : same[i - 1] \in Z => same[i] \in Z
    BY <1>4, <1>5, <2>1
  <2>3. \A i \in 0..n : same[i] \in Z  BY <2>2, Inductively
  <2>4. n \in 0..n  OBVIOUS
  <2>. QED  BY <2>1, <2>3, <2>4
<1>7. sum[n] = g[n]  BY <1>6 DEF same
<1>. QED  BY <1>1, <1>7

LEMMA ClosedTotal ==
  ASSUME NEW c, Closed(c), opt.format < 2
  PROVE  Total(c) = end_of_song
<1>1. PICK x \in Int : Runs(c.msgs, x) /\ x + c.rest = end_of_song  BY DEF Closed
<1>. DEFINE m == c.msgs
            n == Len(m)
            d == [i \in DOMAIN m |-> m[i].dtime]
<1>2. n \in Nat /\ DOMAIN m = 1..n /\ \A i \in DOMAIN m : m[i].dtime \in Nat
  BY <1>1, ListOf DEF Runs, List
<1>3. PICK g : Delays(m, g) /\ g[n] = x  BY <1>1 DEF Runs
<1>. HIDE DEF m, n
<1>4. d \in [1..n -> Nat] /\ \A i \in 1..n : d[i] = m[i].dtime  BY <1>2
<1>. HIDE DEF d
<1>5. d \in Seq(Nat)  BY <1>2, <1>4, SeqDef
<1>6. Len(d) = n  BY <1>2, <1>4, <1>5, LenProperties
<1>7. g \in [0..n -> Int] /\ g[0] = 0 /\ \A i \in 1..n : g[i] = g[i - 1] + d[i]
  BY <1>3, <1>4 DEF Delays, n
<1>8. Sum(d) = x  BY <1>2, <1>3, <1>6, <1>7, SumOf
<1>. QED  BY <1>1, <1>8 DEF Total, d, m

-----------------------------------------------------------------------------
(* Numbers.                                                                *)
LEMMA MinOf ==
  ASSUME NEW S \in SUBSET Nat, S # {}
  PROVE  Min(S) \in S /\ \A x \in S : Min(S) <= x
<1>1. \E m \in S : \A x \in S : m <= x  BY Least
<1>. QED  BY <1>1 DEF Min

LEMMA MaxOf ==
  ASSUME NEW n \in Nat, NEW S \in SUBSET (0..n), S # {}
  PROVE  Max(S) \in S /\ \A x \in S : x <= Max(S)
<1>. DEFINE T == {n - x : x \in S}
<1>1. T \in SUBSET Nat /\ T # {}  OBVIOUS
<1>2. PICK m \in T : \A k \in T : m <= k
  <2>. HIDE DEF T
  <2>. QED  BY <1>1, Least
<1>3. PICK y \in S : m = n - y  BY <1>2
<1>4. \A x \in S : y >= x
  <2>1. ASSUME NEW x \in S  PROVE y >= x
    <3>1. n - y <= n - x  BY <1>2, <1>3
    <3>. QED  BY <3>1
  <2>. QED  BY <2>1
<1>5. \E z \in S : \A x \in S : z >= x  BY <1>4
<1>6. Max(S) \in S /\ \A x \in S : Max(S) >= x
  <2>. HIDE DEF T
  <2>. QED  BY <1>5 DEF Max
<1>. QED  BY <1>6

LEMMA MaxOfThree ==
  ASSUME NEW x \in Int, NEW y \in Int
  PROVE  /\ Max({0, x, y}) \in Nat /\ x <= Max({0, x, y}) /\ y <= Max({0, x, y})
         /\ Max({0, x}) <= Max({0, x, y})
<1>1. \E z \in {0, x, y} : \A w \in {0, x, y} : z >= w
  <2>1. CASE 0 >= x /\ 0 >= y  BY <2>1
  <2>2. CASE x >= 0 /\ x >= y  BY <2>2
  <2>3. CASE y >= 0 /\ y >= x  BY <2>3
  <2>. QED  BY <2>1, <2>2, <2>3
<1>2. Max({0, x, y}) \in {0, x, y} /\ \A w \in {0, x, y} : Max({0, x, y}) >= w
  BY <1>1 DEF Max
<1>3. Max({0, x}) = IF 0 >= x THEN 0 ELSE x
  <2>1. Max({0, x}) = CHOOSE z \in {0, x} : \A w \in {0, x} : z >= w  BY DEF Max
  <2>. QED  BY <2>1
<1>. QED  BY <1>2, <1>3

LEMMA ConvMonotone ==
  ASSUME NEW x \in Nat, NEW y \in Nat, x <= y
  PROVE  ConvTime(x) \in Nat /\ ConvTime(y) \in Nat /\ ConvTime(x) <= ConvTime(y)
<1>1. PICK r \in Nat : r = Resolution  BY TrackAssumption
<1>2. PICK d \in Nat : y = x + d
  <2>1. y - x \in Nat /\ y = x + (y - x)  OBVIOUS
  <2>. QED  BY <2>1
<1>3. y * r = x * r + d * r  BY <1>2
<1>4. x * r \in Nat /\ d * r \in Nat  BY Multiple
<1>5. PICK u \in Nat, v \in Nat : u = x * r /\ v = d * r  BY <1>4
<1>6. ConvTime(x) = u \div 2 /\ ConvTime(y) = (u + v) \div 2
  BY <1>1, <1>3, <1>5 DEF ConvTime
<1>. QED  BY <1>6

LEMMA ConvZero == ConvTime(0) = 0
<1>1. PICK r \in Nat : r = Resolution  BY TrackAssumption
<1>2. 0 * r = 0  OBVIOUS
<1>. QED  BY <1>1, <1>2 DEF ConvTime

LEMMA Length ==
  ASSUME NEW x \in Int, NEW y \in Int, x <= y
  PROVE  /\ Max({0, x}) \in Nat /\ 0..Max({0, x}) \subseteq 0..Max({0, y})
         /\ x \in Nat => Max({0, x}) = x
<1>1. \A z \in Int : Max({0, z}) = IF 0 >= z THEN 0 ELSE z
  <2>1. ASSUME NEW z \in Int  PROVE Max({0, z}) = IF 0 >= z THEN 0 ELSE z
    <3>1. Max({0, z}) = CHOOSE v \in {0, z} : \A w \in {0, z} : v >= w  BY DEF Max
    <3>. QED  BY <3>1
  <2>. QED  BY <2>1
<1>. QED  BY <1>1

-----------------------------------------------------------------------------
(* The tracks of the song, and the options of smfout.                      *)
IsTrack(t) == DOMAIN t = {"events", "partners"} /\ Rising(t.events)
HasTracks(ts, n) ==
  n \in Nat /\ ts = [k \in 1..n |-> ts[k]] /\ \A k \in 1..n : IsTrack(ts[k])
Within(ts, n, T) == \A k \in 1..n : Timed(ts[k].events, T)
Chosen ==
  /\ opt.format \in 0..2 /\ opt.pack_tracks \in BOOLEAN /\ opt.range \in BOOLEAN
  /\ opt.begin \in Int /\ opt.end \in Int /\ opt.detached \in Int
  /\ opt.range => opt.begin < opt.end

LEMMA NoEvents == Rising(<<>>)
<1>1. DOMAIN <<>> = {}  OBVIOUS
<1>. QED  BY <1>1, TimedEmpty DEF Rising

LEMMA OfTrack ==
  ASSUME NEW e, NEW p, Rising(e)
  PROVE  IsTrack(Track(e, p)) /\ Track(e, p).events = e /\ Track(e, p).partners = p
BY DEF IsTrack, Track

(* A track is given another list of events.                                *)
LEMMA PutTrack ==
  ASSUME NEW ts, NEW n, HasTracks(ts, n), NEW k \in 1..n, NEW t, IsTrack(t)
  PROVE  /\ HasTracks([ts EXCEPT ![k] = t], n)
         /\ \A j \in 1..n : [ts EXCEPT ![k] = t][j] = IF j = k THEN t ELSE ts[j]
<1>. DEFINE u == [ts EXCEPT ![k] = t]
<1>1. n \in Nat /\ ts = [j \in 1..n |-> ts[j]] /\ \A j \in 1..n : IsTrack(ts[j])
  BY DEF HasTracks
<1>2. u = [j \in 1..n |-> u[j]] /\ \A j \in 1..n : u[j] = IF j = k THEN t ELSE ts[j]
  BY <1>1
<1>. HIDE DEF u
<1>3. HasTracks(u, n)  BY <1>1, <1>2 DEF HasTracks
<1>. QED  BY <1>2, <1>3 DEF u

LEMMA GatherStep ==
  ASSUME HasTracks(trks, NTracks), tk \in 1..NTracks, gather
  PROVE  HasTracks(trks', NTracks) /\ tk' \in 1..NTracks
<1>1. PICK k \in tk..NTracks, part \in Parts, t \in 0..MaxTime : \E kind \in part.kinds :
        LET before == trks[k].events
            i == Len(before) + 1
            new == Event(i, kind.type, t, kind.key, kind.ctype, kind.val, FALSE)
            p == PartnerOf(Append(before, new), i)
            e == [new EXCEPT !.irregular = kind.type = "off" /\ (p = 0 \/ before[p].time = t)]
            all == Append(before, e)
        IN /\ Offset(NTracks + 1) < part.len
           /\ \A j \in 1..NTracks : \A m \in DOMAIN trks[j].events :
                Kind(trks[j].events[m]) \in part.kinds
           /\ before # <<>> => ~EV_LESS(e, Last(before))
           /\ trks' = [trks EXCEPT ![k] = Track(all, Paired(all))]
           /\ tk' = k
  BY DEF gather
<1>. DEFINE before == trks[k].events
<1>2. PICK kind \in part.kinds :
        LET i == Len(before) + 1
            new == Event(i, kind.type, t, kind.key, kind.ctype, kind.val, FALSE)
            p == PartnerOf(Append(before, new), i)
            e == [new EXCEPT !.irregular = kind.type = "off" /\ (p = 0 \/ before[p].time = t)]
            all == Append(before, e)
        IN /\ before # <<>> => ~EV_LESS(e, Last(before))
           /\ trks' = [trks EXCEPT ![k] = Track(all, Paired(all))]
           /\ tk' = k
  BY <1>1
<1>. DEFINE new == Event(Len(before) + 1, kind.type, t, kind.key, kind.ctype, kind.val, FALSE)
<1>3. PICK x : LET e == [new EXCEPT !.irregular = x]
                   all == Append(before, e)
               IN /\ before # <<>> => ~EV_LESS(e, Last(before))
                  /\ trks' = [trks EXCEPT ![k] = Track(all, Paired(all))]
                  /\ tk' = k
  BY <1>2
<1>. DEFINE e == [new EXCEPT !.irregular = x]
            all == Append(before, e)
<1>4. Fit(e, Nat)
  <2>1. DOMAIN new = Fields /\ new.time = t /\ new.type = kind.type /\ new.key = kind.key
    BY DEF Event, Fields
  <2>. HIDE DEF new
  <2>2. DOMAIN e = Fields /\ e.time = t /\ e.type = kind.type /\ e.key = kind.key
    BY <2>1 DEF Fields
  <2>. HIDE DEF e
  <2>3. Keyed(e)  BY <2>2, KindAssumption DEF Keyed
  <2>4. t \in Nat  BY BoundAssumption
  <2>. QED  BY <2>2, <2>3, <2>4 DEF Fit
<1>5. k \in 1..NTracks  BY TrackAssumption
<1>6. Rising(before)  BY <1>5 DEF HasTracks, IsTrack
<1>. HIDE DEF before, e
<1>7. Rising(all)  BY <1>3, <1>4, <1>6, RisesOn DEF e
<1>8. trks' = [trks EXCEPT ![k] = Track(all, Paired(all))] /\ tk' = k  BY <1>3 DEF e
<1>. HIDE DEF all
<1>9. IsTrack(Track(all, Paired(all)))  BY <1>7, OfTrack
<1>. QED  BY <1>5, <1>8, <1>9, PutTrack

LEMMA DetachStep ==
  ASSUME HasTracks(trks, NTracks), smfout_detach
  PROVE  /\ HasTracks(trks', ntrks') /\ Chosen' /\ phase' = "post" /\ tk' = 0
         /\ stage' = "done" /\ UNCHANGED <<max_time, prev_tk, prev_time, mfp>>
<1>. DEFINE n == Max(Used)
<1>1. /\ Used # {} /\ ntrks' = n /\ phase' = "post" /\ tk' = 0 /\ stage' = "done"
      /\ UNCHANGED <<max_time, prev_tk, prev_time, mfp>>
  BY DEF smfout_detach
<1>2. PICK o \in Options, selected \in SUBSET (1..NTracks) :
        /\ opt' = [o EXCEPT !.format = IF @ # -1 THEN @ ELSE IF n > 1 THEN 1 ELSE 0]
        /\ trks' = [k \in 1..n |-> IF k \in selected THEN trks[k] ELSE EmptyTrack]
  BY DEF smfout_detach
<1>3. n \in 1..NTracks
  <2>1. PICK m \in Nat : m = NTracks  BY TrackAssumption
  <2>2. Used \in SUBSET (0..m) /\ Used \subseteq 1..m  BY <2>1 DEF Used
  <2>. HIDE DEF n
  <2>3. Max(Used) \in Used  BY <1>1, <2>2, MaxOf
  <2>. QED  BY <2>1, <2>2, <2>3 DEF n
<1>. HIDE DEF n
<1>4. n \in Nat /\ 1..n \subseteq 1..NTracks  BY <1>3, TrackAssumption
<1>5. \A k \in 1..n : trks'[k] = IF k \in selected THEN trks[k] ELSE EmptyTrack  BY <1>2
<1>6. IsTrack(EmptyTrack)  BY NoEvents, OfTrack DEF EmptyTrack
<1>7. \A k \in 1..n : IsTrack(trks'[k])  BY <1>4, <1>5, <1>6 DEF HasTracks
<1>8. trks' = [k \in 1..n |-> trks'[k]]  BY <1>2
<1>9. HasTracks(trks', ntrks')  BY <1>1, <1>4, <1>7, <1>8 DEF HasTracks
<1>10. Chosen'
  <2>1. /\ o \in [format : {-1, 0, 1, 2}, pack_tracks : BOOLEAN, no_retrigger : BOOLEAN,
                  all : BOOLEAN, range : BOOLEAN, begin : Int, end : Int, detached : Int]
        /\ o.range => o.begin < o.end
    BY OptionAssumption
  <2>2. /\ opt'.format \in 0..2 /\ opt'.pack_tracks = o.pack_tracks /\ opt'.range = o.range
        /\ opt'.begin = o.begin /\ opt'.end = o.end /\ opt'.detached = o.detached
    BY <1>2, <2>1
  <2>. QED  BY <2>1, <2>2 DEF Chosen
<1>. QED  BY <1>1, <1>9, <1>10

-----------------------------------------------------------------------------
(* post_process of one track after another.                                *)
Scans == stage \in {"check", "event"}
Scanning ==
  /\ tk \in 0..ntrks /\ stage \in {"check", "event", "done", "error"} /\ ScanInv
  /\ Scans => tk # 0
  /\ tk # 0 => req = Asked
Done(T) ==
  /\ \A k \in 1..ntrks : k < tk => Timed(trks[k].events, T)
  /\ stage = "done" /\ tk # 0 => Timed(tmp, T)

LEMMA AsksAsked == ASSUME Chosen  PROVE Asks(Asked)
<1>1. r_max \in Nat /\ r_max > 0  BY BoundAssumption DEF r_max
<1>2. Asks(Again)  BY <1>1 DEF Again, Asks
<1>3. Asks(Cutting)
  <2>1. CASE opt.range  BY <2>1 DEF Chosen, Cutting, Asks
  <2>2. CASE ~opt.range  BY <1>1, <2>2 DEF Chosen, Cutting, Asks
  <2>. QED  BY <2>1, <2>2
<1>. QED  BY <1>2, <1>3 DEF Asked

LEMMA Replaced ==
  ASSUME HasTracks(trks, ntrks), tk \in 0..ntrks, NEW T \in SUBSET Nat,
         \A k \in 1..ntrks : k < tk => Timed(trks[k].events, T),
         tk # 0 => Timed(tmp, T),
         NEW l \in 1..(ntrks + 1), tk < l,
         \A j \in 1..ntrks : tk < j /\ j < l => trks[j].events = <<>>
  PROVE  /\ HasTracks(replaced, ntrks)
         /\ \A j \in 1..ntrks : j < l => Timed(replaced[j].events, T)
         /\ \A j \in 1..ntrks : ~(j < l) => replaced[j] = trks[j]
<1>1. ntrks \in Nat /\ tk \in Nat  BY DEF HasTracks
<1>2. ASSUME NEW j \in 1..ntrks, j < l, j # tk  PROVE Timed(trks[j].events, T)
  <2>1. CASE j < tk  BY <2>1
  <2>2. CASE tk < j  BY <1>2, <2>2, TimedEmpty
  <2>. QED  BY <1>1, <1>2, <2>1, <2>2
<1>3. CASE tk = 0
  <2>1. replaced = trks  BY <1>3 DEF replaced
  <2>2. \A j \in 1..ntrks : j # tk  BY <1>3
  <2>. QED  BY <1>2, <2>1, <2>2
<1>4. CASE tk # 0
  <2>. DEFINE t == Renumbered(tmp, partner)
  <2>1. tk \in 1..ntrks /\ Timed(tmp, T)  BY <1>1, <1>4
  <2>2. Timed(t.events, T) /\ Rising(t.events) /\ t = Track(t.events, t.partners)
    BY <2>1, RenumberedRises
  <2>3. replaced = [trks EXCEPT ![tk] = t]  BY <1>4 DEF replaced
  <2>. HIDE DEF t
  <2>4. IsTrack(t)
    <3>1. PICK e, p : e = t.events /\ p = t.partners  OBVIOUS
    <3>2. t = Track(e, p) /\ Rising(e)  BY <2>2, <3>1
    <3>. QED  BY <3>2, OfTrack
  <2>5. /\ HasTracks(replaced, ntrks)
        /\ \A j \in 1..ntrks : replaced[j] = IF j = tk THEN t ELSE trks[j]
    <3>1. PICK u, x, n, m : u = trks /\ x = t /\ n = ntrks /\ m = tk  OBVIOUS
    <3>2. HasTracks(u, n) /\ m \in 1..n /\ IsTrack(x)  BY <2>1, <2>4, <3>1
    <3>3. /\ HasTracks([u EXCEPT ![m] = x], n)
          /\ \A j \in 1..n : [u EXCEPT ![m] = x][j] = IF j = m THEN x ELSE u[j]
      BY <3>2, PutTrack
    <3>4. replaced = [u EXCEPT ![m] = x]  BY <2>3, <3>1
    <3>. QED  BY <3>1, <3>3, <3>4
  <2>6. \A j \in 1..ntrks : ~(j < l) => j # tk  BY <1>1
  <2>. QED  BY <1>2, <2>2, <2>5, <2>6
<1>. QED  BY <1>3, <1>4

(* The next track is the next that has events.                             *)
LEMMA TheNext ==
  ASSUME ntrks \in Nat, tk \in 0..ntrks, Following # {}
  PROVE  /\ Min(Following) \in 1..ntrks /\ tk < Min(Following)
         /\ trks[Min(Following)].events # <<>>
         /\ \A j \in 1..ntrks : tk < j /\ j < Min(Following) => trks[j].events = <<>>
<1>1. Following \in SUBSET Nat /\ Following \subseteq 1..ntrks  BY DEF Following
<1>2. PICK m : m = Min(Following)  OBVIOUS
<1>3. m \in Following /\ \A x \in Following : m <= x  BY <1>1, <1>2, MinOf
<1>4. m \in (tk + 1)..ntrks /\ trks[m].events # <<>>  BY <1>3 DEF Following
<1>5. ASSUME NEW j \in 1..ntrks, tk < j, j < m, trks[j].events # <<>>  PROVE FALSE
  <2>1. j \in (tk + 1)..ntrks  BY <1>5
  <2>2. j \in Following  BY <1>5, <2>1 DEF Following
  <2>. QED  BY <1>3, <1>4, <1>5, <2>2
<1>. QED  BY <1>2, <1>4, <1>5

LEMMA NextTrack ==
  ASSUME HasTracks(trks, ntrks), Chosen, Scanning, next_track, NEW T \in SUBSET Nat, Done(T)
  PROVE  /\ HasTracks(trks', ntrks') /\ Chosen' /\ Scanning'
         /\ stage' = "check" /\ tk' # 0 /\ input' = trks[tk'].events /\ tk' \in 1..ntrks
         /\ UNCHANGED <<max_time, ntrks, phase, opt, end_of_song, prev_tk, prev_time, mfp>>
         /\ \A k \in 1..ntrks : k < tk' => Timed(trks'[k].events, T)
         /\ \A k \in 1..ntrks : ~(k < tk') => trks'[k] = trks[k]
<1>. DEFINE k == Min(Following)
<1>1. /\ phase \in {"post", "again"} /\ stage = "done" /\ Following # {}
      /\ Begin(trks[k].events, trks[k].partners, Asked) /\ tk' = k
      /\ trks' = replaced
      /\ UNCHANGED <<max_time, ntrks, phase, opt, end_of_song, prev_tk, prev_time, mfp>>
  BY DEF next_track
<1>2. ntrks \in Nat /\ tk \in 0..ntrks  BY DEF HasTracks, Scanning
<1>3. /\ k \in 1..ntrks /\ tk < k /\ trks[k].events # <<>>
      /\ \A j \in 1..ntrks : tk < j /\ j < k => trks[j].events = <<>>
  BY <1>1, <1>2, TheNext
<1>. HIDE DEF k
<1>4. Asks(Asked)  BY AsksAsked
<1>5. Rising(trks[k].events)  BY <1>3 DEF HasTracks, IsTrack
<1>6. ScanInv' /\ stage' = "check"  BY <1>1, <1>3, <1>4, <1>5, BeginStep
<1>7. input' = trks[k].events /\ req' = Asked  BY <1>1 DEF Begin
<1>8. Asked' = Asked  BY <1>1 DEF Asked, Cutting, Again
<1>9. Scanning'  BY <1>1, <1>2, <1>3, <1>6, <1>7, <1>8 DEF Scanning, Scans
<1>10. Chosen'  BY <1>1 DEF Chosen
<1>11. /\ \A j \in 1..ntrks : j < tk => Timed(trks[j].events, T)
       /\ tk # 0 => Timed(tmp, T)
  BY <1>1 DEF Done
<1>12. k \in 1..(ntrks + 1)  BY <1>2, <1>3
<1>13. /\ HasTracks(replaced, ntrks)
       /\ \A j \in 1..ntrks : j < k => Timed(replaced[j].events, T)
       /\ \A j \in 1..ntrks : ~(j < k) => replaced[j] = trks[j]
  BY <1>2, <1>3, <1>11, <1>12, Replaced
<1>. QED  BY <1>1, <1>3, <1>6, <1>7, <1>9, <1>10, <1>13

LEMMA ScanKeeps ==
  ASSUME Scan
  PROVE  Scans /\ UNCHANGED <<input, req>>
<1>1. CASE check_range  BY <1>1 DEF check_range, Scans
<1>2. CASE E_NoteOn \/ E_NoteOff \/ E_AllNotesOff \/ E_ResetAllCtrl \/ E_RPN \/ E_Text
           \/ E_TimeSig \/ Other
  BY <1>2 DEF E_NoteOn, E_NoteOff, E_AllNotesOff, E_ResetAllCtrl, E_RPN, E_Text, E_TimeSig,
              Other, Case, Scans
<1>3. CASE E_Ctrl  BY <1>3 DEF E_Ctrl, Scans
<1>4. CASE finish  BY <1>4 DEF finish, Scans
<1>. QED  BY <1>1, <1>2, <1>3, <1>4 DEF Scan

LEMMA Longer ==
  ASSUME ScanInv, max_time \in Nat, Scan
  PROVE  max_time' \in Nat /\ max_time <= max_time'
<1>1. CASE finish  BY <1>1, FinishStep
<1>2. CASE ~finish
  <2>1. max_time' = max_time
    BY <1>2 DEF Scan, check_range, E_NoteOn, E_NoteOff, E_AllNotesOff, E_ResetAllCtrl, E_RPN,
                E_Text, E_TimeSig, Other, Case, E_Ctrl
  <2>. QED  BY <2>1
<1>. QED  BY <1>1, <1>2

LEMMA ScanTrack ==
  ASSUME Scanning, Chosen, max_time \in Nat, ntrks \in Nat, scan
  PROVE  /\ Scanning' /\ Chosen' /\ max_time' \in Nat /\ max_time <= max_time'
         /\ UNCHANGED <<outVars, input, req>> /\ Scans /\ tk # 0
         /\ stage' = "done" => Timed(tmp', 0..Max({0, length'}))
<1>1. Scan /\ UNCHANGED outVars  BY DEF scan
<1>2. UNCHANGED <<trks, ntrks, phase, tk, opt, end_of_song, prev_tk, prev_time, vmag, mfp>>
  BY <1>1 DEF outVars
<1>3. Scans /\ UNCHANGED <<input, req>>  BY <1>1, ScanKeeps
<1>4. max_time' \in Nat /\ max_time <= max_time'  BY <1>1, Longer DEF Scanning
<1>5. /\ ScanInv' /\ stage' \in {"check", "event", "done", "error"}
      /\ stage' = "done" => Timed(tmp', 0..Max({0, length'}))
  BY <1>1, ScanStep DEF Scanning
<1>6. Asked' = Asked  BY <1>2 DEF Asked, Cutting, Again
<1>7. Scanning'  BY <1>2, <1>3, <1>5, <1>6 DEF Scanning
<1>8. Chosen'  BY <1>2 DEF Chosen
<1>9. tk # 0  BY <1>3 DEF Scanning
<1>. QED  BY <1>1, <1>3, <1>4, <1>5, <1>7, <1>8, <1>9

-----------------------------------------------------------------------------
(* Selected tracks are cut one after another.                              *)
Song == HasTracks(trks, ntrks) /\ Chosen
Unwritten == prev_tk = -1 /\ prev_time = 0 /\ max_time \in Nat
Lasts == \E M \in Nat : end_of_song = ConvTime(M) /\ Within(trks, ntrks, 0..M)
Spanned == 0..Max({0, max_time - Cutting.begin})

Collecting == HasTracks(trks, NTracks) /\ tk \in 1..NTracks /\ Unwritten
Posting == Song /\ Unwritten /\ Scanning /\ Done(Spanned)
Merging == Song /\ Unwritten /\ Lasts /\ stage = "done"

LEMMA CuttingFrom ==
  ASSUME Chosen
  PROVE  Cutting.begin \in Int /\ (req = Cutting => begin_time = Cutting.begin)
<1>1. CASE opt.range  BY <1>1 DEF Chosen, Cutting, begin_time, Does
<1>2. CASE ~opt.range
  <2>1. Cutting.begin = 0  BY <1>2 DEF Cutting
  <2>2. ~("TimeRange" \in Cutting.oprs)  BY <1>2 DEF Cutting
  <2>. QED  BY <2>1, <2>2 DEF begin_time, Does
<1>. QED  BY <1>1, <1>2

LEMMA SpannedNat == Spanned \in SUBSET Nat
BY DEF Spanned

LEMMA CollectingDetach ==
  ASSUME Collecting, smfout_detach
  PROVE  Posting' /\ phase' = "post"
<1>1. /\ HasTracks(trks', ntrks') /\ Chosen' /\ phase' = "post" /\ tk' = 0
      /\ stage' = "done" /\ UNCHANGED <<max_time, prev_tk, prev_time, mfp>>
  BY DetachStep DEF Collecting
<1>2. 0 \in 0..ntrks'  BY <1>1 DEF HasTracks
<1>3. Scanning'  BY <1>1, <1>2 DEF Scanning, Scans, ScanInv
<1>4. \A k \in 1..ntrks' : ~(k < tk')  BY <1>1, <1>2
<1>5. Done(Spanned)'  BY <1>1, <1>4 DEF Done
<1>. QED  BY <1>1, <1>3, <1>5 DEF Posting, Song, Unwritten, Collecting

LEMMA PostingNext ==
  ASSUME Posting, phase = "post", next_track
  PROVE  Posting' /\ phase' = "post"
<1>1. /\ HasTracks(trks', ntrks') /\ Chosen' /\ Scanning'
      /\ stage' = "check"
      /\ UNCHANGED <<max_time, ntrks, phase, opt, end_of_song, prev_tk, prev_time, mfp>>
      /\ \A k \in 1..ntrks : k < tk' => Timed(trks'[k].events, Spanned)
  BY NextTrack, SpannedNat DEF Posting, Song
<1>2. Spanned' = Spanned  BY <1>1 DEF Spanned, Cutting
<1>3. Done(Spanned)'  BY <1>1, <1>2 DEF Done
<1>. QED  BY <1>1, <1>3 DEF Posting, Song, Unwritten

LEMMA PostingScan ==
  ASSUME Posting, phase = "post", scan
  PROVE  Posting' /\ phase' = "post"
<1>1. HasTracks(trks, ntrks) /\ ntrks \in Nat /\ Chosen /\ max_time \in Nat /\ Scanning
  BY DEF Posting, Song, Unwritten, HasTracks
<1>2. /\ Scanning' /\ Chosen' /\ max_time' \in Nat /\ max_time <= max_time'
      /\ UNCHANGED <<outVars, input, req>> /\ Scans /\ tk # 0
      /\ stage' = "done" => Timed(tmp', 0..Max({0, length'}))
  BY <1>1, ScanTrack
<1>3. UNCHANGED <<trks, ntrks, phase, tk, opt, end_of_song, prev_tk, prev_time, mfp>>
  BY <1>2 DEF outVars
<1>4. PICK b : b = Cutting.begin  OBVIOUS
<1>5. b \in Int /\ Cutting' = Cutting /\ req = Cutting
  BY <1>1, <1>2, <1>3, <1>4, CuttingFrom DEF Cutting, Scanning, Asked
<1>6. begin_time = b /\ begin_time' = begin_time
  BY <1>1, <1>2, <1>4, <1>5, CuttingFrom DEF begin_time, Does
<1>7. length' = max_time' - b  BY <1>6 DEF length
<1>8. Spanned = 0..Max({0, max_time - b}) /\ Spanned' = 0..Max({0, max_time' - b})
  BY <1>4, <1>5 DEF Spanned
<1>9. Spanned \subseteq Spanned'
  <2>1. max_time \in Nat /\ max_time' \in Nat /\ max_time <= max_time' /\ b \in Int
    BY <1>1, <1>2, <1>5
  <2>2. PICK x, y : x = max_time /\ y = max_time'  OBVIOUS
  <2>3. x \in Nat /\ y \in Nat /\ x <= y /\ b \in Int  BY <2>1, <2>2
  <2>4. x - b \in Int /\ y - b \in Int /\ x - b <= y - b  BY <2>3
  <2>. DEFINE u == x - b
              v == y - b
  <2>5. u \in Int /\ v \in Int /\ u <= v  BY <2>4
  <2>6. Spanned = 0..Max({0, u}) /\ Spanned' = 0..Max({0, v})  BY <1>8, <2>2
  <2>. HIDE DEF u, v
  <2>7. 0..Max({0, u}) \subseteq 0..Max({0, v})  BY <2>5, Length
  <2>. QED  BY <2>6, <2>7
<1>10. \A k \in 1..ntrks : k < tk => Timed(trks[k].events, Spanned')
  BY <1>9, TimedMore DEF Posting, Done
<1>11. Done(Spanned)'  BY <1>2, <1>3, <1>7, <1>8, <1>10 DEF Done
<1>12. Song'  BY <1>1, <1>2, <1>3 DEF Song
<1>. QED  BY <1>2, <1>3, <1>11, <1>12 DEF Posting, Unwritten

(* Behind the last track all of them are replaced.                         *)
LEMMA LastReplaced ==
  ASSUME HasTracks(trks, ntrks), Scanning, stage = "done", Following = {},
         NEW T \in SUBSET Nat, Done(T)
  PROVE  HasTracks(replaced, ntrks) /\ Within(replaced, ntrks, T)
<1>1. ntrks \in Nat /\ tk \in 0..ntrks  BY DEF HasTracks, Scanning
<1>2. PICK l : l = ntrks + 1  OBVIOUS
<1>3. l \in 1..(ntrks + 1) /\ tk < l  BY <1>1, <1>2
<1>4. ASSUME NEW j \in 1..ntrks, tk < j, trks[j].events # <<>>  PROVE FALSE
  <2>1. j \in (tk + 1)..ntrks  BY <1>1, <1>4
  <2>. QED  BY <1>4, <2>1 DEF Following
<1>5. /\ \A k \in 1..ntrks : k < tk => Timed(trks[k].events, T)
      /\ tk # 0 => Timed(tmp, T)
  BY DEF Done
<1>6. /\ HasTracks(replaced, ntrks)
      /\ \A j \in 1..ntrks : j < l => Timed(replaced[j].events, T)
  BY <1>1, <1>3, <1>4, <1>5, Replaced
<1>7. \A j \in 1..ntrks : j < l  BY <1>1, <1>2
<1>. QED  BY <1>6, <1>7 DEF Within

LEMMA PostingEnd ==
  ASSUME Posting, end_post
  PROVE  Merging' /\ phase' \in {"merge", "supply"}
<1>1. /\ Song /\ Unwritten /\ Scanning /\ Done(Spanned)
      /\ HasTracks(trks, ntrks) /\ Chosen /\ max_time \in Nat
  BY DEF Posting, Song, Unwritten
<1>. DEFINE len == max_time - Cutting.begin
            len2 == opt.detached - Cutting.begin
            M == Max({0, len, len2})
<1>2. /\ stage = "done" /\ Following = {} /\ trks' = replaced /\ phase' \in {"merge", "supply"}
      /\ end_of_song' = ConvTime(M)
      /\ UNCHANGED <<vars, ntrks, opt, prev_tk, prev_time, mfp>>
  BY DEF end_post
<1>3. stage' = stage /\ max_time' = max_time  BY <1>2 DEF vars
<1>4. len \in Int /\ len2 \in Int  BY <1>1, CuttingFrom DEF Chosen
<1>5. Spanned = 0..Max({0, len})  BY DEF Spanned
<1>. HIDE DEF len, len2
<1>6. M \in Nat /\ Max({0, len}) <= M /\ Max({0, len}) \in Nat
  BY <1>4, MaxOfThree, Length
<1>7. HasTracks(replaced, ntrks) /\ Within(replaced, ntrks, Spanned)
  BY <1>1, <1>2, LastReplaced, SpannedNat
<1>. HIDE DEF M
<1>8. Spanned \subseteq 0..M  BY <1>5, <1>6
<1>9. Within(trks', ntrks', 0..M)  BY <1>2, <1>7, <1>8, TimedMore DEF Within
<1>10. Lasts'  BY <1>2, <1>6, <1>9 DEF Lasts
<1>11. Song'  BY <1>1, <1>2, <1>7 DEF Song, Chosen
<1>. QED  BY <1>1, <1>2, <1>3, <1>10, <1>11 DEF Merging, Unwritten

-----------------------------------------------------------------------------
(* Format 0: the tracks become one, which is retriggered again.            *)
Repeats ==
  \E M \in Nat : /\ end_of_song = ConvTime(M) /\ Within(trks, ntrks, 0..M)
                 /\ Scans => Timed(input, 0..M)
                 /\ stage = "done" /\ tk # 0 => Timed(tmp, 0..M)
Retriggering == Song /\ Unwritten /\ Scanning /\ Repeats

LEMMA MergingMerge ==
  ASSUME Merging, merge_all_tracks
  PROVE  (phase' = "supply" \/ (phase' = "again" /\ Retriggering')) /\ Merging'
<1>. DEFINE moved(k) == [i \in DOMAIN trks[k].events |->
                          [trks[k].events[i] EXCEPT !.id = i + Offset(k)]]
            q == [k \in 1..ntrks |-> moved(k)]
            all == FlattenSeq(q)
<1>1. /\ ntrks' = 1 /\ tk' = 0 /\ phase' \in {"supply", "again"}
      /\ UNCHANGED <<vars, opt, end_of_song, prev_tk, prev_time, mfp>>
      /\ \E p : trks' = <<Renumbered(all, p)>>
  BY DEF merge_all_tracks
<1>2. HasTracks(trks, ntrks) /\ Chosen /\ Unwritten /\ stage = "done" /\ ntrks \in Nat
  BY DEF Merging, Song, HasTracks
<1>3. stage' = stage /\ max_time' = max_time  BY <1>1 DEF vars
<1>4. PICK M \in Nat : end_of_song = ConvTime(M) /\ Within(trks, ntrks, 0..M)
  BY DEF Merging, Lasts
<1>5. ASSUME NEW k \in 1..ntrks  PROVE Timed(q[k], 0..M)
  <2>. DEFINE e == trks[k].events
              s == moved(k)
  <2>1. Timed(e, 0..M)  BY <1>4 DEF Within
  <2>2. \A i \in DOMAIN e : \E x : s[i] = [e[i] EXCEPT !.id = x]  OBVIOUS
  <2>3. s = [i \in DOMAIN e |-> s[i]]  OBVIOUS
  <2>. HIDE DEF e, s
  <2>4. Timed(s, 0..M)  BY <2>1, <2>2, <2>3, NamedTimed
  <2>. QED  BY <2>4 DEF s
<1>6. DOMAIN q = 1..ntrks /\ q = [k \in DOMAIN q |-> q[k]]  OBVIOUS
<1>. HIDE DEF q
<1>7. Timed(all, 0..M)  BY <1>2, <1>5, <1>6, TimedFlat
<1>. HIDE DEF all
<1>8. PICK p : trks' = <<Renumbered(all, p)>>  BY <1>1
<1>. DEFINE r == Renumbered(all, p)
<1>9. Timed(r.events, 0..M) /\ Rising(r.events) /\ r = Track(r.events, r.partners)
  <2>1. 0..M \in SUBSET Nat  BY <1>4
  <2>. QED  BY <1>7, <2>1, RenumberedRises
<1>10. trks' = <<r>>  BY <1>8
<1>. HIDE DEF r
<1>11. IsTrack(r)
  <2>1. PICK e, x : e = r.events /\ x = r.partners  OBVIOUS
  <2>2. r = Track(e, x) /\ Rising(e)  BY <1>9, <2>1
  <2>. QED  BY <2>2, OfTrack
<1>12. trks' = [k \in 1..1 |-> trks'[k]] /\ \A k \in 1..1 : trks'[k] = r  BY <1>10
<1>13. HasTracks(trks', ntrks') /\ Within(trks', ntrks', 0..M)
  BY <1>1, <1>9, <1>11, <1>12 DEF HasTracks, Within
<1>14. Song' /\ Unwritten'
  BY <1>1, <1>2, <1>3, <1>13 DEF Song, Chosen, Unwritten
<1>15. end_of_song' = ConvTime(M)  BY <1>1, <1>4
<1>16. Lasts' /\ Repeats'  BY <1>1, <1>2, <1>3, <1>4, <1>13, <1>15 DEF Lasts, Repeats, Scans
<1>17. Scanning'  BY <1>1, <1>2, <1>3 DEF Scanning, Scans, ScanInv
<1>. QED  BY <1>1, <1>2, <1>3, <1>14, <1>16, <1>17 DEF Merging, Retriggering

LEMMA RepeatsWithin ==
  ASSUME Retriggering
  PROVE  \E M \in Nat : /\ end_of_song = ConvTime(M) /\ Within(trks, ntrks, 0..M)
                        /\ Scans => Timed(input, 0..M)
                        /\ stage = "done" /\ tk # 0 => Timed(tmp, 0..M)
                        /\ 0..M \in SUBSET Nat /\ (stage = "done" => Done(0..M))
<1>1. PICK M \in Nat : /\ end_of_song = ConvTime(M) /\ Within(trks, ntrks, 0..M)
                       /\ Scans => Timed(input, 0..M)
                       /\ stage = "done" /\ tk # 0 => Timed(tmp, 0..M)
  BY DEF Retriggering, Repeats
<1>2. stage = "done" => Done(0..M)  BY <1>1 DEF Done, Within
<1>. QED  BY <1>1, <1>2

LEMMA RetriggeringNext ==
  ASSUME Retriggering, next_track
  PROVE  Retriggering' /\ phase' = phase
<1>1. PICK M \in Nat : /\ end_of_song = ConvTime(M) /\ Within(trks, ntrks, 0..M)
                       /\ 0..M \in SUBSET Nat /\ (stage = "done" => Done(0..M))
  BY RepeatsWithin
<1>2. stage = "done"  BY DEF next_track
<1>3. /\ HasTracks(trks', ntrks') /\ Chosen' /\ Scanning'
      /\ stage' = "check" /\ input' = trks[tk'].events /\ tk' \in 1..ntrks
      /\ UNCHANGED <<max_time, ntrks, phase, opt, end_of_song, prev_tk, prev_time, mfp>>
      /\ \A k \in 1..ntrks : k < tk' => Timed(trks'[k].events, 0..M)
      /\ \A k \in 1..ntrks : ~(k < tk') => trks'[k] = trks[k]
  BY <1>1, <1>2, NextTrack DEF Retriggering, Song
<1>4. Within(trks', ntrks', 0..M)  BY <1>1, <1>3 DEF Within
<1>5. Timed(input', 0..M)  BY <1>1, <1>3 DEF Within
<1>6. Repeats'  BY <1>1, <1>3, <1>4, <1>5 DEF Repeats
<1>. QED  BY <1>3, <1>6 DEF Retriggering, Song, Unwritten

LEMMA OnlyFinish ==
  ASSUME Scan, stage' = "done"
  PROVE  finish
<1>1. CASE check_range  BY <1>1 DEF check_range
<1>2. CASE E_NoteOn \/ E_NoteOff \/ E_AllNotesOff \/ E_ResetAllCtrl \/ E_RPN \/ E_Text
           \/ E_TimeSig \/ Other
  BY <1>2 DEF E_NoteOn, E_NoteOff, E_AllNotesOff, E_ResetAllCtrl, E_RPN, E_Text, E_TimeSig,
              Other, Case
<1>3. CASE E_Ctrl  BY <1>3 DEF E_Ctrl
<1>. QED  BY <1>1, <1>2, <1>3 DEF Scan

LEMMA RetriggeringScan ==
  ASSUME Retriggering, phase = "again", scan
  PROVE  Retriggering' /\ phase' = "again"
<1>1. HasTracks(trks, ntrks) /\ ntrks \in Nat /\ Chosen /\ max_time \in Nat /\ Scanning
  BY DEF Retriggering, Song, Unwritten, HasTracks
<1>2. /\ Scanning' /\ Chosen' /\ max_time' \in Nat
      /\ UNCHANGED <<outVars, input, req>> /\ Scans /\ tk # 0
  BY <1>1, ScanTrack
<1>3. UNCHANGED <<trks, ntrks, phase, tk, opt, end_of_song, prev_tk, prev_time, mfp>>
  BY <1>2 DEF outVars
<1>4. PICK M \in Nat : /\ end_of_song = ConvTime(M) /\ Within(trks, ntrks, 0..M)
                       /\ Timed(input, 0..M)
  BY <1>2, RepeatsWithin
<1>5. ASSUME stage' = "done"  PROVE Timed(tmp', 0..M)
  <2>1. finish  BY <1>5, OnlyFinish DEF scan
  <2>2. req = Again  BY <1>1, <1>2 DEF Scanning, Asked
  <2>3. begin_time = 0  BY <2>2 DEF begin_time, Does, Again
  <2>4. Positions /\ InRange /\ ScanInv  BY <1>1, <1>2 DEF Scanning, Scans, ScanInv
  <2>5. Len(input) \in DOMAIN input /\ input[Len(input)].time \in 0..M
    <3>1. Len(input) \in Nat /\ DOMAIN input = 1..Len(input) /\ input # <<>>
      BY <2>4, Places DEF Positions
    <3>2. Len(input) # 0
      <4>1. input \in Seq(Elements(input))  BY <1>4 DEF Timed
      <4>. QED  BY <3>1, <4>1, EmptySeq
    <3>3. Len(input) \in DOMAIN input  BY <3>1, <3>2
    <3>. QED  BY <1>4, <3>3 DEF Timed, Fit
  <2>6. Term <= M
    <3>1. cur_time \in Nat /\ cur_time <= input[Len(input)].time /\ output \in 0..3
          /\ term_time \in Int
      BY <2>4 DEF Positions
    <3>2. output = 3 => term_time <= cur_time  BY <2>4 DEF InRange
    <3>3. cur_time <= M  BY <2>5, <3>1
    <3>. QED  BY <3>1, <3>2, <3>3 DEF Term
  <2>7. Timed(tmp', 0..Max({0, M - begin_time}))  BY <1>4, <2>1, <2>4, <2>6, FinishTimed
  <2>8. M - begin_time = M /\ M \in Int  BY <2>3
  <2>9. Max({0, M}) = M  BY <2>8, Length
  <2>. QED  BY <2>7, <2>8, <2>9
<1>6. Timed(input', 0..M)  BY <1>2, <1>4
<1>7. Repeats'  BY <1>3, <1>4, <1>5, <1>6 DEF Repeats, Within
<1>. QED  BY <1>1, <1>2, <1>3, <1>7 DEF Retriggering, Song, Unwritten

LEMMA RetriggeringEnd ==
  ASSUME Retriggering, end_again
  PROVE  Merging' /\ phase' = "supply"
<1>1. PICK M \in Nat : /\ end_of_song = ConvTime(M) /\ 0..M \in SUBSET Nat
                       /\ (stage = "done" => Done(0..M))
  BY RepeatsWithin
<1>2. /\ stage = "done" /\ Following = {} /\ trks' = replaced /\ phase' = "supply"
      /\ UNCHANGED <<vars, ntrks, opt, end_of_song, prev_tk, prev_time, mfp>>
  BY DEF end_again
<1>3. stage' = stage /\ max_time' = max_time  BY <1>2 DEF vars
<1>4. HasTracks(trks, ntrks) /\ Chosen /\ Unwritten /\ Scanning  BY DEF Retriggering, Song
<1>5. HasTracks(replaced, ntrks) /\ Within(replaced, ntrks, 0..M)
  BY <1>1, <1>2, <1>4, LastReplaced
<1>6. Lasts'  BY <1>1, <1>2, <1>5 DEF Lasts
<1>. QED  BY <1>2, <1>3, <1>4, <1>5, <1>6 DEF Merging, Song, Chosen, Unwritten

-----------------------------------------------------------------------------
(* The writing of the file.  The chunks so far are those of the tracks up  *)
(* to the last one that was begun, and the events still to come on it are  *)
(* not earlier than the last event that was written.                       *)
Active(n) == {k \in 1..n : trks[k].events # <<>>}
Chunked(p) == IF opt.pack_tracks THEN Cardinality(Active(p + 1)) ELSE p + 1

FileSoFar ==
  IF prev_tk # -1 THEN Open(mfp, Chunked(prev_tk), prev_time) ELSE Shut(mfp, Chunked(prev_tk))

AtTrack ==
  /\ tk \in 1..(ntrks + 1) /\ pos \in Nat \ {0}
  /\ prev_tk \in -1..(tk - 1) /\ prev_tk < ntrks
  /\ tk <= ntrks /\ prev_tk # tk - 1 => pos = 1
  /\ \A k \in 1..ntrks : k < tk /\ trks[k].events # <<>> => k <= prev_tk + 1
OnTime ==
  /\ end_of_song \in Nat /\ prev_time \in 0..end_of_song
  /\ prev_tk = tk - 1 /\ tk <= ntrks =>
       \A i \in DOMAIN trks[tk].events : i >= pos => prev_time <= ConvTime(trks[tk].events[i].time)
Writing ==
  /\ Song /\ Lasts /\ AtTrack /\ OnTime
  /\ \E k \in 1..ntrks : trks[k].events # <<>>
  /\ FileSoFar
  /\ mfp.ntracks = HeaderTracks(trks)

LEMMA EventsOf ==
  ASSUME NEW ts, NEW n, HasTracks(ts, n), NEW k \in 1..n
  PROVE  /\ Len(ts[k].events) \in Nat /\ DOMAIN ts[k].events = 1..Len(ts[k].events)
         /\ Rising(ts[k].events) /\ Timed(ts[k].events, Nat)
         /\ ts[k].events = <<>> <=> Len(ts[k].events) = 0
<1>. DEFINE e == ts[k].events
<1>1. Rising(e)  BY DEF HasTracks, IsTrack
<1>. HIDE DEF e
<1>2. e \in Seq(Elements(e)) /\ Timed(e, Nat)  BY <1>1 DEF Rising, Timed
<1>3. Len(e) \in Nat /\ DOMAIN e = 1..Len(e) /\ (e = <<>> <=> Len(e) = 0)
  BY <1>2, LenProperties, EmptySeq
<1>. QED  BY <1>1, <1>2, <1>3 DEF e

LEMMA ActiveSet ==
  ASSUME NEW n \in Nat
  PROVE  /\ IsFiniteSet(Active(n)) /\ Cardinality(Active(n)) \in Nat
         /\ n = 0 => Cardinality(Active(n)) = 0
<1>1. IsFiniteSet(1..n)  BY FS_Interval
<1>2. Active(n) \subseteq 1..n  BY DEF Active
<1>3. IsFiniteSet(Active(n))  BY <1>1, <1>2, FS_Subset
<1>4. n = 0 => Active(n) = {}  BY DEF Active
<1>. QED  BY <1>3, <1>4, FS_CardinalityType, FS_EmptySet

(* What is supplied has the time 0.                                        *)
LEMMA FrontRises ==
  ASSUME NEW new, Timed(new, {0}), NEW e, Rising(e), NEW M \in Nat, Timed(e, 0..M)
  PROVE  /\ Rising(new \o e) /\ Timed(new \o e, 0..M)
         /\ e # <<>> => new \o e # <<>>
<1>. DEFINE a == new \o e
<1>1. Timed(new, 0..M) /\ Timed(new, Nat)  BY TimedMore
<1>2. Timed(e, Nat) /\ \A i, j \in DOMAIN e : i <= j => e[i].time <= e[j].time  BY DEF Rising
<1>3. Timed(a, 0..M) /\ Timed(a, Nat)  BY <1>1, <1>2, TimedJoin
<1>4. List(new) /\ List(e)  BY <1>2 DEF Timed, List
<1>5. /\ Len(new) \in Nat /\ Len(e) \in Nat /\ DOMAIN new = 1..Len(new) /\ DOMAIN e = 1..Len(e)
      /\ Len(a) = Len(new) + Len(e) /\ DOMAIN a = 1..(Len(new) + Len(e))
      /\ \A i \in 1..(Len(new) + Len(e)) : a[i] = IF i <= Len(new) THEN new[i] ELSE e[i - Len(new)]
  BY <1>4, ListJoin
<1>. HIDE DEF a
<1>6. \A i \in DOMAIN new : new[i].time = 0  BY DEF Timed, Fit
<1>7. \A i \in DOMAIN e : e[i].time \in Nat  BY <1>2 DEF Timed, Fit
<1>8. ASSUME NEW i \in DOMAIN a, NEW j \in DOMAIN a, i <= j  PROVE a[i].time <= a[j].time
  <2>1. CASE i <= Len(new)
    <3>1. a[i].time = 0  BY <1>5, <1>6, <2>1
    <3>2. a[j].time \in Nat  BY <1>3 DEF Timed, Fit
    <3>. QED  BY <3>1, <3>2
  <2>2. CASE ~(i <= Len(new))
    <3>1. i - Len(new) \in DOMAIN e /\ j - Len(new) \in DOMAIN e
          /\ i - Len(new) <= j - Len(new)
      BY <1>5, <1>8, <2>2
    <3>2. a[i] = e[i - Len(new)] /\ a[j] = e[j - Len(new)]  BY <1>5, <1>8, <2>2
    <3>. QED  BY <1>2, <3>1, <3>2
  <2>. QED  BY <2>1, <2>2
<1>9. Rising(a)  BY <1>3, <1>8 DEF Rising
<1>10. ASSUME e # <<>>, a = <<>>  PROVE FALSE
  <2>1. Len(e) # 0
    <3>1. e \in Seq(Elements(e))  BY <1>4 DEF List
    <3>. QED  BY <1>5, <1>10, <3>1, EmptySeq
  <2>. QED  BY <1>5, <1>10, <2>1, ListEmpty
<1>. QED  BY <1>3, <1>9, <1>10 DEF a

LEMMA SuppliedRises ==
  ASSUME NEW t, IsTrack(t), NEW M \in Nat, Timed(t.events, 0..M)
  PROVE  /\ IsTrack(Supplied(t)) /\ Timed(Supplied(t).events, 0..M)
         /\ t.events # <<>> => Supplied(t).events # <<>>
<1>1. Fit(TimeSig44, {0}) /\ Fit(Tempo120, {0})
  <2>1. DOMAIN TimeSig44 = Fields /\ TimeSig44.time = 0 /\ TimeSig44.type = "timesig"
    BY DEF TimeSig44, Event, Fields
  <2>2. /\ DOMAIN Tempo120 = Fields /\ Tempo120.time = 0 /\ Tempo120.type = "ctrl"
        /\ Tempo120.key = CHOOSE k \in Tempo : TRUE
    BY DEF Tempo120, Event, Fields
  <2>3. Tempo120.key \in Ctrl  BY <2>2, TempoAssumption, KeyAssumption
  <2>. QED  BY <2>1, <2>2, <2>3 DEF Fit, Keyed
<1>2. PICK x \in {<<>>, <<TimeSig44>>}, y \in {<<>>, <<Tempo120>>} :
        \E p : Supplied(t) = Track((x \o y) \o t.events, p)
  BY DEF Supplied
<1>11. PICK p : Supplied(t) = Track((x \o y) \o t.events, p)  BY <1>2
<1>. DEFINE new == x \o y
<1>3. Timed(new, {0})
  <2>1. Timed(x, {0}) /\ Timed(y, {0})  BY <1>1, TimedEmpty, TimedOne
  <2>. QED  BY <2>1, TimedJoin
<1>4. Supplied(t) = Track(new \o t.events, p)  BY <1>11
<1>. HIDE DEF new
<1>5. Rising(t.events)  BY DEF IsTrack
<1>6. PICK e : e = t.events  OBVIOUS
<1>7. /\ Rising(new \o e) /\ Timed(new \o e, 0..M)
      /\ e # <<>> => new \o e # <<>>
  BY <1>3, <1>5, <1>6, FrontRises
<1>. DEFINE a == new \o e
<1>8. Rising(a) /\ Timed(a, 0..M) /\ (e # <<>> => a # <<>>)  BY <1>7
<1>9. Supplied(t) = Track(a, p)  BY <1>4, <1>6
<1>. HIDE DEF a
<1>10. IsTrack(Track(a, p)) /\ Track(a, p).events = a  BY <1>8, OfTrack
<1>. QED  BY <1>6, <1>8, <1>9, <1>10

LEMMA MergingOpen ==
  ASSUME Merging, open_file
  PROVE  phase' = "no_genfile" \/ (phase' = "action" /\ Writing')
<1>1. Song /\ Unwritten /\ Lasts  BY DEF Merging
<1>2. SUFFICES ASSUME phase' # "no_genfile"  PROVE phase' = "action" /\ Writing'
  OBVIOUS
<1>3. /\ \E k \in 1..ntrks : trks[k].events # <<>>
      /\ trks' = [k \in 1..ntrks |-> IF NeedsTempo(k) THEN Supplied(trks[k]) ELSE trks[k]]
      /\ mfp' = [open |-> FALSE, ntracks |-> HeaderTracks(trks'), chunks |-> <<>>]
      /\ phase' = "action" /\ tk' = 1 /\ pos' = 1
      /\ UNCHANGED <<ntrks, opt, end_of_song, prev_tk, prev_time>>
  BY <1>2 DEF open_file
<1>4. PICK M \in Nat : end_of_song = ConvTime(M) /\ Within(trks, ntrks, 0..M)
  BY <1>1 DEF Lasts
<1>5. HasTracks(trks, ntrks) /\ ntrks \in Nat /\ Chosen  BY <1>1 DEF Song, HasTracks
<1>6. ASSUME NEW k \in 1..ntrks
      PROVE  /\ IsTrack(trks'[k]) /\ Timed(trks'[k].events, 0..M)
             /\ trks[k].events # <<>> => trks'[k].events # <<>>
  <2>1. PICK t : t = trks[k]  OBVIOUS
  <2>2. IsTrack(t) /\ Timed(t.events, 0..M)  BY <1>4, <1>5, <2>1 DEF HasTracks, Within
  <2>3. /\ IsTrack(Supplied(t)) /\ Timed(Supplied(t).events, 0..M)
        /\ t.events # <<>> => Supplied(t).events # <<>>
    BY <1>4, <2>2, SuppliedRises
  <2>4. trks'[k] = Supplied(t) \/ trks'[k] = t  BY <1>3, <2>1
  <2>. QED  BY <2>1, <2>2, <2>3, <2>4
<1>7. trks' = [k \in 1..ntrks |-> trks'[k]]  BY <1>3
<1>8. Song'  BY <1>3, <1>5, <1>6, <1>7 DEF Song, HasTracks, Chosen
<1>9. Lasts'  BY <1>3, <1>4, <1>6 DEF Lasts, Within
<1>10. prev_tk' = -1 /\ prev_time' = 0 /\ ntrks' \in Nat  BY <1>1, <1>3, <1>5 DEF Unwritten
<1>11. AtTrack'
  <2>1. \A k \in 1..ntrks' : ~(k < tk')  BY <1>3, <1>10
  <2>. QED  BY <1>3, <1>10, <2>1 DEF AtTrack
<1>12. OnTime'
  <2>1. end_of_song' \in Nat  BY <1>3, <1>4, ConvMonotone
  <2>. QED  BY <1>3, <1>10, <2>1 DEF OnTime
<1>13. Chunked(prev_tk)' = 0
  <2>1. Chunked(prev_tk)' = IF opt'.pack_tracks THEN Cardinality(Active(0)') ELSE 0
    BY <1>10 DEF Chunked
  <2>2. Active(0)' = {}  BY DEF Active
  <2>. QED  BY <2>1, <2>2, FS_EmptySet
<1>14. mfp'.chunks = <<>> /\ mfp'.open = FALSE /\ mfp'.ntracks = HeaderTracks(trks')
       /\ DOMAIN mfp' = {"open", "ntracks", "chunks"}
  BY <1>3
<1>15. FileSoFar'
  <2>1. prev_tk' = -1 /\ List(mfp'.chunks) /\ Len(mfp'.chunks) = 0
    BY <1>10, <1>14, ListEmpty
  <2>2. \A i \in 1..0 : FALSE  OBVIOUS
  <2>3. Shut(mfp, 0)'  BY <1>14, <2>1, <2>2 DEF Shut
  <2>. QED  BY <1>13, <2>1, <2>3 DEF FileSoFar
<1>16. mfp'.ntracks = HeaderTracks(trks)'  BY <1>3, <1>14 DEF HeaderTracks
<1>. QED  BY <1>3, <1>6, <1>8, <1>9, <1>11, <1>12, <1>15, <1>16 DEF Writing

-----------------------------------------------------------------------------
(* A deleted event keeps its time.                                         *)
Like(ts, us, n) ==
  \A k \in 1..n : /\ DOMAIN us[k].events = DOMAIN ts[k].events
                  /\ us[k].events = <<>> <=> ts[k].events = <<>>
                  /\ \A i \in DOMAIN ts[k].events : us[k].events[i].time = ts[k].events[i].time

LEMMA EmptyDomain == ASSUME NEW S, NEW s \in Seq(S)  PROVE s = <<>> <=> DOMAIN s = {}
<1>1. Len(s) \in Nat /\ DOMAIN s = 1..Len(s) /\ (s = <<>> <=> Len(s) = 0)
  BY LenProperties, EmptySeq
<1>2. Len(s) # 0 => 1 \in DOMAIN s  BY <1>1
<1>3. Len(s) = 0 => DOMAIN s = {}  BY <1>1
<1>. QED  BY <1>1, <1>2, <1>3

Deleted(s, p) == [s EXCEPT ![p].type = "deleted"]
LEMMA DeletedRises ==
  ASSUME NEW s, Rising(s), NEW p, NEW M \in Nat, Timed(s, 0..M),
         NEW z, z = Deleted(s, p)
  PROVE  /\ Rising(z) /\ Timed(z, 0..M) /\ DOMAIN z = DOMAIN s /\ (z = <<>> <=> s = <<>>)
         /\ \A i \in DOMAIN s : z[i].time = s[i].time
<1>. DEFINE n == Len(s)
<1>1. n \in Nat /\ DOMAIN s = 1..n /\ s \in Seq(Elements(s))
      /\ \A i \in 1..n : Fit(s[i], 0..M) /\ s[i].time \in Nat
  BY LenProperties DEF Timed, Fit
<1>2. DOMAIN z = DOMAIN s /\ z = [i \in DOMAIN s |-> z[i]]  BY <1>1 DEF Deleted
<1>3. ASSUME NEW i \in DOMAIN s
      PROVE  Fit(z[i], 0..M) /\ Fit(z[i], Nat) /\ z[i].time = s[i].time
  <2>1. Fit(s[i], 0..M) /\ s[i].time \in Nat  BY <1>1
  <2>2. CASE i # p
    <3>1. z[i] = s[i]  BY <1>1, <2>2 DEF Deleted
    <3>. QED  BY <2>1, <3>1 DEF Fit
  <2>3. CASE i = p
    <3>. DEFINE e == [s[i] EXCEPT !.type = "deleted"]
    <3>1. z[i] = e  BY <1>1, <2>3 DEF Deleted
    <3>2. DOMAIN s[i] = Fields /\ s[i].time \in 0..M  BY <2>1 DEF Fit
    <3>3. DOMAIN e = Fields /\ e.time = s[i].time /\ e.type = "deleted"
      BY <3>2 DEF Fields
    <3>. HIDE DEF e
    <3>. QED  BY <2>1, <3>1, <3>2, <3>3 DEF Fit, Keyed
  <2>. QED  BY <2>2, <2>3
<1>. HIDE DEF n
<1>4. z = [i \in DOMAIN z |-> z[i]]  BY <1>2
<1>5. Timed(z, 0..M) /\ Timed(z, Nat)  BY <1>1, <1>2, <1>3, <1>4, TimedMap
<1>6. Rising(z)  BY <1>2, <1>3, <1>5 DEF Rising
<1>7. z = <<>> <=> s = <<>>
  <2>1. z \in Seq(Elements(z)) /\ s \in Seq(Elements(s))  BY <1>1, <1>5 DEF Timed
  <2>. QED  BY <1>2, <2>1, EmptyDomain
<1>. QED  BY <1>2, <1>3, <1>5, <1>6, <1>7

LEMMA DroppedLike ==
  ASSUME HasTracks(trks, ntrks), NEW M \in Nat, Within(trks, ntrks, 0..M),
         tk \in 1..ntrks, NEW e
  PROVE  /\ HasTracks(Dropped(e), ntrks) /\ Within(Dropped(e), ntrks, 0..M)
         /\ Like(trks, Dropped(e), ntrks)
<1>1. CASE Dropped(e) = trks  BY <1>1 DEF Like
<1>2. CASE Dropped(e) # trks
  <2>1. PICK p : Dropped(e) = [trks EXCEPT ![tk].events[p].type = "deleted"]
    BY <1>2 DEF Dropped
  <2>2. PICK u, n, m, s, x : u = trks /\ n = ntrks /\ m = tk
                             /\ s = trks[tk].events /\ x = trks[tk].partners
    OBVIOUS
  <2>3. HasTracks(u, n) /\ m \in 1..n /\ Within(u, n, 0..M)  BY <2>2
  <2>4. Rising(s) /\ Timed(s, 0..M) /\ s = u[m].events
    BY <2>2, <2>3 DEF HasTracks, IsTrack, Within
  <2>0. PICK z : z = Deleted(s, p)  OBVIOUS
  <2>. DEFINE t == [u[m] EXCEPT !.events = z]
              d == [u EXCEPT ![m] = t]
  <2>5. /\ Rising(z) /\ Timed(z, 0..M) /\ DOMAIN z = DOMAIN s /\ (z = <<>> <=> s = <<>>)
        /\ \A i \in DOMAIN s : z[i].time = s[i].time
    <3>1. Rising(s) /\ Timed(s, 0..M)  BY <2>4
    <3>. QED  BY <2>0, <3>1, DeletedRises
  <2>6. Dropped(e) = d
    BY <2>0, <2>1, <2>2 DEF Deleted
  <2>7. IsTrack(t) /\ t.events = z
    <3>1. DOMAIN u[m] = {"events", "partners"}  BY <2>3 DEF HasTracks, IsTrack
    <3>2. DOMAIN t = {"events", "partners"} /\ t.events = z  BY <3>1
    <3>. QED  BY <2>5, <3>2 DEF IsTrack
  <2>. HIDE DEF t
  <2>8. HasTracks(d, n) /\ \A j \in 1..n : d[j] = IF j = m THEN t ELSE u[j]
    BY <2>3, <2>7, PutTrack
  <2>. HIDE DEF d
  <2>9. Within(d, n, 0..M)  BY <2>3, <2>5, <2>7, <2>8 DEF Within
  <2>10. Like(u, d, n)  BY <2>4, <2>5, <2>7, <2>8 DEF Like
  <2>. QED  BY <2>2, <2>6, <2>8, <2>9, <2>10
<1>. QED  BY <1>1, <1>2

LEMMA LikeActive ==
  ASSUME HasTracks(trks, ntrks), Like(trks, trks', ntrks)
  PROVE  \A n \in 0..ntrks : Active(n)' = Active(n)
<1>1. ntrks \in Nat  BY DEF HasTracks
<1>2. ASSUME NEW n \in 0..ntrks, NEW k \in 1..n
      PROVE  trks'[k].events = <<>> <=> trks[k].events = <<>>
  <2>1. k \in 1..ntrks  BY <1>1
  <2>. QED  BY <2>1 DEF Like
<1>. QED  BY <1>2 DEF Active

(* The track of an event is the open one, or is begun behind the chunks of *)
(* those before it.                                                        *)
LEMMA NextActive ==
  ASSUME HasTracks(trks, ntrks), AtTrack, tk <= ntrks, prev_tk # tk - 1,
         trks[tk].events # <<>>
  PROVE  Cardinality(Active(tk)) = Cardinality(Active(prev_tk + 1)) + 1
<1>1. /\ ntrks \in Nat /\ tk \in 1..ntrks /\ prev_tk \in -1..(tk - 1)
      /\ prev_tk + 1 \in Nat /\ prev_tk + 1 < tk
      /\ \A k \in 1..ntrks : k < tk /\ trks[k].events # <<>> => k <= prev_tk + 1
  BY DEF AtTrack, HasTracks
<1>2. Active(tk) = Active(prev_tk + 1) \cup {tk}
  <2>1. \A k \in 1..tk : k = tk \/ k < tk  BY <1>1
  <2>2. \A k \in 1..tk : k \in 1..ntrks  BY <1>1
  <2>3. \A k \in 1..tk : k <= prev_tk + 1 => k \in 1..(prev_tk + 1)  BY <1>1
  <2>4. \A k \in 1..(prev_tk + 1) : k \in 1..tk  BY <1>1
  <2>5. tk \in 1..tk  BY <1>1
  <2>. QED  BY <1>1, <2>1, <2>2, <2>3, <2>4, <2>5 DEF Active
<1>3. tk \notin Active(prev_tk + 1)  BY <1>1 DEF Active
<1>. QED  BY <1>1, <1>2, <1>3, ActiveSet, FS_AddElement

LEMMA BegunTrack ==
  ASSUME Writing, tk <= ntrks, prev_tk # tk - 1, trks[tk].events # <<>>
  PROVE  /\ Open(Switched(tk - 1), Chunked(tk - 1), 0)
         /\ Switched(tk - 1).ntracks = mfp.ntracks
<1>. DEFINE ended == IF prev_tk # -1 THEN endtrack(mfp, Rest(prev_time)) ELSE mfp
            n == Chunked(prev_tk)
            k == tk - 1 - 1 - prev_tk
            g == IF opt.pack_tracks THEN ended ELSE EmptyTracks(ended, k)
            m == IF opt.pack_tracks THEN n ELSE n + k
<1>1. /\ opt.format \in 0..2 /\ opt.pack_tracks \in BOOLEAN /\ HasTracks(trks, ntrks)
      /\ AtTrack /\ end_of_song \in Nat /\ prev_time \in 0..end_of_song /\ prev_time \in Nat
      /\ prev_time <= end_of_song
      /\ FileSoFar
  BY DEF Writing, Song, Chosen, OnTime
<1>2. prev_tk \in -1..(tk - 1) /\ tk \in Nat /\ prev_tk + 1 \in Nat /\ k \in Nat
      /\ prev_tk + 1 + k = tk - 1
  BY <1>1 DEF AtTrack, HasTracks
<1>3. n \in Nat  BY <1>1, <1>2, ActiveSet DEF Chunked
<1>4. Shut(ended, n) /\ ended.ntracks = mfp.ntracks
  <2>1. CASE prev_tk # -1
    <3>1. Open(mfp, n, prev_time)  BY <1>1, <2>1 DEF FileSoFar
    <3>2. PICK f, x : f = mfp /\ x = prev_time  OBVIOUS
    <3>3. x \in Int /\ x <= end_of_song /\ end_of_song \in Int
      <4>1. x \in 0..end_of_song /\ end_of_song \in Nat  BY <1>1, <3>2
      <4>. QED  BY <4>1
    <3>5. Open(f, n, x)  BY <3>1, <3>2
    <3>4. /\ Shut(endtrack(f, Rest(x)), n)
          /\ endtrack(f, Rest(x)).ntracks = f.ntracks
      BY <1>1, <1>3, <3>3, <3>5, EndedFile
    <3>. QED  BY <2>1, <3>2, <3>4
  <2>2. CASE prev_tk = -1
    <3>1. Shut(mfp, n)  BY <1>1, <2>2 DEF FileSoFar
    <3>. QED  BY <2>2, <3>1
  <2>. QED  BY <2>1, <2>2
<1>. HIDE DEF ended, k, n
<1>5. Shut(g, m) /\ g.ntracks = mfp.ntracks /\ m \in Nat
  <2>1. PICK f, i, j : f = ended /\ i = n /\ j = k  OBVIOUS
  <2>2. Shut(f, i) /\ i \in Nat /\ j \in Nat  BY <1>2, <1>3, <1>4, <2>1
  <2>3. Shut(EmptyTracks(f, j), i + j) /\ EmptyTracks(f, j).ntracks = f.ntracks
    BY <1>1, <2>2, EmptyFile
  <2>4. CASE opt.pack_tracks  BY <1>3, <1>4, <2>4
  <2>5. CASE ~opt.pack_tracks
    <3>1. n + k \in Nat  BY <1>2, <1>3
    <3>. QED  BY <1>4, <2>1, <2>3, <2>5, <3>1
  <2>. QED  BY <2>4, <2>5
<1>6. m + 1 = Chunked(tk - 1)
  <2>1. CASE opt.pack_tracks
    <3>1. m = Cardinality(Active(prev_tk + 1))  BY <2>1 DEF Chunked, n
    <3>2. Chunked(tk - 1) = Cardinality(Active(tk - 1 + 1)) /\ tk - 1 + 1 = tk
      BY <1>2, <2>1 DEF Chunked
    <3>. QED  BY <1>1, <3>1, <3>2, NextActive
  <2>2. CASE ~opt.pack_tracks
    <3>1. m = prev_tk + 1 + k  BY <2>2 DEF Chunked, n
    <3>. QED  BY <1>2, <2>2, <3>1 DEF Chunked
  <2>. QED  BY <2>1, <2>2
<1>7. Switched(tk - 1) = bgntrack(g)  BY DEF Switched, ended, k
<1>. HIDE DEF g, m
<1>8. Open(bgntrack(g), m + 1, 0) /\ bgntrack(g).ntracks = g.ntracks
  BY <1>5, BegunFile
<1>. QED  BY <1>5, <1>6, <1>7, <1>8

-----------------------------------------------------------------------------
(* An event is put behind those of its track.                              *)
LEMMA TimeOfEvent ==
  ASSUME Writing, tk <= ntrks, pos <= Len(trks[tk].events)
  PROVE  /\ tk \in 1..ntrks /\ pos \in DOMAIN trks[tk].events /\ trks[tk].events # <<>>
         /\ ConvTime(trks[tk].events[pos].time) \in 0..end_of_song
         /\ \A i \in DOMAIN trks[tk].events : ConvTime(trks[tk].events[i].time) \in Nat
         /\ \A i \in DOMAIN trks[tk].events : i >= pos =>
              ConvTime(trks[tk].events[pos].time) <= ConvTime(trks[tk].events[i].time)
<1>. DEFINE s == trks[tk].events
<1>1. HasTracks(trks, ntrks) /\ ntrks \in Nat /\ tk \in 1..ntrks /\ pos \in Nat \ {0}
  BY DEF Writing, Song, AtTrack, HasTracks
<1>2. PICK M \in Nat : end_of_song = ConvTime(M) /\ Within(trks, ntrks, 0..M)
  BY DEF Writing, Lasts
<1>3. /\ Len(s) \in Nat /\ DOMAIN s = 1..Len(s) /\ Rising(s)
      /\ s = <<>> <=> Len(s) = 0
  BY <1>1, EventsOf
<1>4. \A i \in DOMAIN s : s[i].time \in 0..M  BY <1>1, <1>2 DEF Within, Timed, Fit
<1>. HIDE DEF s
<1>5. pos <= Len(s)  BY DEF s
<1>6. pos \in DOMAIN s /\ s # <<>>  BY <1>1, <1>3, <1>5
<1>7. ConvTime(s[pos].time) \in 0..end_of_song
  <2>1. s[pos].time \in Nat /\ s[pos].time <= M  BY <1>2, <1>4, <1>6
  <2>. QED  BY <1>2, <2>1, ConvMonotone
<1>8. ASSUME NEW i \in DOMAIN s, i >= pos
      PROVE  ConvTime(s[pos].time) <= ConvTime(s[i].time)
  <2>1. s[pos].time \in Nat /\ s[i].time \in Nat  BY <1>4, <1>6
  <2>2. pos <= i  BY <1>1, <1>3, <1>8
  <2>3. s[pos].time <= s[i].time  BY <1>3, <1>6, <1>8, <2>2 DEF Rising
  <2>. QED  BY <2>1, <2>3, ConvMonotone
<1>9. \A i \in DOMAIN s : ConvTime(s[i].time) \in Nat
  <2>1. \A i \in DOMAIN s : s[i].time \in Nat  BY <1>4
  <2>. QED  BY <2>1, ConvMonotone
<1>. QED  BY <1>1, <1>6, <1>7, <1>8, <1>9 DEF s

LEMMA WritingAction ==
  ASSUME Writing, smfout_action
  PROVE  Writing' /\ phase' = "action"
<1>. DEFINE s == trks[tk].events
            e == s[pos]
            track == tk - 1
            switch == track # prev_tk
            f == IF switch THEN Switched(track) ELSE mfp
            prev == IF switch THEN 0 ELSE prev_time
            t == ConvTime(e.time)
            c == Chunked(track)
<1>1. PICK w \in BOOLEAN :
        /\ mfp' = IF w THEN putevent(f, t - prev, e) ELSE f
        /\ prev_time' = IF w THEN t ELSE prev
        /\ trks' = IF w THEN trks ELSE Dropped(e)
  <2>. DEFINE x == Written(e, IF switch THEN 1 ELSE vmag)
  <2>1. /\ mfp' = IF x THEN putevent(f, t - prev, e) ELSE f
        /\ prev_time' = IF x THEN t ELSE prev
        /\ trks' = IF x THEN trks ELSE Dropped(e)
    BY DEF smfout_action
  <2>2. x \in BOOLEAN  BY DEF Written
  <2>. HIDE DEF x, f, prev, t, e
  <2>. QED  BY <2>1, <2>2
<1>2. /\ tk <= ntrks /\ pos <= Len(s) /\ prev_tk' = track /\ pos' = pos + 1
      /\ phase' = phase /\ phase = "action"
      /\ UNCHANGED <<ntrks, tk, opt, end_of_song>>
  BY DEF smfout_action
<1>3. /\ tk \in 1..ntrks /\ pos \in DOMAIN s /\ s # <<>>
      /\ t \in 0..end_of_song /\ \A i \in DOMAIN s : ConvTime(s[i].time) \in Nat
      /\ \A i \in DOMAIN s : i >= pos => t <= ConvTime(s[i].time)
  BY <1>2, TimeOfEvent
<1>4. /\ HasTracks(trks, ntrks) /\ ntrks \in Nat /\ Chosen /\ AtTrack /\ OnTime
      /\ end_of_song \in Nat /\ prev_time \in 0..end_of_song /\ pos \in Nat \ {0}
      /\ \E k \in 1..ntrks : trks[k].events # <<>>
      /\ mfp.ntracks = HeaderTracks(trks)
  BY DEF Writing, Song, HasTracks, AtTrack, OnTime
<1>5. PICK M \in Nat : end_of_song = ConvTime(M) /\ Within(trks, ntrks, 0..M)
  BY DEF Writing, Lasts
<1>6. /\ Open(f, c, prev) /\ f.ntracks = mfp.ntracks
      /\ prev \in 0..end_of_song /\ prev <= t
      /\ \A i \in DOMAIN s : i >= pos => prev <= ConvTime(s[i].time)
  <2>1. CASE switch
    <3>1. Open(Switched(track), c, 0) /\ Switched(track).ntracks = mfp.ntracks
      <4>1. tk <= ntrks /\ prev_tk # tk - 1 /\ trks[tk].events # <<>>  BY <1>2, <1>3, <2>1
      <4>. QED  BY <4>1, BegunTrack
    <3>2. \A i \in DOMAIN s : i >= pos => 0 <= ConvTime(s[i].time)  BY <1>3
    <3>3. f = Switched(track) /\ prev = 0  BY <2>1
    <3>4. 0 \in 0..end_of_song /\ 0 <= t  BY <1>3, <1>4
    <3>. HIDE DEF f, prev, s, t, c
    <3>. QED  BY <3>1, <3>2, <3>3, <3>4
  <2>2. CASE ~switch
    <3>1. prev_tk = tk - 1 /\ prev_tk # -1  BY <1>3, <1>4, <2>2
    <3>2. Open(mfp, Chunked(prev_tk), prev_time)  BY <3>1 DEF Writing, FileSoFar
    <3>3. \A i \in DOMAIN s : i >= pos => prev_time <= ConvTime(s[i].time)
      BY <1>2, <1>4, <3>1 DEF OnTime
    <3>4. prev_time <= t
      <4>1. pos >= pos  BY <1>4
      <4>. QED  BY <1>3, <3>3, <4>1
    <3>5. f = mfp /\ prev = prev_time /\ c = Chunked(prev_tk)  BY <2>2
    <3>. HIDE DEF f, prev, s, t, c
    <3>. QED  BY <1>4, <3>2, <3>3, <3>4, <3>5
  <2>. QED  BY <2>1, <2>2
<1>7. c \in Nat
  <2>1. track + 1 \in Nat  BY <1>3
  <2>. QED  BY <1>4, <2>1, ActiveSet DEF Chunked
<1>. HIDE DEF f, prev, t, e, c
<1>8. /\ HasTracks(trks', ntrks) /\ Within(trks', ntrks, 0..M) /\ Like(trks, trks', ntrks)
  <2>1. HasTracks(Dropped(e), ntrks) /\ Within(Dropped(e), ntrks, 0..M)
        /\ Like(trks, Dropped(e), ntrks)
    BY <1>3, <1>4, <1>5, DroppedLike
  <2>2. Like(trks, trks, ntrks)  BY DEF Like
  <2>3. trks' = trks \/ trks' = Dropped(e)  BY <1>1
  <2>. QED  BY <1>4, <1>5, <2>1, <2>2, <2>3
<1>9. Song'  BY <1>2, <1>4, <1>8 DEF Song, Chosen
<1>10. Lasts'  BY <1>2, <1>5, <1>8 DEF Lasts
<1>11. \A n \in 0..ntrks : Active(n)' = Active(n)  BY <1>4, <1>8, LikeActive
<1>12. Open(mfp', c, prev_time') /\ mfp'.ntracks = mfp.ntracks
  <2>1. CASE w
    <3>1. t \in Int /\ prev \in Int  BY <1>3, <1>6
    <3>2. PICK g, n, x, y, z, d : g = f /\ n = c /\ x = prev /\ y = t /\ z = e /\ d = t - prev
      OBVIOUS
    <3>3. Open(g, n, x) /\ n \in Nat /\ x \in Int /\ y \in Int /\ x <= y
      BY <1>6, <1>7, <3>1, <3>2
    <3>5. d = Delta(x, y)  BY <3>2 DEF Delta
    <3>4. Open(putevent(g, d, z), n, y) /\ putevent(g, d, z).ntracks = g.ntracks
      BY <3>3, <3>5, PutFile
    <3>. QED  BY <1>1, <1>6, <2>1, <3>2, <3>4
  <2>2. CASE ~w  BY <1>1, <1>6, <2>2
  <2>. QED  BY <2>1, <2>2
<1>13. /\ prev_time' \in 0..end_of_song
       /\ \A i \in DOMAIN s : i >= pos => prev_time' <= ConvTime(s[i].time)
  BY <1>1, <1>3, <1>6
<1>14. AtTrack'
  <2>1. \A k \in 1..ntrks : k < tk /\ trks'[k].events # <<>> => k <= track + 1
    BY <1>3
  <2>2. track \in -1..(tk - 1) /\ track < ntrks  BY <1>3, <1>4
  <2>3. pos' \in Nat \ {0}  BY <1>2, <1>4
  <2>. QED  BY <1>2, <1>3, <1>4, <2>1, <2>2, <2>3 DEF AtTrack
<1>15. OnTime'
  <2>1. DOMAIN trks'[tk].events = DOMAIN s
        /\ \A i \in DOMAIN s : trks'[tk].events[i].time = s[i].time
    BY <1>3, <1>8 DEF Like
  <2>2. DOMAIN s = 1..Len(s) /\ Len(s) \in Nat  BY <1>3, <1>4, EventsOf
  <2>3. \A i \in DOMAIN s : i >= pos' => prev_time' <= ConvTime(trks'[tk].events[i].time)
    <3>1. \A i \in DOMAIN s : i >= pos' => i >= pos  BY <1>2, <1>4, <2>2
    <3>. QED  BY <1>13, <2>1, <3>1
  <2>. QED  BY <1>2, <1>4, <1>13, <2>1, <2>3 DEF OnTime
<1>16. \E k \in 1..ntrks : trks'[k].events # <<>>  BY <1>4, <1>8 DEF Like
<1>17. Chunked(prev_tk)' = c
  <2>1. track + 1 \in 0..ntrks /\ track' = track  BY <1>2, <1>3, <1>4
  <2>2. Active(track + 1)' = Active(track + 1)  BY <1>11, <2>1
  <2>3. Chunked(prev_tk)' = IF opt.pack_tracks THEN Cardinality(Active(track + 1)') ELSE track + 1
    BY <1>2 DEF Chunked
  <2>. QED  BY <2>2, <2>3 DEF Chunked, c
<1>18. HeaderTracks(trks)' = HeaderTracks(trks)
  <2>1. PICK n : n = ntrks  OBVIOUS
  <2>2. Active(n)' = Active(n)  BY <1>4, <1>11, <2>1
  <2>3. HeaderTracks(trks) = IF opt.pack_tracks THEN Cardinality(Active(n)) ELSE ntrks
    BY <2>1 DEF HeaderTracks, Active
  <2>4. HeaderTracks(trks)' = IF opt.pack_tracks THEN Cardinality(Active(n)') ELSE ntrks
    BY <1>2, <2>1 DEF HeaderTracks, Active
  <2>. QED  BY <2>2, <2>3, <2>4
<1>19. FileSoFar'
  <2>1. prev_tk' # -1  BY <1>2, <1>3
  <2>2. PICK g, n, y : g = mfp' /\ n = c /\ y = prev_time'  OBVIOUS
  <2>3. Open(g, n, y)  BY <1>12, <2>2
  <2>4. Open(g, n, y)'  BY <1>2, <2>3 DEF Open, Closed
  <2>. QED  BY <1>17, <2>1, <2>2, <2>4 DEF FileSoFar
<1>. QED  BY <1>2, <1>4, <1>9, <1>10, <1>12, <1>14, <1>15, <1>16, <1>18, <1>19 DEF Writing

LEMMA WritingNext ==
  ASSUME Writing, next_action
  PROVE  Writing' /\ phase' = "action"
<1>1. /\ phase = "action" /\ tk <= ntrks /\ pos > Len(trks[tk].events)
      /\ tk' = tk + 1 /\ pos' = 1
      /\ UNCHANGED <<trks, ntrks, phase, opt, end_of_song, prev_tk, prev_time, mfp>>
  BY DEF next_action
<1>2. /\ HasTracks(trks, ntrks) /\ ntrks \in Nat /\ AtTrack /\ OnTime
      /\ tk \in 1..ntrks /\ prev_tk \in -1..(tk - 1) /\ prev_tk < ntrks
      /\ \A k \in 1..ntrks : k < tk /\ trks[k].events # <<>> => k <= prev_tk + 1
  BY <1>1 DEF Writing, Song, HasTracks, AtTrack
<1>3. trks[tk].events # <<>> => prev_tk = tk - 1
  <2>1. Len(trks[tk].events) \in Nat /\ (trks[tk].events = <<>> <=> Len(trks[tk].events) = 0)
    BY <1>2, EventsOf
  <2>2. trks[tk].events # <<>> => pos # 1  BY <1>1, <2>1
  <2>. QED  BY <1>1, <1>2, <2>2 DEF AtTrack
<1>4. AtTrack'
  <2>1. \A k \in 1..ntrks : k < tk + 1 /\ trks[k].events # <<>> => k <= prev_tk + 1
    BY <1>2, <1>3
  <2>2. tk + 1 \in 1..(ntrks + 1) /\ prev_tk \in -1..tk /\ tk + 1 - 1 = tk  BY <1>2
  <2>. QED  BY <1>1, <1>2, <2>1, <2>2 DEF AtTrack
<1>5. OnTime'
  <2>1. prev_tk # tk + 1 - 1  BY <1>2
  <2>. QED  BY <1>1, <1>2, <2>1 DEF OnTime
<1>6. Song' /\ Lasts'  BY <1>1 DEF Writing, Song, Chosen, Lasts
<1>7. Chunked(prev_tk)' = Chunked(prev_tk) /\ HeaderTracks(trks)' = HeaderTracks(trks)
  BY <1>1 DEF Chunked, Active, HeaderTracks
<1>8. FileSoFar'
  BY <1>1, <1>7 DEF Writing, FileSoFar, Open, Shut, Closed
<1>. QED  BY <1>1, <1>4, <1>5, <1>6, <1>7, <1>8 DEF Writing

-----------------------------------------------------------------------------
(* The end of the file.                                                    *)
Complete == Chosen /\ end_of_song \in Nat /\ Shut(mfp, mfp.ntracks)

LEMMA WritingWrap ==
  ASSUME Writing, smfout_wrap
  PROVE  Complete' /\ phase' = "closed"
<1>. DEFINE n == Chunked(prev_tk)
            k == IF opt.pack_tracks THEN 0 ELSE ntrks - 1 - prev_tk
<1>1. /\ tk > ntrks /\ mfp' = TrailingTracks(mfp, prev_time) /\ phase' = "closed"
      /\ UNCHANGED <<opt, end_of_song>>
  BY DEF smfout_wrap
<1>2. /\ HasTracks(trks, ntrks) /\ ntrks \in Nat /\ Chosen /\ AtTrack
      /\ opt.format \in 0..2 /\ opt.pack_tracks \in BOOLEAN
      /\ end_of_song \in Nat /\ prev_time \in 0..end_of_song
      /\ mfp.ntracks = HeaderTracks(trks) /\ tk = ntrks + 1 /\ prev_tk < ntrks
      /\ prev_tk \in -1..(tk - 1)
      /\ \A j \in 1..ntrks : j < tk /\ trks[j].events # <<>> => j <= prev_tk + 1
  <2>1. /\ HasTracks(trks, ntrks) /\ Chosen /\ AtTrack /\ OnTime
        /\ mfp.ntracks = HeaderTracks(trks)
    BY DEF Writing, Song
  <2>2. ntrks \in Nat /\ opt.format \in 0..2 /\ opt.pack_tracks \in BOOLEAN
    BY <2>1 DEF HasTracks, Chosen
  <2>3. end_of_song \in Nat /\ prev_time \in 0..end_of_song  BY <2>1 DEF OnTime
  <2>4. /\ tk \in 1..(ntrks + 1) /\ prev_tk < ntrks /\ prev_tk \in -1..(tk - 1)
        /\ \A j \in 1..ntrks : j < tk /\ trks[j].events # <<>> => j <= prev_tk + 1
    BY <2>1 DEF AtTrack
  <2>5. tk = ntrks + 1  BY <1>1, <2>2, <2>4
  <2>. QED  BY <2>1, <2>2, <2>3, <2>4, <2>5
<1>3. PICK j \in 1..ntrks : trks[j].events # <<>>  BY DEF Writing
<1>4. prev_tk # -1 /\ prev_tk + 1 \in 1..ntrks
  <2>1. j <= prev_tk + 1  BY <1>2, <1>3
  <2>. QED  BY <1>2, <2>1
<1>5. n \in Nat /\ k \in Nat
  <2>1. prev_tk + 1 \in Nat /\ ntrks - 1 - prev_tk \in Nat  BY <1>2, <1>4
  <2>. QED  BY <1>2, <2>1, ActiveSet DEF Chunked
<1>6. n + k = mfp.ntracks
  <2>1. CASE opt.pack_tracks
    <3>1. ASSUME NEW i \in 1..ntrks, trks[i].events # <<>>  PROVE i \in 1..(prev_tk + 1)
      <4>1. i < tk  BY <1>2
      <4>2. i <= prev_tk + 1  BY <1>2, <3>1, <4>1
      <4>. QED  BY <1>4, <4>2
    <3>2. Active(prev_tk + 1) = Active(ntrks)
      <4>1. 1..(prev_tk + 1) \subseteq 1..ntrks  BY <1>2, <1>4
      <4>. QED  BY <3>1, <4>1 DEF Active
    <3>3. HeaderTracks(trks) = Cardinality(Active(ntrks))  BY <2>1 DEF HeaderTracks, Active
    <3>4. n = HeaderTracks(trks)  BY <2>1, <3>2, <3>3 DEF Chunked
    <3>. QED  BY <1>2, <1>5, <2>1, <3>4
  <2>2. CASE ~opt.pack_tracks
    <3>1. HeaderTracks(trks) = ntrks  BY <2>2 DEF HeaderTracks
    <3>. QED  BY <1>2, <2>2, <3>1 DEF Chunked
  <2>. QED  BY <2>1, <2>2
<1>7. TrailingTracks(mfp, prev_time) = EmptyTracks(endtrack(mfp, Rest(prev_time)), k)
  BY DEF TrailingTracks
<1>8. Open(mfp, n, prev_time)  BY <1>4 DEF Writing, FileSoFar
<1>. HIDE DEF n, k
<1>9. PICK f, x : f = mfp /\ x = prev_time  OBVIOUS
<1>10. x \in Int /\ x <= end_of_song /\ end_of_song \in Int
  <2>1. x \in 0..end_of_song /\ end_of_song \in Nat  BY <1>2, <1>9
  <2>. QED  BY <2>1
<1>11. Open(f, n, x)  BY <1>8, <1>9
<1>12. PICK g : g = endtrack(f, Rest(x))  OBVIOUS
<1>13. Shut(g, n) /\ g.ntracks = f.ntracks
  BY <1>2, <1>5, <1>10, <1>11, <1>12, EndedFile
<1>14. Shut(EmptyTracks(g, k), n + k) /\ EmptyTracks(g, k).ntracks = g.ntracks
  BY <1>2, <1>5, <1>13, EmptyFile
<1>15. mfp' = EmptyTracks(g, k)  BY <1>1, <1>7, <1>9, <1>12
<1>16. Shut(mfp', mfp'.ntracks)  BY <1>6, <1>9, <1>13, <1>14, <1>15
<1>17. Shut(mfp, mfp.ntracks)'
  <2>1. PICK h : h = mfp'  OBVIOUS
  <2>2. Shut(h, h.ntracks)  BY <1>16, <2>1
  <2>3. Shut(h, h.ntracks)'  BY <1>1, <2>2 DEF Shut, Closed
  <2>. QED  BY <2>1, <2>3
<1>. QED  BY <1>1, <1>2, <1>17 DEF Complete, Chosen

LEMMA CompleteEnds == ASSUME Complete  PROVE ChunksEnd
<1>1. /\ mfp.open = FALSE /\ List(Chunks) /\ Len(Chunks) = mfp.ntracks
      /\ \A i \in 1..mfp.ntracks : Closed(Chunks[i])
  BY DEF Complete, Shut, Chunks
<1>2. DOMAIN Chunks = 1..mfp.ntracks  BY <1>1, ListOf DEF List
<1>3. ASSUME NEW i \in DOMAIN Chunks
      PROVE  /\ Chunks[i].rest >= 0
             /\ \A j \in DOMAIN Chunks[i].msgs : Chunks[i].msgs[j].dtime >= 0
             /\ opt.format < 2 => Total(Chunks[i]) = end_of_song
  <2>1. PICK c : c = Chunks[i]  OBVIOUS
  <2>2. Closed(c)  BY <1>1, <1>2, <2>1
  <2>3. c.rest \in Nat /\ \A j \in DOMAIN c.msgs : c.msgs[j].dtime \in Nat
    BY <2>2 DEF Closed, Runs
  <2>4. opt.format < 2 => Total(c) = end_of_song  BY <2>2, ClosedTotal
  <2>. QED  BY <2>1, <2>3, <2>4
<1>. QED  BY <1>1, <1>3 DEF ChunksEnd

-----------------------------------------------------------------------------
(* The header counts the chunks, time goes forwards in each, and all of a  *)
(* song end together (ChunksEnd), for any tracks and options: whichever    *)
(* are empty or unselected, cut, merged or packed, no event is written     *)
(* behind the end of the song or before the last one of its track.         *)
OutInv ==
  \/ phase = "collect" /\ Collecting
  \/ phase = "post" /\ Posting
  \/ phase \in {"merge", "supply"} /\ Merging
  \/ phase = "again" /\ Retriggering
  \/ phase = "action" /\ Writing
  \/ phase = "closed" /\ Complete
  \/ phase = "no_genfile"

LEMMA OutInitially == OutInit => OutInv
<1>. SUFFICES ASSUME OutInit  PROVE Collecting /\ phase = "collect"
  BY DEF OutInv
<1>1. /\ trks = [k \in 1..NTracks |-> EmptyTrack] /\ phase = "collect" /\ tk = 1
      /\ prev_tk = -1 /\ prev_time = 0 /\ Init
  BY DEF OutInit
<1>2. max_time \in Nat  BY <1>1 DEF Init
<1>3. NTracks \in Nat /\ 1 \in 1..NTracks  BY TrackAssumption
<1>4. \A k \in 1..NTracks : IsTrack(trks[k])
  BY <1>1, NoEvents, OfTrack DEF EmptyTrack
<1>5. HasTracks(trks, NTracks)  BY <1>1, <1>3, <1>4 DEF HasTracks
<1>. QED  BY <1>1, <1>2, <1>3, <1>5 DEF Collecting, Unwritten

LEMMA OutKept == ASSUME OutInv, UNCHANGED allVars  PROVE OutInv'
<1>1. UNCHANGED <<trks, ntrks, phase, tk, opt, end_of_song, prev_tk, prev_time, mfp>>
  BY DEF allVars, outVars
<1>2. UNCHANGED <<stage, input, req, max_time, pos, output, cur_time, term_time, nnotes,
                  note_tbl, ctrl_tbl, timesig, tmp>>
  BY DEF allVars, vars, scanVars
<1>3. ScanInv' = ScanInv
  BY <1>2 DEF ScanInv, Positions, Tables, InRange, Reached, Ended, Passed, begin_time, end_time,
              Does
<1>4. Collecting' = Collecting  BY <1>1, <1>2 DEF Collecting, Unwritten
<1>5. Song' = Song /\ Unwritten' = Unwritten /\ Lasts' = Lasts /\ Scans' = Scans
  BY <1>1, <1>2 DEF Song, Chosen, Unwritten, Lasts, Scans
<1>6. Scanning' = Scanning
  BY <1>1, <1>2, <1>3, <1>5 DEF Scanning, Asked, Cutting, Again
<1>7. Posting' = Posting
  BY <1>1, <1>2, <1>5, <1>6 DEF Posting, Done, Spanned, Cutting
<1>8. Merging' = Merging  BY <1>2, <1>5 DEF Merging
<1>9. Retriggering' = Retriggering
  BY <1>1, <1>2, <1>5, <1>6 DEF Retriggering, Repeats
<1>10. Writing' = Writing
  <2>1. AtTrack' = AtTrack /\ OnTime' = OnTime  BY <1>1, <1>2 DEF AtTrack, OnTime
  <2>2. FileSoFar' = FileSoFar
    BY <1>1 DEF FileSoFar, Chunked, Active, Open, Shut, Closed
  <2>3. HeaderTracks(trks)' = HeaderTracks(trks)  BY <1>1 DEF HeaderTracks
  <2>. QED  BY <1>1, <1>5, <2>1, <2>2, <2>3 DEF Writing
<1>11. Complete' = Complete  BY <1>1 DEF Complete, Chosen, Shut, Closed
<1>. QED  BY <1>1, <1>4, <1>7, <1>8, <1>9, <1>10, <1>11 DEF OutInv

LEMMA OutStep == OutInv /\ [OutNext]_allVars => OutInv'
<1>. SUFFICES ASSUME OutInv, [OutNext]_allVars  PROVE OutInv'
  OBVIOUS
<1>1. CASE gather
  <2>1. phase = "collect" /\ UNCHANGED <<vars, phase, prev_tk, prev_time>>
    BY <1>1 DEF gather
  <2>2. Collecting  BY <2>1 DEF OutInv
  <2>3. HasTracks(trks', NTracks) /\ tk' \in 1..NTracks
    BY <1>1, <2>2, GatherStep DEF Collecting
  <2>4. Collecting'  BY <2>1, <2>2, <2>3 DEF Collecting, Unwritten, vars
  <2>. QED  BY <2>1, <2>4 DEF OutInv
<1>2. CASE smfout_detach
  <2>1. Collecting  BY <1>2 DEF smfout_detach, OutInv
  <2>. QED  BY <1>2, <2>1, CollectingDetach DEF OutInv
<1>3. CASE next_track
  <2>1. \/ phase = "post" /\ Posting
        \/ phase = "again" /\ Retriggering
    BY <1>3 DEF next_track, OutInv
  <2>. QED  BY <1>3, <2>1, PostingNext, RetriggeringNext DEF OutInv
<1>4. CASE scan
  <2>1. \/ phase = "post" /\ Posting
        \/ phase = "again" /\ Retriggering
    BY <1>4 DEF scan, OutInv
  <2>. QED  BY <1>4, <2>1, PostingScan, RetriggeringScan DEF OutInv
<1>5. CASE end_post
  <2>1. Posting  BY <1>5 DEF end_post, OutInv
  <2>. QED  BY <1>5, <2>1, PostingEnd DEF OutInv
<1>6. CASE merge_all_tracks
  <2>1. Merging  BY <1>6 DEF merge_all_tracks, OutInv
  <2>. QED  BY <1>6, <2>1, MergingMerge DEF OutInv
<1>7. CASE end_again
  <2>1. Retriggering  BY <1>7 DEF end_again, OutInv
  <2>. QED  BY <1>7, <2>1, RetriggeringEnd DEF OutInv
<1>8. CASE open_file
  <2>1. Merging  BY <1>8 DEF open_file, OutInv
  <2>. QED  BY <1>8, <2>1, MergingOpen DEF OutInv
<1>9. CASE smfout_action
  <2>1. Writing  BY <1>9 DEF smfout_action, OutInv
  <2>. QED  BY <1>9, <2>1, WritingAction DEF OutInv
<1>10. CASE next_action
  <2>1. Writing  BY <1>10 DEF next_action, OutInv
  <2>. QED  BY <1>10, <2>1, WritingNext DEF OutInv
<1>11. CASE smfout_wrap
  <2>1. Writing  BY <1>11 DEF smfout_wrap, OutInv
  <2>. QED  BY <1>11, <2>1, WritingWrap DEF OutInv
<1>12. CASE closed \/ failed \/ UNCHANGED allVars
  BY <1>12, OutKept DEF closed, failed
<1>. QED  BY <1>1, <1>2, <1>3, <1>4, <1>5, <1>6, <1>7, <1>8, <1>9, <1>10, <1>11, <1>12
          DEF OutNext

THEOREM ChunksEndTogether == OutSpec => []ChunksEnd
<1>1. OutInv => ChunksEnd
  <2>1. ASSUME OutInv, phase = "closed"  PROVE ChunksEnd
    <3>1. Complete  BY <2>1 DEF OutInv
    <3>. QED  BY <3>1, CompleteEnds
  <2>2. phase # "closed" => ChunksEnd  BY DEF ChunksEnd
  <2>. QED  BY <2>1, <2>2
<1>. QED  BY OutInitially, OutStep, <1>1, PTL DEF OutSpec
-----------------------------------------------------------------------------
(* The events of a list are named by their places; which of them are       *)
(* notes.                                                                  *)
Named(s) == \A i \in DOMAIN s : s[i].id = i
Noted(e) == e.type \in {"on", "off", "deleted"}
(* What the scan makes of the list s: an event with the name of one of s   *)
(* has its type still; one without is no note-on.                          *)
Traced(e, s) ==
  IF e.id \in DOMAIN s THEN e.type = s[e.id].type
  ELSE e.type # "on" /\ (e.type = "off" \/ e.id = 0)
Traces(t, s) == List(t) /\ \A i \in DOMAIN t : Traced(t[i], s)
Controls(t, s) == Traces(t, s) /\ \A i \in DOMAIN t : t[i].type = "ctrl"

(* Lists of what the scan makes.                                           *)
LEMMA TracesOf ==
  ASSUME NEW s, NEW S, \A e \in S : Traced(e, s), NEW t \in Seq(S)
  PROVE  Traces(t, s)
<1>1. List(t) /\ DOMAIN t = 1..Len(t) /\ \A i \in 1..Len(t) : t[i] \in S  BY ListOf
<1>. QED  BY <1>1 DEF Traces

LEMMA TracesIn ==
  ASSUME NEW s, NEW t, Traces(t, s)
  PROVE  t \in Seq(Elements(t)) /\ \A e \in Elements(t) : Traced(e, s)
BY DEF Traces, List, Elements

LEMMA TracesEmpty == ASSUME NEW s  PROVE Traces(<<>>, s) /\ Controls(<<>>, s)
BY ListEmpty DEF Traces, Controls

LEMMA TracesOne == ASSUME NEW s, NEW e, Traced(e, s)
  PROVE  Traces(<<e>>, s) /\ (e.type = "ctrl" => Controls(<<e>>, s))
<1>1. <<e>> \in Seq({e}) /\ DOMAIN <<e>> = {1} /\ <<e>>[1] = e  OBVIOUS
<1>2. List(<<e>>)  BY <1>1, ListOf
<1>. QED  BY <1>1, <1>2 DEF Traces, Controls

LEMMA TracesJoin ==
  ASSUME NEW s, NEW t, Traces(t, s), NEW u, Traces(u, s)
  PROVE  /\ Traces(t \o u, s)
         /\ Controls(t, s) /\ Controls(u, s) => Controls(t \o u, s)
<1>1. List(t) /\ List(u)  BY DEF Traces
<1>2. PICK w : w = t \o u  OBVIOUS
<1>3. /\ List(w) /\ Len(t) \in Nat /\ Len(u) \in Nat
      /\ DOMAIN t = 1..Len(t) /\ DOMAIN u = 1..Len(u)
      /\ DOMAIN w = 1..(Len(t) + Len(u))
      /\ \A i \in 1..(Len(t) + Len(u)) : w[i] = IF i <= Len(t) THEN t[i] ELSE u[i - Len(t)]
  BY <1>1, <1>2, ListJoin
<1>4. ASSUME NEW i \in DOMAIN w
      PROVE  \/ \E j \in DOMAIN t : w[i] = t[j]
             \/ \E j \in DOMAIN u : w[i] = u[j]
  <2>1. CASE i <= Len(t)
    <3>1. i \in DOMAIN t /\ w[i] = t[i]  BY <1>3, <2>1
    <3>. QED  BY <3>1
  <2>2. CASE ~(i <= Len(t))
    <3>1. i - Len(t) \in DOMAIN u /\ w[i] = u[i - Len(t)]  BY <1>3, <2>2
    <3>. QED  BY <3>1
  <2>. QED  BY <2>1, <2>2
<1>5. Traces(w, s)  BY <1>3, <1>4 DEF Traces
<1>6. Controls(t, s) /\ Controls(u, s) => Controls(w, s)  BY <1>4, <1>5 DEF Controls
<1>. QED  BY <1>2, <1>5, <1>6

LEMMA TracesAppend ==
  ASSUME NEW s, NEW t, Traces(t, s), NEW e, Traced(e, s)
  PROVE  Traces(Append(t, e), s)
<1>1. PICK w : w = Append(t, e)  OBVIOUS
<1>2. /\ List(w) /\ Len(t) \in Nat /\ DOMAIN t = 1..Len(t) /\ DOMAIN w = 1..(Len(t) + 1)
      /\ \A i \in 1..Len(t) : w[i] = t[i]
      /\ w[Len(t) + 1] = e
  BY <1>1, ListAppend DEF Traces
<1>3. ASSUME NEW i \in DOMAIN w  PROVE Traced(w[i], s)
  <2>1. CASE i = Len(t) + 1  BY <1>2, <2>1
  <2>2. CASE i # Len(t) + 1
    <3>1. i \in DOMAIN t /\ w[i] = t[i]  BY <1>2, <2>2
    <3>. QED  BY <3>1 DEF Traces
  <2>. QED  BY <2>1, <2>2
<1>. QED  BY <1>1, <1>2, <1>3 DEF Traces

LEMMA TracesFlat ==
  ASSUME NEW s, NEW n \in Nat, NEW q, DOMAIN q = 1..n, q = [i \in DOMAIN q |-> q[i]],
         \A i \in 1..n : Traces(q[i], s)
  PROVE  Traces(FlattenSeq(q), s)
<1>. DEFINE B == UNION {Elements(q[i]) : i \in 1..n}
<1>1. \A e \in B : Traced(e, s)  BY TracesIn
<1>2. \A i \in 1..n : q[i] \in Seq(Elements(q[i])) /\ Elements(q[i]) \subseteq B
  BY TracesIn
<1>. HIDE DEF B
<1>3. FlattenSeq(q) \in Seq(B)  BY <1>2, FlatIn
<1>. QED  BY <1>1, <1>3, TracesOf

LEMMA TracesMap ==
  ASSUME NEW s, NEW n \in Nat, NEW t, DOMAIN t = 1..n, t = [i \in DOMAIN t |-> t[i]],
         \A i \in 1..n : Traced(t[i], s)
  PROVE  Traces(t, s)
<1>1. t \in [1..n -> Elements(t)]  BY DEF Elements
<1>2. t \in Seq(Elements(t))  BY <1>1, SeqDef
<1>. QED  BY <1>2 DEF Traces, List

(* What is made of a control.                                              *)
LEMMA MadeTraced ==
  ASSUME NEW s, 0 \notin DOMAIN s, NEW l, Controls(l, s), NEW e, MadeOf(e, l)
  PROVE  Traced(e, s) /\ e.type = "ctrl"
<1>1. PICK b \in Elements(l) : e.type = b.type /\ e.id \in {0, b.id}  BY DEF MadeOf
<1>2. Traced(b, s) /\ b.type = "ctrl"  BY DEF Controls, Traces, Elements
<1>. QED  BY <1>1, <1>2 DEF Traced

(* Fresh note-offs.                                                        *)
Offs(t, s) ==
  /\ List(t)
  /\ \A i \in DOMAIN t : t[i].type = "off" /\ (t[i].id \in DOMAIN s => s[t[i].id].type = "off")

LEMMA OffsTraced == ASSUME NEW s, NEW t, Offs(t, s)  PROVE Traces(t, s)
BY DEF Offs, Traces, Traced
-----------------------------------------------------------------------------
(* The partners of notes, while the list s is scanned: they are notes.     *)
Pairs(p, s) ==
  /\ DOMAIN s \subseteq DOMAIN p
  /\ \A i \in DOMAIN s : s[i].type = "on" /\ p[i] \in DOMAIN s => Noted(s[p[i]])

LEMMA PairsFreed ==
  ASSUME NEW s, 0 \notin DOMAIN s, NEW p, Pairs(p, s), NEW ids
  PROVE  Pairs(FreedAll(p, ids), s)
<1>. DEFINE q == FreedAll(p, ids)
<1>1. DOMAIN q = DOMAIN p /\ \A i \in DOMAIN p : q[i] \in {0, p[i]}  BY DEF FreedAll
<1>. HIDE DEF q
<1>2. Pairs(q, s)  BY <1>1 DEF Pairs
<1>. QED  BY <1>2 DEF q

LEMMA PairsZero ==
  ASSUME NEW s, 0 \notin DOMAIN s, NEW p, Pairs(p, s), NEW x
  PROVE  Pairs([p EXCEPT ![x] = 0], s)
<1>. DEFINE q == [p EXCEPT ![x] = 0]
<1>1. DOMAIN q = DOMAIN p /\ \A i \in DOMAIN p : q[i] \in {0, p[i]}  OBVIOUS
<1>. HIDE DEF q
<1>2. Pairs(q, s)  BY <1>1 DEF Pairs
<1>. QED  BY <1>2 DEF q

LEMMA PairsPartnered ==
  ASSUME NEW s, NEW p, Pairs(p, s), NEW offs, Offs(offs, s)
  PROVE  Pairs(Partnered(p, offs), s)
<1>. DEFINE q == Partnered(p, offs)
            O == ToSet(offs)
<1>1. O = {offs[i] : i \in DOMAIN offs}  BY DEF ToSet
<1>2. \A o \in O : o.id \in DOMAIN s => s[o.id].type = "off"  BY <1>1 DEF Offs
<1>3. q = [i \in DOMAIN p \cup {o.id : o \in O} |->
            IF \E o \in O : i = o.id
            THEN note_tbl[(CHOOSE o \in O : i = o.id).key]
            ELSE IF \E o \in O : i = note_tbl[o.key]
            THEN (CHOOSE o \in O : i = note_tbl[o.key]).id
            ELSE p[i]]
  BY DEF Partnered
<1>. HIDE DEF O, q
<1>4. ASSUME NEW i \in DOMAIN s  
      PROVE  /\ i \in DOMAIN q 
             /\ s[i].type = "on" => q[i] = p[i] \/ \E o \in O : q[i] = o.id
  <2>1. i \in DOMAIN p  BY DEF Pairs
  <2>2. i \in DOMAIN q  BY <1>3, <2>1
  <2>3. ASSUME s[i].type = "on"  PROVE q[i] = p[i] \/ \E o \in O : q[i] = o.id
    <3>1. ~ \E o \in O : i = o.id  BY <1>2, <2>3
    <3>2. q[i] = IF \E o \in O : i = note_tbl[o.key]
                 THEN (CHOOSE o \in O : i = note_tbl[o.key]).id
                 ELSE p[i]
      BY <1>3, <2>1, <3>1
    <3>3. CASE \E o \in O : i = note_tbl[o.key]
      <4>1. (CHOOSE o \in O : i = note_tbl[o.key]) \in O  BY <3>3
      <4>. QED  BY <3>2, <3>3, <4>1
    <3>. QED  BY <3>2, <3>3
  <2>. QED  BY <2>2, <2>3
<1>5. Pairs(q, s)  BY <1>2, <1>4 DEF Pairs, Noted
<1>. QED  BY <1>5 DEF q

(* What the scan puts on its output.                                       *)
LEMMA InputTraced ==
  ASSUME NEW s, Named(s), NEW i \in DOMAIN s
  PROVE  Traced(s[i], s)
BY DEF Named, Traced

LEMMA PlayingTraced ==
  ASSUME Positions, Tables, Named(input)
  PROVE  Traces(PlayingNotes, input)
<1>. DEFINE ks == SetToSeq(Playing)
            n == Cardinality(Playing)
            notes == [i \in DOMAIN ks |-> input[note_tbl[ks[i]]]]
<1>1. n \in Nat /\ ks \in [1..n -> Playing]  BY PlayingSeq
<1>2. PlayingNotes = notes  BY DEF PlayingNotes, Playing
<1>. HIDE DEF ks, n
<1>3. ASSUME NEW k \in Playing  PROVE note_tbl[k] \in DOMAIN input
  <2>1. k \in Note /\ note_tbl[k] # 0 /\ note_tbl[k] \in 0..(pos - 1)
    BY DEF Playing, Tables
  <2>2. note_tbl[k] \in 1..(pos - 1)  BY <2>1
  <2>. QED  BY <2>2, Places
<1>4. DOMAIN notes = 1..n /\ \A i \in 1..n : Traced(notes[i], input)
  <2>1. ASSUME NEW i \in 1..n  PROVE Traced(notes[i], input)
    <3>1. ks[i] \in Playing /\ notes[i] = input[note_tbl[ks[i]]]  BY <1>1
    <3>. HIDE DEF notes
    <3>2. PICK j \in DOMAIN input : notes[i] = input[j]  BY <1>3, <3>1
    <3>. QED  BY <3>2, InputTraced
  <2>. QED  BY <1>1, <2>1
<1>5. notes = [i \in DOMAIN notes |-> notes[i]]  OBVIOUS
<1>. HIDE DEF notes
<1>. QED  BY <1>1, <1>2, <1>4, <1>5, TracesMap

LEMMA SignatureTraced ==
  ASSUME Positions, Tables, Named(input)
  PROVE  Traces(Signature, input)
<1>1. CASE timesig = 0  BY <1>1, TracesEmpty DEF Signature
<1>2. CASE timesig # 0
  <2>1. timesig \in 1..(pos - 1)  BY <1>2 DEF Tables
  <2>2. timesig \in DOMAIN input  BY <2>1, Places
  <2>3. Traced(input[timesig], input)  BY <2>2, InputTraced
  <2>. QED  BY <1>2, <2>3, TracesOne DEF Signature
<1>. QED  BY <1>1, <1>2

LEMMA FlushedTraced ==
  ASSUME NEW s, NEW k, Controls(ctrl_tbl[k], s)
  PROVE  Traces(Flushed(k), s)
<1>. DEFINE l == ctrl_tbl[k]
<1>1. CASE l # <<>> /\ Last(l).ctype # "Pt" /\ Last(l).time < begin_time
  <2>1. l \in Seq(Elements(l)) /\ Len(l) \in Nat /\ DOMAIN l = 1..Len(l)
    BY LenProperties DEF Controls, Traces, List
  <2>2. Len(l) # 0  BY <1>1, <2>1, EmptySeq
  <2>3. Traced(Last(l), s)  BY <2>1, <2>2 DEF Controls, Traces, Last
  <2>4. Flushed(k) = <<Last(l)>>  BY <1>1 DEF Flushed
  <2>. HIDE DEF l
  <2>. QED  BY <2>3, <2>4, TracesOne
<1>2. CASE ~(l # <<>> /\ Last(l).ctype # "Pt" /\ Last(l).time < begin_time)
  <2>1. Flushed(k) = <<>>  BY <1>2 DEF Flushed
  <2>. QED  BY <2>1, TracesEmpty
<1>. QED  BY <1>1, <1>2

(* What is flushed before another event.                                   *)
LEMMA FlushTraced ==
  ASSUME NEW s, \A k \in Ctrl : Controls(ctrl_tbl[k], s), NEW keys \in SUBSET Ctrl
  PROVE  Traces(FlushAll(keys), s)
<1>. DEFINE n == Cardinality(keys)
            q == [i \in 1..n |-> Flushed(SetToSeq(keys)[i])]
<1>1. IsFiniteSet(keys)  BY KeyAssumption, FS_Subset
<1>2. n \in Nat /\ SetToSeq(keys) \in [1..n -> keys]  BY <1>1, SetSeq
<1>3. \A k \in Ctrl : Traces(Flushed(k), s)  BY FlushedTraced
<1>4. FlushAll(keys) = FlattenSeq(q)  BY DEF FlushAll
<1>. HIDE DEF n
<1>5. DOMAIN q = 1..n /\ \A i \in 1..n : Traces(q[i], s)  BY <1>2, <1>3
<1>6. q = [i \in DOMAIN q |-> q[i]]  OBVIOUS
<1>. HIDE DEF q
<1>. QED  BY <1>2, <1>4, <1>5, <1>6, TracesFlat

LEMMA MadeFresh ==
  ASSUME Len(input) \in Nat, DOMAIN input = 1..Len(input), Len(tmp) \in Nat, NEW i \in Nat \ {0}
  PROVE  Made(i) \notin DOMAIN input
<1>1. PICK m, n : m = Len(input) /\ n = Len(tmp)  OBVIOUS
<1>2. m \in Nat /\ n \in Nat /\ Made(i) = m + n + i /\ DOMAIN input = 1..m  BY <1>1 DEF Made
<1>. QED  BY <1>2

(* Note-offs that the scan makes.                                          *)
LEMMA OffsNotes ==
  ASSUME Len(input) \in Nat, DOMAIN input = 1..Len(input), Len(tmp) \in Nat, NEW time
  PROVE  Offs(sim_all_notes_off(time), input)
<1>. DEFINE ks == SetToSeq(Playing)
            n == Cardinality(Playing)
            offs == [i \in DOMAIN ks |-> note_off(i, time, ks[i])]
<1>1. n \in Nat /\ ks \in [1..n -> Playing]  BY PlayingSeq
<1>2. sim_all_notes_off(time) = offs  BY DEF sim_all_notes_off, Playing
<1>. HIDE DEF ks, n
<1>3. DOMAIN offs = 1..n /\ offs \in [1..n -> Elements(offs)]  BY <1>1 DEF Elements
<1>4. ASSUME NEW i \in 1..n  PROVE offs[i].type = "off" /\ offs[i].id \notin DOMAIN input
  <2>1. offs[i].type = "off" /\ offs[i].id = Made(i)  BY <1>1 DEF note_off, Event
  <2>2. i \in Nat \ {0}  BY <1>1
  <2>3. Made(i) \notin DOMAIN input  BY <2>2, MadeFresh
  <2>. HIDE DEF offs
  <2>. QED  BY <2>1, <2>3
<1>. HIDE DEF offs
<1>5. List(offs)  BY <1>1, <1>3, SeqDef DEF List
<1>. QED  BY <1>2, <1>3, <1>4, <1>5 DEF Offs

LEMMA OffNote ==
  ASSUME Len(input) \in Nat, DOMAIN input = 1..Len(input), Len(tmp) \in Nat, NEW time, NEW k
  PROVE  Offs(<<note_off(1, time, k)>>, input)
<1>1. PICK o : o = note_off(1, time, k)  OBVIOUS
<1>2. o.type = "off" /\ o.id = Made(1)  BY <1>1 DEF note_off, Event
<1>3. o.id \notin DOMAIN input  BY <1>2, MadeFresh
<1>4. <<o>> \in Seq({o}) /\ DOMAIN <<o>> = {1} /\ <<o>>[1] = o  OBVIOUS
<1>5. List(<<o>>)  BY <1>4, ListOf
<1>. QED  BY <1>1, <1>2, <1>3, <1>4, <1>5 DEF Offs

LEMMA NoOffs == ASSUME NEW s  PROVE Offs(<<>>, s)
BY ListEmpty DEF Offs
-----------------------------------------------------------------------------
(* A scan in progress: its input is named, the partners of notes are       *)
(* notes, and what it has written and holds back is made of its input.     *)
Scanned ==
  /\ Named(input) /\ Pairs(partner, input) /\ Traces(tmp, input)
  /\ \A k \in Ctrl : Controls(ctrl_tbl[k], input)

LEMMA Around ==
  ASSUME Positions, Scanned
  PROVE  /\ Len(input) \in Nat /\ DOMAIN input = 1..Len(input) /\ 0 \notin DOMAIN input
         /\ Len(tmp) \in Nat
<1>1. Len(input) \in Nat /\ DOMAIN input = 1..Len(input)  BY Places
<1>2. Len(tmp) \in Nat  BY ListOf DEF Scanned, Traces, List
<1>. QED  BY <1>1, <1>2

LEMMA Present ==
  ASSUME ScanInv, Scanned, stage = "event"
  PROVE  /\ Positions /\ Tables /\ pos \in DOMAIN input /\ Fit(ep, {cur_time})
         /\ Traced(ep, input) /\ ep.id = pos /\ ep.type = input[pos].type
<1>1. Positions /\ Tables /\ pos \in DOMAIN input /\ ep = input[pos] /\ Fit(ep, {cur_time})
  BY Here
<1>2. Traced(ep, input) /\ ep.id = pos  BY <1>1, InputTraced DEF Scanned, Named
<1>. QED  BY <1>1, <1>2

LEMMA ScannedOn ==
  ASSUME Scanned, input' = input, ctrl_tbl' = ctrl_tbl, Pairs(partner', input),
         Traces(tmp', input)
  PROVE  Scanned'
BY DEF Scanned

(* Each step of the scan keeps it so.                                      *)
LEMMA NoteOnScanned == ASSUME ScanInv, Scanned, E_NoteOn  PROVE Scanned'
<1>0. stage = "event" /\ input' = input /\ ctrl_tbl' = ctrl_tbl
  BY DEF E_NoteOn, Case
<1>1. /\ Positions /\ Traced(ep, input) /\ Pairs(partner, input) /\ Traces(tmp, input)
      /\ Len(input) \in Nat /\ DOMAIN input = 1..Len(input) /\ 0 \notin DOMAIN input
      /\ Len(tmp) \in Nat
  BY <1>0, Present, Around DEF Scanned
<1>. DEFINE k == ep.key
            off == IF Retriggers(k) THEN <<note_off(1, cur_time, k)>> ELSE <<>>
<1>2. Offs(off, input)
  <2>1. Offs(<<note_off(1, cur_time, k)>>, input)  BY <1>1, OffNote
  <2>. QED  BY <2>1, NoOffs
<1>3. \/ tmp' = tmp /\ partner' = partner
      \/ tmp' = tmp /\ \E i : partner' = Freed(partner, i)
      \/ tmp' = tmp \o off \o <<ep>> /\ partner' = Partnered(partner, off)
  BY DEF E_NoteOn
<1>. HIDE DEF off
<1>4. \A i : Pairs(Freed(partner, i), input)  BY <1>1, PairsFreed DEF Freed
<1>5. Pairs(Partnered(partner, off), input)  BY <1>1, <1>2, PairsPartnered
<1>6. Traces(tmp \o off \o <<ep>>, input)
  <2>1. Traces(tmp \o off, input)  BY <1>1, <1>2, OffsTraced, TracesJoin
  <2>2. Traces(<<ep>>, input)  BY <1>1, TracesOne
  <2>. QED  BY <2>1, <2>2, TracesJoin
<1>. QED  BY <1>0, <1>1, <1>3, <1>4, <1>5, <1>6, ScannedOn

LEMMA NoteOffScanned == ASSUME ScanInv, Scanned, E_NoteOff  PROVE Scanned'
<1>0. stage = "event" /\ input' = input /\ ctrl_tbl' = ctrl_tbl /\ ep.type = "off"
  BY DEF E_NoteOff, Case
<1>1. /\ Positions /\ Traced(ep, input) /\ Pairs(partner, input) /\ Traces(tmp, input)
      /\ Len(input) \in Nat /\ DOMAIN input = 1..Len(input) /\ 0 \notin DOMAIN input
      /\ Len(tmp) \in Nat /\ Fit(ep, {cur_time}) /\ ep.id = pos /\ ep.type = input[pos].type
  BY <1>0, Present, Around DEF Scanned
<1>. DEFINE e == [ep EXCEPT !.irregular = cur_time = input[note_tbl[ep.key]].time]
<1>2. e.type = "off" /\ e.id = ep.id  BY <1>0, <1>1 DEF Fit, Fields
<1>3. \/ tmp' = tmp /\ \E i : partner' = Freed(partner, i)
      \/ tmp' = Append(tmp, ep) /\ partner' = partner
      \/ tmp' = tmp \o <<e>> /\ partner' = Partnered(partner, <<e>>)
      \/ tmp' = tmp /\ partner' = [partner EXCEPT ![ep.id] = 0]
  BY DEF E_NoteOff
<1>. HIDE DEF e
<1>4. Offs(<<e>>, input)
  <2>1. <<e>> \in Seq({e}) /\ DOMAIN <<e>> = {1} /\ <<e>>[1] = e  OBVIOUS
  <2>2. List(<<e>>)  BY <2>1, ListOf
  <2>. QED  BY <1>0, <1>1, <1>2, <2>1, <2>2 DEF Offs
<1>5. \A i : Pairs(Freed(partner, i), input)  BY <1>1, PairsFreed DEF Freed
<1>6. Pairs(Partnered(partner, <<e>>), input)  BY <1>1, <1>4, PairsPartnered
<1>7. Pairs([partner EXCEPT ![ep.id] = 0], input)
  <2>1. PICK x : x = ep.id  OBVIOUS
  <2>2. Pairs([partner EXCEPT ![x] = 0], input)  BY <1>1, PairsZero
  <2>. QED  BY <2>1, <2>2
<1>8. Traces(tmp \o <<e>>, input)  BY <1>1, <1>4, OffsTraced, TracesJoin
<1>9. Traces(Append(tmp, ep), input)  BY <1>1, TracesAppend
<1>. QED  BY <1>0, <1>1, <1>3, <1>5, <1>6, <1>7, <1>8, <1>9, ScannedOn

LEMMA AllNotesOffScanned == ASSUME ScanInv, Scanned, E_AllNotesOff  PROVE Scanned'
<1>0. stage = "event" /\ input' = input /\ ctrl_tbl' = ctrl_tbl
  BY DEF E_AllNotesOff, Case
<1>1. /\ Positions /\ Traced(ep, input) /\ Pairs(partner, input) /\ Traces(tmp, input)
      /\ Len(input) \in Nat /\ DOMAIN input = 1..Len(input) /\ Len(tmp) \in Nat
  BY <1>0, Present, Around DEF Scanned
<1>2. PICK offs : offs = sim_all_notes_off(cur_time)  OBVIOUS
<1>3. Offs(offs, input)  BY <1>1, <1>2, OffsNotes
<1>4. \/ tmp' = tmp /\ partner' = partner
      \/ tmp' = tmp \o offs /\ partner' = Partnered(partner, offs)
      \/ tmp' = Append(tmp, ep) /\ partner' = partner
  BY <1>2 DEF E_AllNotesOff
<1>5. Pairs(Partnered(partner, offs), input)  BY <1>1, <1>3, PairsPartnered
<1>6. Traces(tmp \o offs, input)  BY <1>1, <1>3, OffsTraced, TracesJoin
<1>7. Traces(Append(tmp, ep), input)  BY <1>1, TracesAppend
<1>. QED  BY <1>0, <1>1, <1>4, <1>5, <1>6, <1>7, ScannedOn

LEMMA BarrierScanned ==
  ASSUME ScanInv, Scanned, stage = "event", input' = input, NEW keys \in SUBSET Ctrl,
         Barrier(keys)
  PROVE  Scanned'
<1>1. /\ Traced(ep, input) /\ Pairs(partner, input) /\ Traces(tmp, input)
      /\ \A k \in Ctrl : Controls(ctrl_tbl[k], input) /\ Named(input)
  BY Present DEF Scanned
<1>2. /\ tmp' = tmp \o FlushAll(keys) \o (IF output # 3 THEN <<ep>> ELSE <<>>)
      /\ ctrl_tbl' = Emptied(keys) /\ partner' = partner
  BY DEF Barrier
<1>3. Traces(FlushAll(keys), input)  BY <1>1, FlushTraced
<1>4. Traces(IF output # 3 THEN <<ep>> ELSE <<>>, input)  BY <1>1, TracesOne, TracesEmpty
<1>5. Traces(tmp', input)
  <2>1. Traces(tmp \o FlushAll(keys), input)  BY <1>1, <1>3, TracesJoin
  <2>. QED  BY <1>2, <1>4, <2>1, TracesJoin
<1>6. \A k \in Ctrl : Controls(ctrl_tbl'[k], input)
  <2>1. \A k \in Ctrl : ctrl_tbl'[k] \in {<<>>, ctrl_tbl[k]}  BY <1>2 DEF Emptied
  <2>. QED  BY <1>1, <2>1, TracesEmpty
<1>. QED  BY <1>1, <1>2, <1>5, <1>6 DEF Scanned

LEMMA CasesScanned ==
  ASSUME ScanInv, Scanned, E_ResetAllCtrl \/ E_RPN \/ E_Text \/ E_TimeSig \/ Other
  PROVE  Scanned'
<1>0. stage = "event" /\ input' = input
  BY DEF E_ResetAllCtrl, E_RPN, E_Text, E_TimeSig, Other, Case
<1>1. CASE E_ResetAllCtrl
  <2>1. Change \in SUBSET Ctrl  BY KeyAssumption
  <2>. QED  BY <1>0, <1>1, <2>1, BarrierScanned DEF E_ResetAllCtrl
<1>2. CASE E_RPN
  <2>1. DataEntry \in SUBSET Ctrl  BY KeyAssumption
  <2>. QED  BY <1>0, <1>2, <2>1, BarrierScanned DEF E_RPN
<1>3. CASE E_Text \/ E_TimeSig \/ Other
  <2>1. tmp' \in {tmp, Append(tmp, ep)} /\ partner' = partner /\ ctrl_tbl' = ctrl_tbl
    BY <1>3 DEF E_Text, E_TimeSig, Other
  <2>2. Traced(ep, input) /\ Traces(tmp, input) /\ Pairs(partner, input)
    BY <1>0, Present DEF Scanned
  <2>3. Traces(Append(tmp, ep), input)  BY <2>2, TracesAppend
  <2>. QED  BY <1>0, <2>1, <2>2, <2>3, ScannedOn
<1>. QED  BY <1>1, <1>2, <1>3

LEMMA ControlScanned == ASSUME ScanInv, Scanned, E_Ctrl, stage' = "check"  PROVE Scanned'
<1>0. stage = "event" /\ input' = input /\ partner' = partner /\ ep.type = "ctrl"
  BY DEF E_Ctrl
<1>1. /\ Positions /\ Tables /\ Traced(ep, input) /\ Pairs(partner, input) /\ Traces(tmp, input)
      /\ 0 \notin DOMAIN input /\ Fit(ep, {cur_time}) /\ Named(input)
      /\ \A k \in Ctrl : Controls(ctrl_tbl[k], input)
      /\ begin_time \in Int /\ term_time \in Int /\ cur_time \in Nat
  BY <1>0, Present, Around, Here DEF Scanned
<1>. DEFINE k == ep.key
            l == ctrl_tbl[k]
            e == Valued(ep)
            S(new) == ctrl_tbl' = [ctrl_tbl EXCEPT ![k] = new]
<1>2. k \in Ctrl /\ ctrl_tbl = [n \in Ctrl |-> ctrl_tbl[n]]
  BY <1>0, <1>1 DEF Fit, Keyed, Tables
<1>3. Controls(l, input) /\ Timed(l, 0..cur_time)  BY <1>1, <1>2 DEF Tables
<1>4. Fit(e, {cur_time}) /\ e.id = ep.id /\ e.type = "ctrl" /\ e.key = k
  <2>1. /\ DOMAIN e = DOMAIN ep /\ e.time = ep.time /\ e.type = ep.type /\ e.key = ep.key
        /\ e.id = ep.id
    <3>1. e = ep \/ \E v : e = [ep EXCEPT !.val = v]  BY DEF Valued
    <3>2. DOMAIN ep = Fields  BY <1>1 DEF Fit
    <3>. HIDE DEF e
    <3>. QED  BY <3>1, <3>2 DEF Fields
  <2>. HIDE DEF e
  <2>. QED  BY <1>0, <1>1, <2>1 DEF Fit, Keyed
<1>. HIDE DEF e
<1>5. Traced(e, input) /\ Fit(e, 0..cur_time)
  <2>1. Traced(e, input)  BY <1>0, <1>1, <1>4 DEF Traced
  <2>2. cur_time \in 0..cur_time  BY <1>1
  <2>. QED  BY <1>4, <2>1, <2>2 DEF Fit
<1>6. Normal(e).id = e.id /\ Normal(e).type = "ctrl"
  BY <1>4 DEF Normal, Fit, Fields
<1>7. Traced(Normal(e), input)  BY <1>5, <1>4, <1>6 DEF Traced
<1>8. \A new \in {<<e>> \o l, <<Normal(e)>>, <<e>>, <<>>, l} : Controls(new, input)
  <2>1. Controls(<<e>>, input) /\ Controls(<<Normal(e)>>, input) /\ Controls(<<>>, input)
    BY <1>4, <1>5, <1>6, <1>7, TracesOne, TracesEmpty
  <2>2. Controls(<<e>> \o l, input)
    <3>1. PICK a, c : a = <<e>> /\ c = l  OBVIOUS
    <3>2. Traces(a, input) /\ Traces(c, input) /\ Controls(a, input) /\ Controls(c, input)
      BY <1>3, <2>1, <3>1 DEF Controls
    <3>3. Controls(a \o c, input)  BY <3>2, TracesJoin
    <3>. QED  BY <3>1, <3>3
  <2>. QED  BY <1>3, <2>1, <2>2
<1>9. stage' # "error"  BY stage' = "check"
<1>10. /\ \E new \in {<<e>> \o l, <<Normal(e)>>, <<e>>, <<>>, l} :
            S(new) \/ ctrl_tbl' = ctrl_tbl
       /\ \/ tmp' = tmp
          \/ \E f \in {<<>>, Flushed(k)}, g \in {<<>>, <<e>>} : tmp' = tmp \o f \o g
          \/ Drawable(e, l) /\ tmp' = tmp \o Drawn(e, l)
  <2>1. CASE /\ S(IF e.ctype = "Pt" THEN <<e>> \o l ELSE <<Normal(e)>>)
             /\ UNCHANGED tmp
    BY <2>1
  <2>2. CASE /\ tmp' = tmp \o (IF output = 1 THEN <<>> ELSE Flushed(k))
                           \o (IF output < 3 THEN <<e>> ELSE <<>>)
             /\ S(IF output < 3 THEN <<e>> ELSE <<>>)
    <3>. DEFINE f == IF output = 1 THEN <<>> ELSE Flushed(k)
                g == IF output < 3 THEN <<e>> ELSE <<>>
    <3>1. f \in {<<>>, Flushed(k)} /\ g \in {<<>>, <<e>>} /\ tmp' = tmp \o f \o g
      BY <2>2
    <3>2. \E new \in {<<e>> \o l, <<Normal(e)>>, <<e>>, <<>>, l} : S(new)  BY <2>2
    <3>. HIDE DEF f, g, S
    <3>. QED  BY <3>1, <3>2
  <2>3. CASE /\ S(IF output < 3 \/ l # <<>> THEN <<e>> \o l ELSE l)
             /\ UNCHANGED tmp
    BY <2>3
  <2>4. CASE /\ Drawable(e, l)
             /\ tmp' = tmp \o Drawn(e, l)
             /\ S(IF output < 3 THEN <<Normal(e)>> ELSE <<>>)
    BY <2>4
  <2>5. CASE UNCHANGED <<tmp, ctrl_tbl>>  BY <2>5
  <2>6. \/ /\ S(IF e.ctype = "Pt" THEN <<e>> \o l ELSE <<Normal(e)>>)
           /\ UNCHANGED tmp
        \/ /\ tmp' = tmp \o (IF output = 1 THEN <<>> ELSE Flushed(k))
                         \o (IF output < 3 THEN <<e>> ELSE <<>>)
           /\ S(IF output < 3 THEN <<e>> ELSE <<>>)
        \/ /\ S(IF output < 3 \/ l # <<>> THEN <<e>> \o l ELSE l)
           /\ UNCHANGED tmp
        \/ /\ Drawable(e, l)
           /\ tmp' = tmp \o Drawn(e, l)
           /\ S(IF output < 3 THEN <<Normal(e)>> ELSE <<>>)
        \/ UNCHANGED <<tmp, ctrl_tbl>>
        \/ stage' = "error"
    BY Zenon DEF E_Ctrl, e
  <2>. HIDE DEF S
  <2>. QED  BY <1>9, <2>1, <2>2, <2>3, <2>4, <2>5, <2>6
<1>11. \A n \in Ctrl : Controls(ctrl_tbl'[n], input)
  <2>1. PICK new \in {<<e>> \o l, <<Normal(e)>>, <<e>>, <<>>, l} :
          S(new) \/ ctrl_tbl' = ctrl_tbl
    BY <1>10
  <2>2. Controls(new, input)  BY <1>8
  <2>3. CASE S(new)
    <3>1. \A n \in Ctrl : ctrl_tbl'[n] = IF n = k THEN new ELSE ctrl_tbl[n]
      BY <1>2, <2>3
    <3>. QED  BY <1>1, <2>2, <3>1
  <2>4. CASE ctrl_tbl' = ctrl_tbl  BY <1>1, <2>4
  <2>. QED  BY <2>1, <2>3, <2>4
<1>12. Traces(tmp', input)
  <2>1. CASE tmp' = tmp  BY <1>1, <2>1
  <2>2. ASSUME NEW f \in {<<>>, Flushed(k)}, NEW g \in {<<>>, <<e>>}, tmp' = tmp \o f \o g
        PROVE  Traces(tmp', input)
    <3>1. Traces(f, input)  BY <1>3, FlushedTraced, TracesEmpty
    <3>2. Traces(g, input)  BY <1>5, TracesOne, TracesEmpty
    <3>3. Traces(tmp \o f, input)  BY <1>1, <3>1, TracesJoin
    <3>. QED  BY <2>2, <3>2, <3>3, TracesJoin
  <2>3. CASE Drawable(e, l) /\ tmp' = tmp \o Drawn(e, l)
    <3>1. PICK d, m, c : d = Drawn(e, l) /\ m = cur_time /\ c = l  OBVIOUS
    <3>2. /\ Timed(d, LineTimes(m))
          /\ \A i \in DOMAIN d : MadeOf(d[i], <<e>>) \/ MadeOf(d[i], c)
      <4>1. Ranged  BY <1>1 DEF Ranged
      <4>2. m \in Nat /\ Fit(e, 0..m) /\ Timed(c, 0..m) /\ Drawable(e, c) /\ d = Drawn(e, c)
        BY <1>1, <1>3, <1>5, <2>3, <3>1
      <4>. QED  BY <4>1, <4>2, DrawnTimed
    <3>3. Controls(<<e>>, input) /\ Controls(c, input)
      BY <1>3, <1>4, <1>5, <3>1, TracesOne
    <3>4. \A i \in DOMAIN d : Traced(d[i], input)  BY <1>1, <3>2, <3>3, MadeTraced
    <3>5. List(d)  BY <3>2 DEF Timed, List
    <3>6. Traces(d, input)  BY <3>4, <3>5 DEF Traces
    <3>. QED  BY <1>1, <2>3, <3>1, <3>6, TracesJoin
  <2>. QED  BY <1>10, <2>1, <2>2, <2>3
<1>. QED  BY <1>0, <1>1, <1>11, <1>12 DEF Scanned
-----------------------------------------------------------------------------
LEMMA RangeScanned == ASSUME ScanInv, Scanned, check_range  PROVE Scanned'
<1>. DEFINE reached == IF output = 0 /\ ep.time = begin_time THEN 1 ELSE output
            starts == reached < 2 /\ ep.time > begin_time
            began == IF starts THEN 2 ELSE reached
            stops == began = 2 /\ ep.time >= end_time
            cut == Cut /\ began <= 2 /\ ~stops
            offs == IF stops THEN sim_all_notes_off(term_time)
                    ELSE IF cut /\ began = 2 THEN sim_all_notes_off(ep.time) ELSE <<>>
            start == IF starts THEN PlayingNotes \o Signature ELSE <<>>
            ended == IF starts THEN FreedAll(partner, EndedNotes) ELSE partner
            named == [i \in DOMAIN offs |->
                       [offs[i] EXCEPT !.id = Made(Len(start) + i)]]
<1>1. /\ stage = "check" /\ pos <= Len(input) /\ UNCHANGED <<input, ctrl_tbl>>
      /\ tmp' = tmp \o start \o named \o (IF cut THEN <<ep>> ELSE <<>>)
      /\ partner' = Partnered(ended, named)
  BY DEF check_range
<1>2. Positions /\ Tables  BY <1>1 DEF ScanInv
<1>3. /\ Len(input) \in Nat /\ DOMAIN input = 1..Len(input) /\ 0 \notin DOMAIN input
      /\ Len(tmp) \in Nat /\ Pairs(partner, input) /\ Traces(tmp, input) /\ Named(input)
  BY <1>2, Around DEF Scanned
<1>4. Traced(ep, input)
  <2>1. ep = input[pos] /\ pos \in Nat \ {0}  BY <1>2 DEF ep, Positions
  <2>2. pos \in DOMAIN input
    <3>1. PICK m, n : m = pos /\ n = Len(input)  OBVIOUS
    <3>2. m <= n  BY <1>1, <3>1
    <3>3. m \in Nat \ {0} /\ n \in Nat /\ DOMAIN input = 1..n  BY <1>3, <2>1, <3>1
    <3>. QED  BY <3>1, <3>2, <3>3
  <2>. QED  BY <1>3, <2>1, <2>2, InputTraced
<1>5. Traces(IF cut THEN <<ep>> ELSE <<>>, input)  BY <1>4, TracesOne, TracesEmpty
<1>6. Offs(offs, input) /\ \E T : Timed(offs, T)
  <2>1. \A t : Offs(sim_all_notes_off(t), input)  BY <1>3, OffsNotes
  <2>2. \A t : Timed(sim_all_notes_off(t), {t})  BY OffsTimed
  <2>3. \A T : Timed(<<>>, T)  BY TimedEmpty
  <2>. HIDE DEF stops, cut, began
  <2>4. CASE stops
    <3>1. PICK t : t = term_time  OBVIOUS
    <3>2. offs = sim_all_notes_off(t)  BY <2>4, <3>1
    <3>. HIDE DEF offs
    <3>. QED  BY <2>1, <2>2, <3>2
  <2>5. CASE ~stops /\ cut /\ began = 2
    <3>1. PICK t : t = ep.time  OBVIOUS
    <3>2. offs = sim_all_notes_off(t)  BY <2>5, <3>1
    <3>. HIDE DEF offs
    <3>. QED  BY <2>1, <2>2, <3>2
  <2>6. CASE ~stops /\ ~(cut /\ began = 2)
    <3>1. offs = <<>>  BY <2>6
    <3>. HIDE DEF offs
    <3>. QED  BY <2>3, <3>1, NoOffs
  <2>. QED  BY <2>4, <2>5, <2>6
<1>. HIDE DEF offs, cut
<1>7. Traces(start, input)
  <2>1. Traces(PlayingNotes \o Signature, input)
    BY <1>2, <1>3, PlayingTraced, SignatureTraced, TracesJoin
  <2>. QED  BY <2>1, TracesEmpty
<1>8. Pairs(ended, input)  BY <1>3, PairsFreed
<1>. HIDE DEF start, ended
<1>9. Offs(named, input)
  <2>1. Len(start) \in Nat  BY <1>7, ListOf DEF Traces, List
  <2>2. PICK n \in Nat : n = Len(offs) /\ DOMAIN offs = 1..n
    BY <1>6, ListOf DEF Offs, List
  <2>3. DOMAIN named = 1..n /\ named \in [1..n -> Elements(named)]  BY <2>2 DEF Elements
  <2>4. ASSUME NEW i \in 1..n
        PROVE  named[i].type = "off" /\ named[i].id \notin DOMAIN input
    <3>1. PICK o, m : o = offs[i] /\ m = Len(start) + i  OBVIOUS
    <3>2. o.type = "off" /\ DOMAIN o = Fields  BY <1>6, <2>2, <3>1 DEF Offs, Timed, Fit
    <3>3. named[i] = [o EXCEPT !.id = Made(m)]  BY <2>2, <3>1
    <3>4. m \in Nat \ {0}  BY <2>1, <3>1
    <3>5. Made(m) \notin DOMAIN input  BY <1>3, <3>4, MadeFresh
    <3>6. named[i].type = "off" /\ named[i].id = Made(m)
      <4>. HIDE DEF named
      <4>. QED  BY <3>2, <3>3 DEF Fields
    <3>. QED  BY <3>5, <3>6
  <2>. HIDE DEF named
  <2>5. List(named)  BY <2>3, SeqDef DEF List
  <2>. QED  BY <2>3, <2>4, <2>5 DEF Offs
<1>. HIDE DEF named
<1>10. Pairs(partner', input)  BY <1>1, <1>8, <1>9, PairsPartnered
<1>11. Traces(tmp', input)
  <2>1. Traces(tmp \o start, input)  BY <1>3, <1>7, TracesJoin
  <2>2. Traces(tmp \o start \o named, input)  BY <1>9, <2>1, OffsTraced, TracesJoin
  <2>3. Traces(tmp \o start \o named \o (IF cut THEN <<ep>> ELSE <<>>), input)
    BY <1>5, <2>2, TracesJoin
  <2>. QED  BY <1>1, <2>3
<1>. QED  BY <1>1, <1>10, <1>11, ScannedOn

LEMMA ShiftedKeeps ==
  ASSUME NEW e, NEW T, Fit(e, T)
  PROVE  Shifted(e).id = e.id /\ Shifted(e).type = e.type
<1>1. Shifted(e) = e \/ \E t : Shifted(e) = [e EXCEPT !.time = t]  BY DEF Shifted
<1>2. DOMAIN e = Fields  BY DEF Fit
<1>. QED  BY <1>1, <1>2 DEF Fields

LEMMA FinishScanned == ASSUME ScanInv, Scanned, finish  PROVE Scanned'
<1>. DEFINE offs == IF Does("Retrigger") /\ output = 2
                    THEN sim_all_notes_off(cur_time) ELSE <<>>
            sign == IF output < 2 THEN Signature ELSE <<>>
            all == tmp \o offs \o FlushAll(Ctrl) \o sign
<1>1. /\ stage = "check" /\ UNCHANGED input /\ ctrl_tbl' = Emptied(Ctrl)
      /\ tmp' = IF Does("TimeRange") THEN [i \in DOMAIN all |-> Shifted(all[i])] ELSE all
      /\ partner' = Partnered(partner, offs)
  BY DEF finish
<1>2. Positions /\ Tables /\ Timed(tmp, Reached)  BY <1>1 DEF ScanInv
<1>3. /\ Len(input) \in Nat /\ DOMAIN input = 1..Len(input) /\ 0 \notin DOMAIN input
      /\ Len(tmp) \in Nat /\ Pairs(partner, input) /\ Traces(tmp, input) /\ Named(input)
      /\ \A k \in Ctrl : Controls(ctrl_tbl[k], input)
      /\ begin_time \in Int /\ cur_time \in Nat
  BY <1>2, Around DEF Scanned, Positions
<1>4. Offs(offs, input) /\ Timed(offs, Int)
  <2>1. PICK t \in Int : t = cur_time  BY <1>3
  <2>2. Offs(sim_all_notes_off(t), input) /\ Timed(sim_all_notes_off(t), Int)
    BY <1>3, OffsNotes, OffsTimed
  <2>. QED  BY <2>1, <2>2, NoOffs, TimedEmpty
<1>5. Traces(sign, input) /\ Timed(sign, Int)
  <2>1. Traces(Signature, input)  BY <1>2, <1>3, SignatureTraced
  <2>2. Timed(Signature, Int)
    <3>1. \A i \in DOMAIN input : i < pos => input[i].time \in Int  BY <1>2, Places
    <3>. QED  BY <1>2, <3>1, SignatureTimed
  <2>. QED  BY <2>1, <2>2, TracesEmpty, TimedEmpty
<1>6. Traces(FlushAll(Ctrl), input) /\ Timed(FlushAll(Ctrl), Int)
  <2>1. Traces(FlushAll(Ctrl), input)  BY <1>3, FlushTraced
  <2>2. {t \in Nat : t <= begin_time} \subseteq Int  OBVIOUS
  <2>. QED  BY <1>2, <1>3, <2>1, <2>2, FlushTimed
<1>. HIDE DEF offs, sign
<1>7. Traces(all, input) /\ Timed(all, Int)
  <2>1. Reached \subseteq Int  BY DEF Reached, Ended, Passed
  <2>2. Timed(tmp, Int)  BY <1>2, <2>1, TimedMore
  <2>3. Traces(tmp \o offs, input) /\ Timed(tmp \o offs, Int)
    BY <1>3, <1>4, <2>2, OffsTraced, TracesJoin, TimedJoin
  <2>4. Traces(tmp \o offs \o FlushAll(Ctrl), input) /\ Timed(tmp \o offs \o FlushAll(Ctrl), Int)
    BY <1>6, <2>3, TracesJoin, TimedJoin
  <2>. QED  BY <1>5, <2>4, TracesJoin, TimedJoin
<1>. HIDE DEF all
<1>8. Traces(tmp', input)
  <2>1. CASE Does("TimeRange")
    <3>1. PICK u : u = tmp'  OBVIOUS
    <3>2. u = [i \in DOMAIN all |-> Shifted(all[i])]  BY <1>1, <2>1, <3>1
    <3>3. PICK n \in Nat : DOMAIN all = 1..n  BY <1>7, ListOf DEF Traces, List
    <3>4. DOMAIN u = 1..n /\ u = [i \in DOMAIN u |-> u[i]]  BY <3>2, <3>3
    <3>5. ASSUME NEW i \in 1..n  PROVE Traced(u[i], input)
      <4>1. PICK e : e = all[i]  OBVIOUS
      <4>2. Traced(e, input) /\ Fit(e, Int)  BY <1>7, <3>3, <4>1 DEF Traces, Timed
      <4>3. u[i].id = e.id /\ u[i].type = e.type  BY <3>2, <3>3, <4>1, <4>2, ShiftedKeeps
      <4>. QED  BY <4>2, <4>3 DEF Traced
    <3>6. Traces(u, input)  BY <3>4, <3>5, TracesMap
    <3>. QED  BY <3>1, <3>6
  <2>2. CASE ~Does("TimeRange")  BY <1>1, <1>7, <2>2
  <2>. QED  BY <2>1, <2>2
<1>9. Pairs(partner', input)  BY <1>1, <1>3, <1>4, PairsPartnered
<1>10. \A k \in Ctrl : Controls(ctrl_tbl'[k], input)
  BY <1>1, TracesEmpty DEF Emptied
<1>. QED  BY <1>1, <1>3, <1>8, <1>9, <1>10 DEF Scanned

LEMMA ScanScanned == ASSUME ScanInv, Scanned, Scan, stage' # "error"  PROVE Scanned'
<1>1. CASE check_range  BY <1>1, RangeScanned
<1>2. CASE E_NoteOn  BY <1>2, NoteOnScanned
<1>3. CASE E_NoteOff  BY <1>3, NoteOffScanned
<1>4. CASE E_AllNotesOff  BY <1>4, AllNotesOffScanned
<1>5. CASE E_ResetAllCtrl \/ E_RPN \/ E_Text \/ E_TimeSig \/ Other  BY <1>5, CasesScanned
<1>6. CASE E_Ctrl
  <2>1. stage' = "check"  BY <1>6 DEF E_Ctrl
  <2>. QED  BY <1>6, <2>1, ControlScanned
<1>7. CASE finish  BY <1>7, FinishScanned
<1>. QED  BY <1>1, <1>2, <1>3, <1>4, <1>5, <1>6, <1>7 DEF Scan

(* A track: its events are named by their places, and the partner of a     *)
(* note is a note.                                                         *)
Matched(s, p) ==
  DOMAIN p = DOMAIN s /\ \A i \in DOMAIN s : s[i].type = "on" =>
    p[i] = 0 \/ (p[i] \in DOMAIN s /\ Noted(s[p[i]]))
Mated(t) == Named(t.events) /\ Matched(t.events, t.partners)

LEMMA BeginScanned ==
  ASSUME NEW t, Mated(t), 0 \notin DOMAIN t.events, NEW r, Begin(t.events, t.partners, r)
  PROVE  Scanned'
<1>1. /\ input' = t.events /\ partner' = t.partners /\ tmp' = <<>>
      /\ ctrl_tbl' = [k \in Ctrl |-> <<>>]
  BY DEF Begin
<1>2. PICK s, p : s = t.events /\ p = t.partners  OBVIOUS
<1>3. Named(s) /\ Pairs(p, s)  BY <1>2 DEF Mated, Matched, Pairs
<1>4. Traces(<<>>, s) /\ Controls(<<>>, s)  BY TracesEmpty
<1>. QED  BY <1>1, <1>2, <1>3, <1>4 DEF Scanned
-----------------------------------------------------------------------------
(* A list of events that are brought in order and renumbered: the partner  *)
(* of a note is, by its old name, a note.                                  *)
Sourced(s, p) ==
  \A j, x \in DOMAIN s :
    s[j].type = "on" /\ s[j].id # 0 /\ s[x].id # 0 /\ s[x].id = p[s[j].id] => Noted(s[x])

LEMMA SortFrom ==
  ASSUME NEW s, Timed(s, Nat)
  PROVE  \A k \in DOMAIN sort_event(s) : \E j \in DOMAIN s : sort_event(s)[k] = s[j]
<1>1. PICK n \in Nat : DOMAIN s = 1..n  BY ListOf DEF Timed
<1>2. \A k \in 1..n : \E j \in 1..n : Rank(s, j) = k
  <2>1. \A i \in 1..n : s[i].time \in Nat  BY <1>1 DEF Timed, Fit
  <2>. QED  BY <1>1, <2>1, Ranked
<1>3. PICK z : z = sort_event(s)  OBVIOUS
<1>4. z = [k \in DOMAIN s |-> s[CHOOSE j \in DOMAIN s : Rank(s, j) = k]]  BY <1>3, SortedBy
<1>5. ASSUME NEW k \in 1..n  PROVE \E j \in DOMAIN s : z[k] = s[j]
  <2>1. \E j \in DOMAIN s : Rank(s, j) = k  BY <1>1, <1>2
  <2>2. PICK j : j = CHOOSE i \in DOMAIN s : Rank(s, i) = k  OBVIOUS
  <2>3. j \in DOMAIN s  BY <2>1, <2>2
  <2>4. z[k] = s[j]  BY <1>1, <1>4, <2>2
  <2>. QED  BY <2>3, <2>4
<1>6. DOMAIN z = 1..n  BY <1>1, <1>4
<1>. QED  BY <1>3, <1>5, <1>6

(* Sorting and renumbering keep a note and its partner notes.              *)
LEMMA RenumberedMated ==
  ASSUME NEW T \in SUBSET Nat, NEW s, Timed(s, T), NEW p, Sourced(s, p)
  PROVE  Mated(Renumbered(s, p))
<1>. DEFINE place(z, i) == IF i # 0 /\ \E j \in DOMAIN z : z[j].id = i
                           THEN CHOOSE j \in DOMAIN z : z[j].id = i ELSE 0
<1>1. PICK z : z = sort_event(s)  OBVIOUS
<1>2. PICK l : l = [j \in DOMAIN z |-> [z[j] EXCEPT !.id = j]]  OBVIOUS
<1>3. PICK q : q = [j \in DOMAIN z |-> IF z[j].id = 0 THEN 0 ELSE place(z, p[z[j].id])]
  OBVIOUS
<1>4. Renumbered(s, p) = Track(l, q)
  BY <1>1, <1>2, <1>3 DEF Renumbered
<1>5. Timed(z, T) /\ DOMAIN z = DOMAIN s  BY <1>1, SortRises
<1>6. \A k \in DOMAIN z : \E j \in DOMAIN s : z[k] = s[j]
  <2>1. Timed(s, Nat)  BY TimedMore
  <2>. QED  BY <1>1, <2>1, SortFrom
<1>7. ASSUME NEW k \in DOMAIN z  PROVE l[k].id = k /\ l[k].type = z[k].type
  <2>1. PICK e : e = z[k]  OBVIOUS
  <2>2. l[k] = [e EXCEPT !.id = k]  BY <1>2, <2>1
  <2>3. DOMAIN e = Fields  BY <1>5, <2>1 DEF Timed, Fit
  <2>. QED  BY <2>1, <2>2, <2>3 DEF Fields
<1>8. DOMAIN l = DOMAIN z /\ DOMAIN q = DOMAIN z  BY <1>2, <1>3
<1>9. ASSUME NEW k \in DOMAIN z, l[k].type = "on", q[k] # 0
      PROVE  q[k] \in DOMAIN l /\ Noted(l[q[k]])
  <2>1. PICK i : i = p[z[k].id]  OBVIOUS
  <2>2. z[k].id # 0 /\ q[k] = place(z, i)  BY <1>3, <1>9, <2>1
  <2>3. i # 0 /\ \E j \in DOMAIN z : z[j].id = i  BY <1>9, <2>2
  <2>4. q[k] = CHOOSE j \in DOMAIN z : z[j].id = i  BY <2>2, <2>3
  <2>5. PICK x : x = q[k]  OBVIOUS
  <2>6. x \in DOMAIN z /\ z[x].id = i  BY <2>3, <2>4, <2>5
  <2>7. PICK a \in DOMAIN s : z[k] = s[a]  BY <1>6
  <2>8. PICK b \in DOMAIN s : z[x] = s[b]  BY <1>6, <2>6
  <2>9. s[a].type = "on"  BY <1>7, <1>9, <2>7
  <2>10. Noted(s[b])  BY <2>1, <2>2, <2>3, <2>6, <2>7, <2>8, <2>9 DEF Sourced
  <2>11. Noted(l[x])  BY <1>7, <2>6, <2>8, <2>10 DEF Noted
  <2>. QED  BY <1>8, <2>5, <2>6, <2>11
<1>10. Named(l)  BY <1>7, <1>8 DEF Named
<1>11. Matched(l, q)  BY <1>8, <1>9 DEF Matched
<1>12. PICK t : t = Track(l, q)  OBVIOUS
<1>13. t.events = l /\ t.partners = q  BY <1>12 DEF Track
<1>14. Mated(t)  BY <1>10, <1>11, <1>13 DEF Mated
<1>. QED  BY <1>4, <1>12, <1>14

LEMMA ScannedSourced ==
  ASSUME Scanned, 0 \notin DOMAIN input
  PROVE  Sourced(tmp, partner)
<1>. SUFFICES ASSUME NEW j \in DOMAIN tmp, NEW x \in DOMAIN tmp,
                     tmp[j].type = "on", tmp[j].id # 0, tmp[x].id # 0,
                     tmp[x].id = partner[tmp[j].id]
              PROVE  Noted(tmp[x])
  BY DEF Sourced
<1>1. Traced(tmp[j], input) /\ Traced(tmp[x], input)  BY DEF Scanned, Traces
<1>2. tmp[j].id \in DOMAIN input /\ input[tmp[j].id].type = "on"  BY <1>1 DEF Traced
<1>3. CASE tmp[x].id \in DOMAIN input
  <2>1. Noted(input[tmp[x].id])  BY <1>2, <1>3 DEF Scanned, Pairs
  <2>. QED  BY <1>1, <1>3, <2>1 DEF Traced, Noted
<1>4. CASE tmp[x].id \notin DOMAIN input
  <2>1. tmp[x].type = "off"  BY <1>1, <1>4 DEF Traced
  <2>. QED  BY <2>1 DEF Noted
<1>. QED  BY <1>3, <1>4

LEMMA NoPartners == Mated(EmptyTrack)
<1>1. EmptyTrack.events = <<>> /\ EmptyTrack.partners = <<>>  BY DEF EmptyTrack, Track
<1>2. DOMAIN <<>> = {}  OBVIOUS
<1>. QED  BY <1>1, <1>2 DEF Mated, Named, Matched

(* What pair_notes pairs are notes.                                        *)
LEMMA PairedMatched ==
  ASSUME NEW s, List(s)
  PROVE  Matched(s, Paired(s))
<1>1. PICK n \in Nat : DOMAIN s = 1..n  BY ListOf DEF List
<1>2. DOMAIN Paired(s) = DOMAIN s  BY DEF Paired
<1>3. ASSUME NEW i \in DOMAIN s, s[i].type = "on", PartnerOf(s, i) # 0
      PROVE  PartnerOf(s, i) \in DOMAIN s /\ Noted(s[PartnerOf(s, i)])
  <2>1. PICK P : P = {j \in DOMAIN s : IF j < i THEN Ends(s, j, i) ELSE i < j /\ Ends(s, i, j)}
    OBVIOUS
  <2>2. PartnerOf(s, i) = IF P = {} THEN 0 ELSE Min(P)  BY <2>1 DEF PartnerOf
  <2>3. P \in SUBSET Nat /\ P # {}  BY <1>1, <1>3, <2>1, <2>2
  <2>4. Min(P) \in P  BY <2>3, MinOf
  <2>5. PICK j : j = PartnerOf(s, i)  OBVIOUS
  <2>6. j \in P  BY <2>2, <2>3, <2>4, <2>5
  <2>7. j \in DOMAIN s /\ (Ends(s, j, i) \/ Ends(s, i, j))  BY <2>1, <2>6
  <2>8. s[j].type \in {"on", "off"}  BY <2>7 DEF Ends
  <2>. QED  BY <2>5, <2>7, <2>8 DEF Noted
<1>4. \A i \in DOMAIN s : Paired(s)[i] = PartnerOf(s, i)  BY DEF Paired
<1>. QED  BY <1>2, <1>3, <1>4 DEF Matched

(* The event that is added to a track.                                     *)
LEMMA Gathered ==
  ASSUME gather
  PROVE  \E k \in tk..NTracks : \E e :
           /\ Fit(e, Nat) /\ e.id = Len(trks[k].events) + 1
           /\ trks[k].events # <<>> => ~EV_LESS(e, Last(trks[k].events))
           /\ trks' = [trks EXCEPT ![k] = Track(Append(trks[k].events, e),
                                               Paired(Append(trks[k].events, e)))]
           /\ tk' = k
<1>1. PICK k \in tk..NTracks, part \in Parts, t \in 0..MaxTime : \E kind \in part.kinds :
        LET before == trks[k].events
            i == Len(before) + 1
            new == Event(i, kind.type, t, kind.key, kind.ctype, kind.val, FALSE)
            p == PartnerOf(Append(before, new), i)
            e == [new EXCEPT !.irregular = kind.type = "off" /\ (p = 0 \/ before[p].time = t)]
            all == Append(before, e)
        IN /\ Offset(NTracks + 1) < part.len
           /\ \A j \in 1..NTracks : \A m \in DOMAIN trks[j].events :
                Kind(trks[j].events[m]) \in part.kinds
           /\ before # <<>> => ~EV_LESS(e, Last(before))
           /\ trks' = [trks EXCEPT ![k] = Track(all, Paired(all))]
           /\ tk' = k
  BY DEF gather
<1>2. PICK kind \in part.kinds :
        LET before == trks[k].events
            i == Len(before) + 1
            new == Event(i, kind.type, t, kind.key, kind.ctype, kind.val, FALSE)
            p == PartnerOf(Append(before, new), i)
            e == [new EXCEPT !.irregular = kind.type = "off" /\ (p = 0 \/ before[p].time = t)]
            all == Append(before, e)
        IN /\ before # <<>> => ~EV_LESS(e, Last(before))
           /\ trks' = [trks EXCEPT ![k] = Track(all, Paired(all))]
           /\ tk' = k
  BY <1>1
<1>. DEFINE before == trks[k].events
<1>3. PICK new : new = Event(Len(before) + 1, kind.type, t, kind.key, kind.ctype, kind.val, FALSE)
  OBVIOUS
<1>4. PICK x : LET e == [new EXCEPT !.irregular = x]
                   all == Append(before, e)
               IN /\ before # <<>> => ~EV_LESS(e, Last(before))
                  /\ trks' = [trks EXCEPT ![k] = Track(all, Paired(all))]
                  /\ tk' = k
  BY <1>2, <1>3
<1>5. PICK e : e = [new EXCEPT !.irregular = x]  OBVIOUS
<1>6. Fit(e, Nat) /\ e.id = Len(before) + 1
  <2>1. /\ DOMAIN new = Fields /\ new.time = t /\ new.type = kind.type /\ new.key = kind.key
        /\ new.id = Len(before) + 1
    BY <1>3 DEF Event, Fields
  <2>2. /\ DOMAIN e = Fields /\ e.time = t /\ e.type = kind.type /\ e.key = kind.key
        /\ e.id = new.id
    BY <1>5, <2>1 DEF Fields
  <2>3. Keyed(e)  BY <2>2, KindAssumption DEF Keyed
  <2>4. t \in Nat  BY BoundAssumption
  <2>. QED  BY <2>1, <2>2, <2>3, <2>4 DEF Fit
<1>. QED  BY <1>4, <1>5, <1>6

(* Gathering, detaching: the steps before the post-processing.             *)
LEMMA GatherMated ==
  ASSUME HasTracks(trks, NTracks), tk \in 1..NTracks, gather,
         \A k \in 1..NTracks : Mated(trks[k])
  PROVE  \A k \in 1..NTracks : Mated(trks'[k])
<1>. DEFINE Put(k, e) == [trks EXCEPT ![k] = Track(Append(trks[k].events, e),
                                                   Paired(Append(trks[k].events, e)))]
<1>1. \E k \in tk..NTracks : \E e : e.id = Len(trks[k].events) + 1 /\ trks' = Put(k, e)
  <2>1. \E k \in tk..NTracks : \E e :
           /\ Fit(e, Nat) /\ e.id = Len(trks[k].events) + 1
           /\ trks[k].events # <<>> => ~EV_LESS(e, Last(trks[k].events))
           /\ trks' = Put(k, e)
           /\ tk' = k
    BY Gathered
  <2>. HIDE DEF Put
  <2>. QED  BY <2>1
<1>2. PICK k \in tk..NTracks : \E e : e.id = Len(trks[k].events) + 1 /\ trks' = Put(k, e)
  <2>. HIDE DEF Put
  <2>. QED  BY <1>1
<1>3. PICK e : e.id = Len(trks[k].events) + 1 /\ trks' = Put(k, e)
  <2>. HIDE DEF Put
  <2>. QED  BY <1>2
<1>. DEFINE before == trks[k].events
<1>6. e.id = Len(before) + 1  BY <1>3
<1>7. k \in 1..NTracks  BY TrackAssumption
<1>8. List(before)  BY <1>7 DEF HasTracks, IsTrack, Rising, Timed, List
<1>9. Named(before)  BY <1>7 DEF Mated
<1>10. PICK s, a : s = before /\ a = Append(s, e)  OBVIOUS
<1>11. /\ List(a) /\ Len(s) \in Nat /\ DOMAIN s = 1..Len(s) /\ DOMAIN a = 1..(Len(s) + 1)
       /\ \A i \in 1..Len(s) : a[i] = s[i]
       /\ a[Len(s) + 1] = e
  BY <1>8, <1>10, ListAppend
<1>12. Named(a)
  <2>1. ASSUME NEW i \in DOMAIN a  PROVE a[i].id = i
    <3>1. CASE i = Len(s) + 1  BY <1>6, <1>10, <1>11, <3>1
    <3>2. CASE i # Len(s) + 1
      <4>1. i \in DOMAIN s /\ a[i] = s[i]  BY <1>11, <3>2
      <4>. QED  BY <1>9, <1>10, <4>1 DEF Named
    <3>. QED  BY <3>1, <3>2
  <2>. QED  BY <2>1 DEF Named
<1>13. PICK u : u = Track(a, Paired(a))  OBVIOUS
<1>14. u.events = a /\ u.partners = Paired(a)  BY <1>13 DEF Track
<1>15. Mated(u)  BY <1>11, <1>12, <1>14, PairedMatched DEF Mated
<1>16. trks' = [trks EXCEPT ![k] = u]  BY <1>3, <1>10, <1>13
<1>17. trks = [j \in 1..NTracks |-> trks[j]]  BY DEF HasTracks
<1>18. \A j \in 1..NTracks : trks'[j] = IF j = k THEN u ELSE trks[j]  BY <1>16, <1>17
<1>. QED  BY <1>15, <1>18

LEMMA DetachMated ==
  ASSUME smfout_detach, \A k \in 1..NTracks : Mated(trks[k])
  PROVE  \A k \in 1..ntrks' : Mated(trks'[k])
<1>1. Used # {} /\ ntrks' = Max(Used)  BY DEF smfout_detach
<1>2. PICK selected : trks' = [k \in 1..Max(Used) |->
                                 IF k \in selected THEN trks[k] ELSE EmptyTrack]
  BY DEF smfout_detach
<1>3. Max(Used) \in 1..NTracks
  <2>1. PICK m \in Nat : m = NTracks  BY TrackAssumption
  <2>2. Used \in SUBSET (0..m) /\ Used \subseteq 1..m  BY <2>1 DEF Used
  <2>3. Max(Used) \in Used  BY <1>1, <2>2, MaxOf
  <2>. QED  BY <2>1, <2>2, <2>3
<1>4. PICK n : n = Max(Used)  OBVIOUS
<1>5. n \in Nat /\ 1..n \subseteq 1..NTracks  BY <1>3, <1>4, TrackAssumption
<1>6. \A k \in 1..n : trks'[k] \in {trks[k], EmptyTrack}  BY <1>2, <1>4
<1>. QED  BY <1>1, <1>4, <1>5, <1>6, NoPartners
-----------------------------------------------------------------------------
(* The events of track k begin behind those of the tracks before it.       *)
LEMMA OffsetAt ==
  ASSUME HasTracks(trks, ntrks), NEW q, NEW o, Adds(o, q, ntrks),
         \A i \in 1..ntrks : Len(q[i]) = Len(trks[i].events),
         NEW k \in 1..ntrks
  PROVE  Offset(k) = o[k - 1]
<1>1. PICK n, l : n = ntrks /\ l = k - 1  OBVIOUS
<1>2. n \in Nat /\ l \in 0..n /\ l \in Nat  BY <1>1 DEF HasTracks
<1>3. PICK r : r = [j \in 1..l |-> trks[j].events]  OBVIOUS
<1>4. DOMAIN r = 1..l /\ r = [i \in DOMAIN r |-> r[i]]  BY <1>3
<1>. DEFINE B == UNION {Elements(trks[j].events) : j \in 1..n}
<1>5. \A i \in 1..l : r[i] \in Seq(B)
  <2>1. \A X, Y : X \subseteq Y => Seq(X) \subseteq Seq(Y)  BY SeqDef
  <2>2. ASSUME NEW i \in 1..l  PROVE r[i] \in Seq(B)
    <3>1. i \in 1..ntrks /\ r[i] = trks[i].events  BY <1>1, <1>2, <1>3
    <3>2. r[i] \in Seq(Elements(trks[i].events))
      BY <3>1 DEF HasTracks, IsTrack, Rising, Timed
    <3>3. Elements(trks[i].events) \subseteq B  BY <1>1, <3>1
    <3>. QED  BY <2>1, <3>2, <3>3
  <2>. QED  BY <2>2
<1>. HIDE DEF B
<1>6. PICK u : Laid(u, r, l, FlattenSeq(r), B)  BY <1>2, <1>4, <1>5, FlatLaid
<1>7. Adds(u, r, l) /\ Len(FlattenSeq(r)) = u[l]  BY <1>6 DEF Laid, Adds
<1>8. SameLengths(r, q, l)  BY <1>1, <1>2, <1>3 DEF SameLengths
<1>9. Adds(o, q, n)  BY <1>1
<1>10. \A i \in 0..l : u[i] = o[i]  BY <1>2, <1>7, <1>8, <1>9, SamePlaces
<1>11. u[l] = o[l]  BY <1>2, <1>10
<1>12. Offset(k) = Len(FlattenSeq(r))
  <2>1. [j \in 1..(k - 1) |-> trks[j].events] = r  BY <1>1, <1>3
  <2>2. Offset(k) = Len(FlattenSeq([j \in 1..(k - 1) |-> trks[j].events]))  BY DEF Offset
  <2>. QED  BY <2>1, <2>2
<1>. QED  BY <1>1, <1>7, <1>11, <1>12

(* merge_all_tracks renames the events of a track, and their partners.     *)
Moved(k) == [i \in DOMAIN trks[k].events |-> [trks[k].events[i] EXCEPT !.id = i + Offset(k)]]
Far(k) == [i \in DOMAIN trks[k].events |->
            IF trks[k].partners[i] = 0 THEN 0 ELSE trks[k].partners[i] + Offset(k)]

(* A list as long as the events of the tracks.                             *)
LEMMA OnTracks ==
  ASSUME HasTracks(trks, ntrks), NEW q, DOMAIN q = 1..ntrks, q = [i \in DOMAIN q |-> q[i]],
         \A i \in 1..ntrks : q[i] = [m \in DOMAIN trks[i].events |-> q[i][m]]
  PROVE  /\ ntrks \in Nat
         /\ \A i \in 1..ntrks : List(q[i]) /\ Len(q[i]) = Len(trks[i].events)
         /\ \E B, o : Laid(o, q, ntrks, FlattenSeq(q), B)
<1>1. PICK n : n = ntrks  OBVIOUS
<1>2. n \in Nat  BY <1>1 DEF HasTracks
<1>3. ASSUME NEW i \in 1..n  PROVE List(q[i]) /\ Len(q[i]) = Len(trks[i].events)
  <2>1. PICK e, w : e = trks[i].events /\ w = q[i]  OBVIOUS
  <2>2. w = [m \in DOMAIN e |-> w[m]]  BY <1>1, <2>1
  <2>3. e \in Seq(Elements(e))
    BY <1>1, <2>1 DEF HasTracks, IsTrack, Rising, Timed
  <2>4. Len(e) \in Nat /\ DOMAIN e = 1..Len(e)  BY <2>3, ListOf
  <2>5. PICK y : y = Len(e)  OBVIOUS
  <2>6. w = [m \in 1..y |-> w[m]] /\ y \in Nat  BY <2>2, <2>4, <2>5
  <2>7. Elements(w) = {w[m] : m \in 1..y}  BY <2>6 DEF Elements
  <2>8. w \in [1..y -> Elements(w)]  BY <2>6, <2>7
  <2>9. w \in Seq(Elements(w)) /\ Len(w) = y  BY <2>6, <2>8, SeqDef, LenProperties
  <2>. QED  BY <2>1, <2>5, <2>9 DEF List
<1>. DEFINE B == UNION {Elements(q[j]) : j \in 1..n}
<1>4. ASSUME NEW i \in 1..n  PROVE q[i] \in Seq(B)
  <2>1. \A X, Y : X \subseteq Y => Seq(X) \subseteq Seq(Y)  BY SeqDef
  <2>2. Elements(q[i]) \subseteq B  OBVIOUS
  <2>3. q[i] \in Seq(Elements(q[i]))  BY <1>3 DEF List
  <2>. QED  BY <2>1, <2>2, <2>3
<1>. HIDE DEF B
<1>5. \E o : Laid(o, q, n, FlattenSeq(q), B)
  <2>1. DOMAIN q = 1..n  BY <1>1
  <2>. QED  BY <1>2, <1>4, <2>1, FlatLaid
<1>. QED  BY <1>1, <1>2, <1>3, <1>5

(* The tracks end to end: a partner is still a note.                       *)
LEMMA MovedSourced ==
  ASSUME HasTracks(trks, ntrks), \A k \in 1..ntrks : Mated(trks[k])
  PROVE  Sourced(FlattenSeq([k \in 1..ntrks |-> Moved(k)]), FlattenSeq([k \in 1..ntrks |-> Far(k)]))
<1>1. PICK q, r : q = [k \in 1..ntrks |-> Moved(k)] /\ r = [k \in 1..ntrks |-> Far(k)]  OBVIOUS
<1>2. /\ DOMAIN q = 1..ntrks /\ q = [i \in DOMAIN q |-> q[i]]
      /\ \A i \in 1..ntrks : q[i] = Moved(i)
  BY <1>1
<1>3. /\ DOMAIN r = 1..ntrks /\ r = [i \in DOMAIN r |-> r[i]]
      /\ \A i \in 1..ntrks : r[i] = Far(i)
  BY <1>1
<1>4. \A i \in 1..ntrks : q[i] = [m \in DOMAIN trks[i].events |-> q[i][m]]
  BY <1>2 DEF Moved
<1>5. \A i \in 1..ntrks : r[i] = [m \in DOMAIN trks[i].events |-> r[i][m]]
  BY <1>3 DEF Far
<1>6. PICK all, far : all = FlattenSeq(q) /\ far = FlattenSeq(r)  OBVIOUS
<1>7. /\ ntrks \in Nat
      /\ \A i \in 1..ntrks : List(q[i]) /\ Len(q[i]) = Len(trks[i].events)
      /\ \E B, o : Laid(o, q, ntrks, FlattenSeq(q), B)
  BY <1>2, <1>4, OnTracks
<1>8. /\ \A i \in 1..ntrks : List(r[i]) /\ Len(r[i]) = Len(trks[i].events)
      /\ \E B, o : Laid(o, r, ntrks, FlattenSeq(r), B)
  BY <1>3, <1>5, OnTracks
<1>9. PICK B, o : Laid(o, q, ntrks, all, B)  BY <1>6, <1>7
<1>10. PICK C, u : Laid(u, r, ntrks, far, C)  BY <1>6, <1>8
<1>11. /\ Adds(o, q, ntrks)
       /\ o \in [0..ntrks -> Nat]
       /\ \A k \in 1..ntrks : \A m \in DOMAIN q[k] :
            o[k - 1] + m \in DOMAIN all /\ all[o[k - 1] + m] = q[k][m]
       /\ \A a \in DOMAIN all : \E k \in 1..ntrks : \E m \in DOMAIN q[k] : a = o[k - 1] + m
  BY <1>9 DEF Laid, Adds
<1>12. /\ Adds(u, r, ntrks)
       /\ \A k \in 1..ntrks : \A m \in DOMAIN r[k] : far[u[k - 1] + m] = r[k][m]
  BY <1>10 DEF Laid, Adds
<1>13. \A k \in 1..ntrks : Offset(k) = o[k - 1]
  BY <1>7, <1>11, OffsetAt
<1>14. \A k \in 1..ntrks : Offset(k) = u[k - 1]
  BY <1>8, <1>12, OffsetAt
<1>15. ASSUME NEW k \in 1..ntrks, NEW m \in DOMAIN trks[k].events
       PROVE  /\ Offset(k) + m \in DOMAIN all /\ all[Offset(k) + m].id = Offset(k) + m
              /\ all[Offset(k) + m].type = trks[k].events[m].type
              /\ far[Offset(k) + m] = IF trks[k].partners[m] = 0 THEN 0
                                      ELSE trks[k].partners[m] + Offset(k)
  <2>1. PICK x, e : x = Offset(k) /\ e = trks[k].events[m]  OBVIOUS
  <2>2. m \in DOMAIN q[k] /\ m \in DOMAIN r[k]  BY <1>4, <1>5
  <2>3. x + m \in DOMAIN all /\ all[x + m] = q[k][m]  BY <1>11, <1>13, <2>1, <2>2
  <2>4. far[x + m] = r[k][m]  BY <1>12, <1>14, <2>1, <2>2
  <2>5. q[k][m] = [e EXCEPT !.id = m + x]  BY <1>2, <2>1 DEF Moved
  <2>6. Fit(e, Nat)  BY <2>1 DEF HasTracks, IsTrack, Rising, Timed
  <2>7. DOMAIN e = Fields  BY <2>6 DEF Fit
  <2>8. q[k][m].id = m + x /\ q[k][m].type = e.type  BY <2>5, <2>7 DEF Fields
  <2>9. x \in Nat /\ m \in Nat
    <3>1. k - 1 \in 0..ntrks  BY <1>7
    <3>2. x \in Nat  BY <1>11, <1>13, <2>1, <3>1
    <3>3. List(q[k])  BY <1>7
    <3>4. m \in 1..Len(q[k]) /\ Len(q[k]) \in Nat  BY <2>2, <3>3, ListOf DEF List
    <3>. QED  BY <3>2, <3>4
  <2>10. r[k][m] = IF trks[k].partners[m] = 0 THEN 0 ELSE trks[k].partners[m] + Offset(k)
    BY <1>3 DEF Far
  <2>11. m + x = x + m  BY <2>9
  <2>12. PICK a : a = x + m  OBVIOUS
  <2>13. a \in DOMAIN all /\ all[a].id = a /\ all[a].type = e.type /\ far[a] = r[k][m]
    BY <2>3, <2>4, <2>8, <2>11, <2>12
  <2>14. Offset(k) + m = a  BY <2>1, <2>12
  <2>. QED  BY <2>1, <2>10, <2>13, <2>14
<1>16. ASSUME NEW j \in DOMAIN all, NEW x \in DOMAIN all,
              all[j].type = "on", all[j].id # 0, all[x].id # 0, all[x].id = far[all[j].id]
       PROVE  Noted(all[x])
  <2>1. PICK k \in 1..ntrks : \E m \in DOMAIN q[k] : j = o[k - 1] + m  BY <1>11
  <2>2. PICK m \in DOMAIN q[k] : j = o[k - 1] + m  BY <2>1
  <2>3. m \in DOMAIN trks[k].events /\ j = Offset(k) + m  BY <1>4, <1>13, <2>2
  <2>4. /\ all[j].id = j /\ all[j].type = trks[k].events[m].type
        /\ far[j] = IF trks[k].partners[m] = 0 THEN 0 ELSE trks[k].partners[m] + Offset(k)
    BY <1>15, <2>3
  <2>5. PICK l \in 1..ntrks : \E y \in DOMAIN q[l] : x = o[l - 1] + y  BY <1>11
  <2>6. PICK y \in DOMAIN q[l] : x = o[l - 1] + y  BY <2>5
  <2>7. y \in DOMAIN trks[l].events /\ x = Offset(l) + y  BY <1>4, <1>13, <2>6
  <2>8. all[x].id = x  BY <1>15, <2>7
  <2>9. PICK p : p = trks[k].partners[m]  OBVIOUS
  <2>10. p # 0 /\ x = p + Offset(k)  BY <1>16, <2>4, <2>8, <2>9
  <2>11. p \in DOMAIN trks[k].events /\ Noted(trks[k].events[p])
    <3>1. Matched(trks[k].events, trks[k].partners)  BY DEF Mated
    <3>. QED  BY <1>16, <2>3, <2>4, <2>9, <2>10, <3>1 DEF Matched
  <2>12. all[Offset(k) + p].type = trks[k].events[p].type  BY <1>15, <2>11
  <2>13. Offset(k) + p = x
    <3>1. k - 1 \in 0..ntrks  BY <1>7
    <3>2. Offset(k) \in Nat  BY <1>11, <1>13, <3>1
    <3>3. List(q[k])  BY <1>7
    <3>4. p \in DOMAIN q[k]  BY <1>4, <2>11
    <3>5. p \in 1..Len(q[k]) /\ Len(q[k]) \in Nat  BY <3>3, <3>4, ListOf DEF List
    <3>. QED  BY <2>10, <3>2, <3>5
  <2>. QED  BY <2>11, <2>12, <2>13 DEF Noted
<1>17. Sourced(all, far)  BY <1>16 DEF Sourced
<1>. QED  BY <1>1, <1>6, <1>17

(* The invariant of the passes over the tracks, of the track that is       *)
(* scanned and of the others.                                              *)
Mates == \A k \in 1..ntrks : Mated(trks[k])
Tracing == tk # 0 /\ stage # "error" => Scanned /\ 0 \notin DOMAIN input

LEMMA MergeMated ==
  ASSUME Merging, Mates, merge_all_tracks
  PROVE  Mates' /\ Tracing'
<1>. DEFINE all == FlattenSeq([k \in 1..ntrks |-> Moved(k)])
            far == FlattenSeq([k \in 1..ntrks |-> Far(k)])
<1>1. ntrks' = 1 /\ tk' = 0 /\ trks' = <<Renumbered(all, far)>>
  BY DEF merge_all_tracks, Moved, Far
<1>2. HasTracks(trks, ntrks) /\ ntrks \in Nat  BY DEF Merging, Song, HasTracks
<1>3. PICK M \in Nat : Within(trks, ntrks, 0..M)  BY DEF Merging, Lasts
<1>4. Sourced(all, far)  BY <1>2, MovedSourced DEF Mates
<1>5. Timed(all, 0..M)
  <2>1. PICK q : q = [k \in 1..ntrks |-> Moved(k)]  OBVIOUS
  <2>2. DOMAIN q = 1..ntrks /\ q = [k \in DOMAIN q |-> q[k]] /\ \A k \in 1..ntrks : q[k] = Moved(k)
    BY <2>1
  <2>3. ASSUME NEW k \in 1..ntrks  PROVE Timed(q[k], 0..M)
    <3>1. PICK e, s : e = trks[k].events /\ s = Moved(k)  OBVIOUS
    <3>2. Timed(e, 0..M)  BY <1>3, <3>1 DEF Within
    <3>3. \A i \in DOMAIN e : \E x : s[i] = [e[i] EXCEPT !.id = x]  BY <3>1 DEF Moved
    <3>4. s = [i \in DOMAIN e |-> s[i]]  BY <3>1 DEF Moved
    <3>5. Timed(s, 0..M)  BY <3>2, <3>3, <3>4, NamedTimed
    <3>. QED  BY <2>2, <3>1, <3>5
  <2>. QED  BY <1>2, <2>1, <2>2, <2>3, TimedFlat
<1>. HIDE DEF all, far
<1>6. 0..M \in SUBSET Nat  BY <1>3
<1>7. Mated(Renumbered(all, far))  BY <1>4, <1>5, <1>6, RenumberedMated
<1>8. \A k \in 1..ntrks' : trks'[k] = Renumbered(all, far)  BY <1>1
<1>9. Mates'  BY <1>7, <1>8 DEF Mates
<1>10. Tracing'  BY <1>1 DEF Tracing
<1>. QED  BY <1>9, <1>10

LEMMA ReplacedMated ==
  ASSUME HasTracks(trks, ntrks), tk \in 0..ntrks, Mates, Tracing, stage = "done",
         NEW T \in SUBSET Nat, Done(T)
  PROVE  \A k \in 1..ntrks : Mated(replaced[k])
<1>1. CASE tk = 0  BY <1>1 DEF replaced, Mates
<1>2. CASE tk # 0
  <2>1. PICK t : t = Renumbered(tmp, partner)  OBVIOUS
  <2>2. Sourced(tmp, partner)  BY <1>2, ScannedSourced DEF Tracing
  <2>3. Timed(tmp, T)  BY <1>2 DEF Done
  <2>4. Mated(t)  BY <2>1, <2>2, <2>3, RenumberedMated
  <2>5. trks = [k \in 1..ntrks |-> trks[k]]  BY DEF HasTracks
  <2>6. replaced = [trks EXCEPT ![tk] = t]  BY <1>2, <2>1 DEF replaced
  <2>7. \A k \in 1..ntrks : replaced[k] = IF k = tk THEN t ELSE trks[k]  BY <2>5, <2>6
  <2>. QED  BY <2>4, <2>7 DEF Mates
<1>. QED  BY <1>1, <1>2

LEMMA NextMated ==
  ASSUME HasTracks(trks, ntrks), Scanning, next_track, NEW T \in SUBSET Nat, Done(T),
         Mates, Tracing
  PROVE  Mates' /\ Tracing'
<1>1. PICK k : /\ Begin(trks[k].events, trks[k].partners, Asked) /\ k = Min(Following)
  BY DEF next_track
<1>2. stage = "done" /\ Following # {} /\ trks' = replaced /\ ntrks' = ntrks
  BY DEF next_track
<1>3. ntrks \in Nat /\ tk \in 0..ntrks  BY DEF HasTracks, Scanning
<1>4. k \in 1..ntrks  BY <1>1, <1>2, <1>3, TheNext
<1>5. \A j \in 1..ntrks : Mated(replaced[j])  BY <1>2, <1>3, ReplacedMated
<1>6. Mates'  BY <1>2, <1>5 DEF Mates
<1>7. 0 \notin DOMAIN trks[k].events  BY <1>4, EventsOf
<1>8. Mated(trks[k])  BY <1>4 DEF Mates
<1>9. Scanned' /\ input' = trks[k].events
  <2>1. PICK t : t = trks[k]  OBVIOUS
  <2>2. Scanned'  BY <1>1, <1>7, <1>8, BeginScanned
  <2>. QED  BY <1>1, <2>2 DEF Begin
<1>. QED  BY <1>6, <1>7, <1>9 DEF Tracing

LEMMA ScanMated ==
  ASSUME Scanning, scan, Mates, Tracing
  PROVE  Mates' /\ Tracing'
<1>1. Scan /\ UNCHANGED outVars  BY DEF scan
<1>2. Scans /\ UNCHANGED input  BY <1>1, ScanKeeps
<1>3. UNCHANGED <<trks, ntrks, tk>>  BY <1>1 DEF outVars
<1>4. tk # 0 /\ stage # "error" /\ ScanInv  BY <1>2 DEF Scanning, Scans
<1>5. Scanned /\ 0 \notin DOMAIN input  BY <1>4 DEF Tracing
<1>6. stage' # "error" => Scanned'  BY <1>1, <1>4, <1>5, ScanScanned
<1>7. Mates'  BY <1>3 DEF Mates
<1>8. Tracing'  BY <1>2, <1>5, <1>6 DEF Tracing
<1>. QED  BY <1>7, <1>8
-----------------------------------------------------------------------------
(* What a song begins with: a tempo and a time signature at the time 0.    *)
Heads == {"tempo", "signature"}
Sets(e, x) == IF x = "tempo" THEN IsTempo(e) ELSE IsTimeSig(e)
Heading(s, x) == \E i \in DOMAIN s : s[i].time = 0 /\ Sets(s[i], x)
HasHead(s) == \A x \in Heads : Heading(s, x)

(* The partners move as the events do, for which others are put in front.  *)
Advanced(q, n, l) == [i \in 1..(n + l) |-> IF i <= n \/ q[i - n] = 0 THEN 0 ELSE q[i - n] + n]

(* The list e behind the list new.                                         *)
Joined(w, new, e, n, l) ==
  List(new) /\ List(e) /\ w = new \o e /\ n = Len(new) /\ l = Len(e)
Ahead(w, new) == \A i \in DOMAIN new : i \in DOMAIN w /\ w[i] = new[i]
Behind(w, n, e) == \A i \in DOMAIN e : n + i \in DOMAIN w /\ w[n + i] = e[i]
LEMMA FrontMatched ==
  ASSUME NEW new, NEW e, NEW q, NEW w, NEW p, NEW n, NEW l,
         Joined(w, new, e, n, l), Matched(e, q), p = Advanced(q, n, l)
  PROVE  Matched(w, p) /\ Ahead(w, new) /\ Behind(w, n, e)
<1>1. /\ n \in Nat /\ l \in Nat /\ DOMAIN new = 1..n /\ DOMAIN e = 1..l
      /\ DOMAIN w = 1..(n + l)
      /\ \A i \in 1..(n + l) : w[i] = IF i <= n THEN new[i] ELSE e[i - n]
  BY ListJoin DEF Joined
<1>2. \A i \in DOMAIN new : i \in DOMAIN w /\ w[i] = new[i]  BY <1>1
<1>3. ASSUME NEW i \in DOMAIN e  PROVE n + i \in DOMAIN w /\ w[n + i] = e[i]
  <2>1. i \in 1..l /\ n + i \in 1..(n + l) /\ ~(n + i <= n) /\ n + i - n = i  BY <1>1
  <2>2. w[n + i] = e[n + i - n]  BY <1>1, <2>1
  <2>. QED  BY <1>1, <2>1, <2>2
<1>4. DOMAIN p = DOMAIN w  BY <1>1 DEF Advanced
<1>5. ASSUME NEW i \in DOMAIN w, w[i].type = "on", p[i] # 0
      PROVE  p[i] \in DOMAIN w /\ Noted(w[p[i]])
  <2>1. PICK j : j = i - n  OBVIOUS
  <2>2. p[i] = IF i <= n \/ q[j] = 0 THEN 0 ELSE q[j] + n  BY <1>1, <2>1 DEF Advanced
  <2>3. ~(i <= n) /\ q[j] # 0 /\ p[i] = q[j] + n  BY <1>5, <2>2
  <2>4. w[i] = e[j] /\ j \in 1..l  BY <1>1, <2>1, <2>3
  <2>5. e[j].type = "on"  BY <1>5, <2>4
  <2>6. q[j] \in DOMAIN e /\ Noted(e[q[j]])  BY <1>1, <2>3, <2>4, <2>5 DEF Matched
  <2>7. PICK m : m = q[j]  OBVIOUS
  <2>8. m \in 1..l /\ p[i] = n + m  BY <1>1, <2>3, <2>6, <2>7
  <2>9. n + m \in DOMAIN w /\ w[n + m] = e[m]  BY <1>1, <1>3, <2>8
  <2>. QED  BY <2>6, <2>7, <2>8, <2>9
<1>. QED  BY <1>2, <1>3, <1>4, <1>5 DEF Matched, Ahead, Behind

LEMMA HeadingFront ==
  ASSUME NEW new, NEW e, NEW w, NEW n, NEW x,
         Ahead(w, new), Behind(w, n, e), Heading(new, x) \/ Heading(e, x)
  PROVE  Heading(w, x)
<1>1. CASE Heading(new, x)
  <2>1. PICK i \in DOMAIN new : new[i].time = 0 /\ Sets(new[i], x)  BY <1>1 DEF Heading
  <2>2. i \in DOMAIN w /\ w[i] = new[i]  BY DEF Ahead
  <2>. QED  BY <2>1, <2>2 DEF Heading
<1>2. CASE Heading(e, x)
  <2>1. PICK i \in DOMAIN e : e[i].time = 0 /\ Sets(e[i], x)  BY <1>2 DEF Heading
  <2>2. PICK j : j = n + i  OBVIOUS
  <2>3. j \in DOMAIN w /\ w[j] = e[i]  BY <2>2 DEF Behind
  <2>. QED  BY <2>1, <2>3 DEF Heading
<1>. QED  BY <1>1, <1>2

(* The signature and the tempo that are supplied are at the beginning.     *)
LEMMA SupplyHeads ==
  /\ TimeSig44.time = 0 /\ Sets(TimeSig44, "signature")
  /\ Tempo120.time = 0 /\ Sets(Tempo120, "tempo")
<1>1. TimeSig44.time = 0 /\ TimeSig44.type = "timesig"  BY DEF TimeSig44, Event
<1>2. /\ Tempo120.time = 0 /\ Tempo120.type = "ctrl"
      /\ Tempo120.key = CHOOSE k \in Tempo : TRUE
  BY DEF Tempo120, Event
<1>3. Tempo120.key \in Tempo  BY <1>2, TempoAssumption
<1>4. IsTimeSig(TimeSig44) /\ IsTempo(Tempo120)  BY <1>1, <1>2, <1>3 DEF IsTimeSig, IsTempo
<1>. QED  BY <1>1, <1>2, <1>4 DEF Sets

LEMMA OneHeads ==
  ASSUME NEW x, NEW e, e.time = 0, Sets(e, x)
  PROVE  Heading(<<e>>, x)
<1>1. PICK s : s = <<e>>  OBVIOUS
<1>2. DOMAIN s = 1..1 /\ s[1] = e  BY <1>1
<1>3. 1 \in DOMAIN s  BY <1>2
<1>. QED  BY <1>1, <1>2, <1>3 DEF Heading

(* What is found at the start of a track is at the time 0.                 *)
LEMMA StartHeads ==
  ASSUME NEW s, Rising(s), NEW x, \E e \in AtStart(s) : Sets(e, x)
  PROVE  Heading(s, x)
<1>1. PICK e \in AtStart(s) : Sets(e, x)  OBVIOUS
<1>2. PICK i \in DOMAIN s : s[i].time <= 0 /\ e = s[i]  BY <1>1 DEF AtStart
<1>3. s[i].time \in Nat  BY DEF Rising, Timed, Fit
<1>4. s[i].time = 0  BY <1>2, <1>3
<1>. QED  BY <1>1, <1>2, <1>4 DEF Heading

(* A track that is supplied has both.                                      *)
LEMMA SuppliedHead ==
  ASSUME NEW t, IsTrack(t), Matched(t.events, t.partners)
  PROVE  HasHead(Supplied(t).events) /\ Matched(Supplied(t).events, Supplied(t).partners)
<1>1. PICK e, q : e = t.events /\ q = t.partners  OBVIOUS
<1>2. PICK x : x = IF \E a \in AtStart(t.events) : IsTimeSig(a) THEN <<>> ELSE <<TimeSig44>>
  OBVIOUS
<1>3. PICK y : y = IF \E a \in AtStart(t.events) : IsTempo(a) THEN <<>> ELSE <<Tempo120>>  OBVIOUS
<1>4. PICK new, n, l : new = x \o y /\ n = Len(new) /\ l = Len(e)  OBVIOUS
<1>5. PICK w, p : w = new \o e /\ p = Advanced(q, n, l)  OBVIOUS
<1>6. Supplied(t) = Track(w, p)
  BY <1>1, <1>2, <1>3, <1>4, <1>5 DEF Supplied, Advanced
<1>7. Supplied(t).events = w /\ Supplied(t).partners = p  BY <1>6 DEF Track
<1>8. Rising(e) /\ Matched(e, q)  BY <1>1 DEF IsTrack
<1>9. List(e)  BY <1>8 DEF Rising, Timed, List
<1>10. List(x) /\ List(y)
  <2>1. \A a : List(<<a>>)
    <3>1. ASSUME NEW a  PROVE List(<<a>>)
      <4>1. <<a>> \in Seq({a})  OBVIOUS
      <4>. QED  BY <4>1, ListOf
    <3>. QED  BY <3>1
  <2>. QED  BY <1>2, <1>3, <2>1, ListEmpty
<1>11. /\ List(new) /\ Len(x) \in Nat /\ DOMAIN x = 1..Len(x) /\ DOMAIN y = 1..Len(y)
       /\ DOMAIN new = 1..(Len(x) + Len(y)) /\ Len(y) \in Nat
       /\ \A i \in 1..(Len(x) + Len(y)) : new[i] = IF i <= Len(x) THEN x[i] ELSE y[i - Len(x)]
  BY <1>4, <1>10, ListJoin
<1>12. Matched(w, p) /\ Ahead(w, new) /\ Behind(w, n, e)
  <2>1. Joined(w, new, e, n, l)  BY <1>4, <1>5, <1>9, <1>11 DEF Joined
  <2>. QED  BY <1>5, <1>8, <2>1, FrontMatched
<1>13. Ahead(new, x)  BY <1>11 DEF Ahead
<1>14. Behind(new, Len(x), y)
  <2>1. ASSUME NEW i \in DOMAIN y  PROVE Len(x) + i \in DOMAIN new /\ new[Len(x) + i] = y[i]
    <3>1. PICK m, j : m = Len(x) /\ j = Len(x) + i  OBVIOUS
    <3>2. j \in 1..(m + Len(y)) /\ ~(j <= m) /\ j - m = i  BY <1>11, <3>1
    <3>3. j \in DOMAIN new /\ new[j] = y[j - m]  BY <1>11, <3>1, <3>2
    <3>4. new[j] = y[i]  BY <3>2, <3>3
    <3>. QED  BY <3>1, <3>3, <3>4
  <2>. QED  BY <2>1 DEF Behind
<1>15. Heading(x, "signature") \/ Heading(e, "signature")
  <2>1. CASE \E a \in AtStart(t.events) : IsTimeSig(a)
    <3>1. \E a \in AtStart(e) : Sets(a, "signature")  BY <1>1, <2>1 DEF Sets
    <3>. QED  BY <1>8, <3>1, StartHeads
  <2>2. CASE ~\E a \in AtStart(t.events) : IsTimeSig(a)
    <3>1. x = <<TimeSig44>>  BY <1>2, <2>2
    <3>. QED  BY <3>1, SupplyHeads, OneHeads
  <2>. QED  BY <2>1, <2>2
<1>16. Heading(y, "tempo") \/ Heading(e, "tempo")
  <2>1. CASE \E a \in AtStart(t.events) : IsTempo(a)
    <3>1. \E a \in AtStart(e) : Sets(a, "tempo")  BY <1>1, <2>1 DEF Sets
    <3>. QED  BY <1>8, <3>1, StartHeads
  <2>2. CASE ~\E a \in AtStart(t.events) : IsTempo(a)
    <3>1. y = <<Tempo120>>  BY <1>3, <2>2
    <3>. QED  BY <3>1, SupplyHeads, OneHeads
  <2>. QED  BY <2>1, <2>2
<1>17. PICK m : m = Len(x)  OBVIOUS
<1>18. ASSUME NEW h, Heading(x, h) \/ Heading(y, h) \/ Heading(e, h)  PROVE Heading(w, h)
  <2>1. Behind(new, m, y)  BY <1>14, <1>17
  <2>2. Heading(x, h) \/ Heading(y, h) => Heading(new, h)  BY <1>13, <2>1, HeadingFront
  <2>3. Heading(new, h) \/ Heading(e, h)  BY <1>18, <2>2
  <2>. QED  BY <1>12, <2>3, HeadingFront
<1>19. HasHead(w)  BY <1>15, <1>16, <1>18 DEF HasHead, Heads
<1>. QED  BY <1>7, <1>12, <1>19

(* The tracks that begin with a tempo and a signature, once the file is    *)
(* open.                                                                   *)
Headed(k) == IF opt.format < 2 THEN k = 1 ELSE trks[k].events # <<>>
TracksHeaded ==
  /\ \A k \in 1..ntrks : Matched(trks[k].events, trks[k].partners)
  /\ \A k \in 1..ntrks : Headed(k) => HasHead(trks[k].events)
  /\ opt.format = 2 /\ ~opt.pack_tracks => \A k \in 1..ntrks : trks[k].events # <<>>

LEMMA HeadEvents == ASSUME HasHead(<<>>)  PROVE FALSE
<1>1. DOMAIN <<>> = {}  OBVIOUS
<1>2. "tempo" \in Heads  BY DEF Heads
<1>. QED  BY <1>1, <1>2 DEF HasHead, Heading

LEMMA OpenHeaded ==
  ASSUME Merging, Mates, open_file, phase' # "no_genfile"
  PROVE  TracksHeaded' /\ mfp'.chunks = <<>> /\ prev_tk' = -1
<1>1. /\ trks' = [k \in 1..ntrks |-> IF NeedsTempo(k) THEN Supplied(trks[k]) ELSE trks[k]]
      /\ mfp' = [open |-> FALSE, ntracks |-> HeaderTracks(trks'), chunks |-> <<>>]
      /\ UNCHANGED <<ntrks, opt, prev_tk>>
  BY DEF open_file
<1>2. HasTracks(trks, ntrks) /\ prev_tk = -1  BY DEF Merging, Song, Unwritten
<1>3. ASSUME NEW k \in 1..ntrks
      PROVE  /\ Matched(trks'[k].events, trks'[k].partners)
             /\ NeedsTempo(k) => HasHead(trks'[k].events)
             /\ ~NeedsTempo(k) => trks'[k] = trks[k]
  <2>1. PICK t : t = trks[k]  OBVIOUS
  <2>2. IsTrack(t) /\ Matched(t.events, t.partners)
    BY <1>2, <2>1 DEF HasTracks, Mates, Mated
  <2>3. HasHead(Supplied(t).events) /\ Matched(Supplied(t).events, Supplied(t).partners)
    BY <2>2, SuppliedHead
  <2>4. trks'[k] = IF NeedsTempo(k) THEN Supplied(t) ELSE t  BY <1>1, <2>1
  <2>. QED  BY <2>1, <2>2, <2>3, <2>4
<1>4. ASSUME NEW k \in 1..ntrks, Headed(k)'  PROVE HasHead(trks'[k].events)
  <2>1. CASE NeedsTempo(k)  BY <1>3, <2>1
  <2>2. CASE ~NeedsTempo(k)
    <3>1. trks'[k] = trks[k]  BY <1>3, <2>2
    <3>2. IF opt.format < 2 THEN k = 1 ELSE trks[k].events # <<>>  BY <1>1, <1>4, <3>1 DEF Headed
    <3>3. opt.format \in 0..2  BY DEF Merging, Song, Chosen
    <3>. QED  BY <2>2, <3>2, <3>3 DEF NeedsTempo
  <2>. QED  BY <2>1, <2>2
<1>5. ASSUME opt.format = 2, ~opt.pack_tracks, NEW k \in 1..ntrks  PROVE trks'[k].events # <<>>
  <2>1. NeedsTempo(k)  BY <1>5 DEF NeedsTempo
  <2>2. HasHead(trks'[k].events)  BY <1>3, <2>1
  <2>. QED  BY <2>2, HeadEvents
<1>6. TracksHeaded'  BY <1>1, <1>3, <1>4, <1>5 DEF TracksHeaded
<1>. QED  BY <1>1, <1>2, <1>6
-----------------------------------------------------------------------------
(* The delays up to message j are 0; the messages set x before any time    *)
(* has passed.                                                             *)
Silent(m, j) == \A i \in 1..j : m[i].dtime = 0
Starts(m, x) == \E j \in DOMAIN m : Silent(m, j) /\ Sets(m[j].ev, x)
Begun(m) == \A x \in Heads : Starts(m, x)

(* The messages m hold what the events of s before i set at the time 0.    *)
Led(m, s, i, prev) ==
  /\ List(m)
  /\ prev = 0 => Silent(m, Len(m))
  /\ \A j \in DOMAIN s, x \in Heads : j < i /\ s[j].time = 0 /\ Sets(s[j], x) => Starts(m, x)

(* Writing an event, and passing over one that is not written, keep it so. *)
LEMMA LedPut ==
  ASSUME NEW m, NEW s, NEW i, NEW prev, NEW t, NEW y, NEW l, NEW e, NEW z,
         Led(m, s, i, prev), DOMAIN s = 1..l, l \in Nat, i \in 1..l, e = s[i],
         prev \in Nat, t \in Nat, prev <= t, e.time = 0 => t = 0,
         y = [dtime |-> t - prev, ev |-> e], z = Append(m, y)
  PROVE  Led(z, s, i + 1, t)
<1>1. PICK n : n = Len(m)  OBVIOUS
<1>2. /\ List(z) /\ n \in Nat /\ DOMAIN m = 1..n /\ Len(z) = n + 1 /\ DOMAIN z = 1..(n + 1)
      /\ \A j \in 1..n : z[j] = m[j]
      /\ z[n + 1] = y
  BY <1>1, ListAppend DEF Led
<1>3. y.dtime = t - prev /\ y.ev = e  OBVIOUS
<1>4. prev = 0 => Silent(m, n)  BY <1>1 DEF Led
<1>5. ASSUME t = 0  PROVE Silent(z, n + 1)
  <2>1. prev = 0 /\ y.dtime = 0  BY <1>3, <1>5
  <2>2. ASSUME NEW j \in 1..(n + 1)  PROVE z[j].dtime = 0
    <3>1. CASE j = n + 1  BY <1>2, <2>1, <3>1
    <3>2. CASE j # n + 1
      <4>1. j \in 1..n  BY <1>2, <3>2
      <4>2. m[j].dtime = 0  BY <1>4, <2>1, <4>1 DEF Silent
      <4>. QED  BY <1>2, <4>1, <4>2
    <3>. QED  BY <3>1, <3>2
  <2>. QED  BY <2>2 DEF Silent
<1>6. ASSUME NEW x, Starts(m, x)  PROVE Starts(z, x)
  <2>1. PICK j \in DOMAIN m : Silent(m, j) /\ Sets(m[j].ev, x)  BY <1>6 DEF Starts
  <2>2. j \in 1..n /\ j \in DOMAIN z /\ z[j] = m[j]  BY <1>2
  <2>3. \A k \in 1..j : k \in 1..n  BY <1>2, <2>2
  <2>4. Silent(z, j)  BY <1>2, <2>1, <2>3 DEF Silent
  <2>. QED  BY <2>1, <2>2, <2>4 DEF Starts
<1>7. ASSUME NEW x, e.time = 0, Sets(e, x)  PROVE Starts(z, x)
  <2>1. PICK k : k = n + 1  OBVIOUS
  <2>2. Silent(z, k)  BY <1>5, <1>7, <2>1
  <2>3. k \in DOMAIN z /\ z[k] = y  BY <1>2, <2>1
  <2>. QED  BY <1>3, <1>7, <2>2, <2>3 DEF Starts
<1>8. ASSUME NEW j \in DOMAIN s, NEW x \in Heads, j < i + 1, s[j].time = 0, Sets(s[j], x)
      PROVE  Starts(z, x)
  <2>1. j < i \/ j = i  BY <1>8
  <2>2. CASE j = i  BY <1>7, <1>8, <2>2
  <2>3. CASE j < i
    <3>1. Starts(m, x)  BY <1>8, <2>3 DEF Led
    <3>. QED  BY <1>6, <3>1
  <2>. QED  BY <2>1, <2>2, <2>3
<1>. QED  BY <1>2, <1>5, <1>8 DEF Led

(* Some notes of s are deleted in u.                                       *)
Marked(s, u) ==
  /\ DOMAIN u = DOMAIN s
  /\ \A i \in DOMAIN s : u[i] = s[i] \/ (Noted(s[i]) /\ u[i].type = "deleted")

LEMMA NotedSets == ASSUME NEW e, NEW x, Sets(e, x)  PROVE ~Noted(e) /\ e.type # "deleted"
BY DEF Sets, IsTempo, IsTimeSig, Noted

(* What is deleted is a note, and sets neither.                            *)
LEMMA MarkedSets ==
  ASSUME NEW s, NEW u, Marked(s, u), NEW i \in DOMAIN s, NEW x, Sets(u[i], x) \/ Sets(s[i], x)
  PROVE  u[i] = s[i]
BY NotedSets DEF Marked

LEMMA MarkedKeeps ==
  ASSUME NEW s, NEW u, Marked(s, u)
  PROVE  /\ HasHead(s) => HasHead(u)
         /\ \A p : Matched(s, p) => Matched(u, p)
<1>1. ASSUME NEW x, Heading(s, x)  PROVE Heading(u, x)
  <2>1. PICK i \in DOMAIN s : s[i].time = 0 /\ Sets(s[i], x)  BY <1>1 DEF Heading
  <2>2. u[i] = s[i] /\ i \in DOMAIN u  BY <2>1, MarkedSets DEF Marked
  <2>. QED  BY <2>1, <2>2 DEF Heading
<1>2. HasHead(s) => HasHead(u)  BY <1>1 DEF HasHead
<1>3. ASSUME NEW p, Matched(s, p)  PROVE Matched(u, p)
  <2>1. DOMAIN u = DOMAIN s /\ DOMAIN p = DOMAIN u  BY <1>3 DEF Marked, Matched
  <2>2. ASSUME NEW i \in DOMAIN u, u[i].type = "on", p[i] # 0
        PROVE  p[i] \in DOMAIN u /\ Noted(u[p[i]])
    <3>1. u[i] = s[i]  BY <2>1, <2>2 DEF Marked
    <3>2. p[i] \in DOMAIN s /\ Noted(s[p[i]])  BY <1>3, <2>1, <2>2, <3>1 DEF Matched
    <3>3. PICK j : j = p[i]  OBVIOUS
    <3>4. u[j] = s[j] \/ u[j].type = "deleted"  BY <3>2, <3>3 DEF Marked
    <3>. QED  BY <2>1, <3>2, <3>3, <3>4 DEF Noted
  <2>. QED  BY <2>1, <2>2 DEF Matched
<1>. QED  BY <1>2, <1>3

LEMMA MarkedSelf == ASSUME NEW s  PROVE Marked(s, s)
BY DEF Marked

LEMMA LedOn ==
  ASSUME NEW m, NEW s, NEW u, NEW i, NEW prev, NEW l, Led(m, s, i, prev), Marked(s, u),
         DOMAIN s = 1..l, l \in Nat, i \in 1..l, \A x \in Heads : ~Sets(s[i], x)
  PROVE  Led(m, u, i + 1, prev)
<1>1. ASSUME NEW j \in DOMAIN u, NEW x \in Heads, j < i + 1, u[j].time = 0, Sets(u[j], x)
      PROVE  Starts(m, x)
  <2>1. j \in DOMAIN s  BY DEF Marked
  <2>2. u[j] = s[j]  BY <1>1, <2>1, MarkedSets
  <2>3. j # i  BY <1>1, <2>2
  <2>4. j < i  BY <1>1, <2>1, <2>3
  <2>. QED  BY <1>1, <2>1, <2>2, <2>4 DEF Led
<1>. QED  BY <1>1 DEF Led

(* Only a note is deleted.                                                 *)
LEMMA DroppedMarks ==
  ASSUME HasTracks(trks, ntrks), \A k \in 1..ntrks : Matched(trks[k].events, trks[k].partners),
         tk \in 1..ntrks, pos \in DOMAIN trks[tk].events, NEW e, e = trks[tk].events[pos]
  PROVE  \A k \in 1..ntrks : /\ Marked(trks[k].events, Dropped(e)[k].events)
                             /\ Dropped(e)[k].partners = trks[k].partners
<1>1. CASE ~(e.type = "on" /\ trks[tk].partners[pos] # 0)
  <2>1. Dropped(e) = trks  BY <1>1 DEF Dropped
  <2>. QED  BY <2>1, MarkedSelf
<1>2. CASE e.type = "on" /\ trks[tk].partners[pos] # 0
  <2>1. PICK u, n, m, s, q, p : u = trks /\ n = ntrks /\ m = tk /\ s = trks[tk].events
                                /\ q = trks[tk].partners /\ p = trks[tk].partners[pos]
    OBVIOUS
  <2>2. Dropped(e) = [u EXCEPT ![m].events[p].type = "deleted"]  BY <1>2, <2>1 DEF Dropped
  <2>3. HasTracks(u, n) /\ m \in 1..n /\ s = u[m].events /\ q = u[m].partners  BY <2>1
  <2>4. p \in DOMAIN s /\ Noted(s[p])
    <3>1. Matched(s, q)  BY <2>1
    <3>2. p = q[pos] /\ pos \in DOMAIN s /\ s[pos].type = "on" /\ p # 0  BY <1>2, <2>1
    <3>. QED  BY <3>1, <3>2 DEF Matched
  <2>5. PICK z : z = Deleted(s, p)  OBVIOUS
  <2>6. DOMAIN s = 1..Len(s) /\ s \in Seq(Elements(s)) /\ \A i \in DOMAIN s : Fit(s[i], Nat)
    <3>1. Timed(s, Nat)  BY <2>3 DEF HasTracks, IsTrack, Rising
    <3>. QED  BY <3>1, ListOf DEF Timed
  <2>7. Marked(s, z)
    <3>1. DOMAIN z = DOMAIN s  BY <2>5 DEF Deleted
    <3>2. ASSUME NEW i \in DOMAIN s  PROVE z[i] = s[i] \/ (Noted(s[i]) /\ z[i].type = "deleted")
      <4>1. CASE i # p  BY <2>5, <4>1 DEF Deleted
      <4>2. CASE i = p
        <5>1. PICK a : a = s[i]  OBVIOUS
        <5>2. z[i] = [a EXCEPT !.type = "deleted"]  BY <2>5, <4>2, <5>1 DEF Deleted
        <5>3. DOMAIN a = Fields  BY <2>6, <5>1 DEF Fit
        <5>4. z[i].type = "deleted"  BY <5>2, <5>3 DEF Fields
        <5>. QED  BY <2>4, <4>2, <5>4
      <4>. QED  BY <4>1, <4>2
    <3>. QED  BY <3>1, <3>2 DEF Marked
  <2>. DEFINE t == [u[m] EXCEPT !.events = z]
              d == [u EXCEPT ![m] = t]
  <2>8. Dropped(e) = d  BY <2>2, <2>3, <2>5 DEF Deleted
  <2>9. t.events = z /\ t.partners = q
    <3>1. DOMAIN u[m] = {"events", "partners"}  BY <2>3 DEF HasTracks, IsTrack
    <3>. QED  BY <2>3, <3>1
  <2>. HIDE DEF t
  <2>10. \A k \in 1..n : d[k] = IF k = m THEN t ELSE u[k]  BY <2>3 DEF HasTracks
  <2>. HIDE DEF d
  <2>11. \A k \in 1..n : Marked(u[k].events, d[k].events) /\ d[k].partners = u[k].partners
    BY <2>3, <2>7, <2>9, <2>10, MarkedSelf
  <2>. QED  BY <2>1, <2>8, <2>11
<1>. QED  BY <1>1, <1>2

(* A tempo and a signature are always written.                             *)
LEMMA SetsWritten ==
  ASSUME NEW e, NEW x \in Heads, Sets(e, x), NEW factor
  PROVE  Written(e, factor)
BY VmagAssumption DEF Sets, IsTempo, IsTimeSig, Written

-----------------------------------------------------------------------------
(* Steps of the file that keep what its tracks start with.                 *)
SameChunks(f, g, n) == \A c \in 1..n : g.chunks[c].msgs = f.chunks[c].msgs
Starting(f, n) == \A c \in 1..n : opt.format = 2 \/ c = 1 => Begun(f.chunks[c].msgs)

LEMMA StartingSame ==
  ASSUME NEW f, NEW g, NEW n, SameChunks(f, g, n), Starting(f, n)
  PROVE  Starting(g, n)
BY DEF SameChunks, Starting

(* g is f with the event e, behind the delay d, at the end of its chunk n. *)
PutIn(f, g, n, d, e) ==
  /\ \A c \in 1..n : c # n => g.chunks[c] = f.chunks[c]
  /\ g.chunks[n].msgs = Append(f.chunks[n].msgs, [dtime |-> d, ev |-> e])
  /\ Len(g.chunks) = n

LEMMA PutLast ==
  ASSUME NEW f, NEW n, NEW x, NEW d, NEW e, NEW g, n \in Nat, Open(f, n, x), g = putevent(f, d, e)
  PROVE  PutIn(f, g, n, d, e)
<1>1. PICK m, c : m = [dtime |-> d, ev |-> e] /\ c = f.chunks[n]  OBVIOUS
<1>2. PICK new : new = [c EXCEPT !.msgs = Append(@, m)]  OBVIOUS
<1>3. /\ DOMAIN f = {"open", "ntracks", "chunks"} /\ List(f.chunks) /\ Len(f.chunks) = n
      /\ n > 0 /\ IsChunk(c)
  BY <1>1 DEF Open
<1>4. n \in DOMAIN f.chunks  BY <1>3, ListOf DEF List
<1>5. new.msgs = Append(c.msgs, m)  BY <1>2, <1>3 DEF IsChunk
<1>6. g = [f EXCEPT !.chunks = [@ EXCEPT ![n] = new]]  BY <1>1, <1>2, <1>3 DEF putevent
<1>7. g.chunks = [f.chunks EXCEPT ![n] = new]  BY <1>3, <1>6
<1>8. Len(g.chunks) = n /\ DOMAIN f.chunks = 1..n
      /\ \A i \in DOMAIN f.chunks : g.chunks[i] = IF i = n THEN new ELSE f.chunks[i]
  BY <1>3, <1>4, <1>7, ListPut
<1>. QED  BY <1>1, <1>3, <1>4, <1>5, <1>8 DEF PutIn

LEMMA BegunLast ==
  ASSUME NEW f, NEW n \in Nat, Shut(f, n), NEW g, g = bgntrack(f)
  PROVE  SameChunks(f, g, n) /\ g.chunks[n + 1].msgs = <<>>
<1>1. PICK c : c = [msgs |-> <<>>, rest |-> 0]  OBVIOUS
<1>2. DOMAIN f = {"open", "ntracks", "chunks"} /\ List(f.chunks) /\ Len(f.chunks) = n
  BY DEF Shut
<1>3. g = [f EXCEPT !.open = TRUE, !.chunks = Append(@, c)]  BY <1>1 DEF bgntrack
<1>4. g.chunks = Append(f.chunks, c)  BY <1>2, <1>3
<1>5. (\A i \in 1..n : g.chunks[i] = f.chunks[i]) /\ g.chunks[n + 1] = c
  BY <1>2, <1>4, ListAppend
<1>. QED  BY <1>1, <1>5 DEF SameChunks

LEMMA EndedLast ==
  ASSUME NEW f, NEW n \in Nat, NEW x, Open(f, n, x), NEW r, NEW g, g = endtrack(f, r)
  PROVE  SameChunks(f, g, n)
<1>1. PICK c, d : c = f.chunks[n] /\ d = [f.chunks[n] EXCEPT !.rest = r]  OBVIOUS
<1>2. /\ DOMAIN f = {"open", "ntracks", "chunks"} /\ List(f.chunks) /\ Len(f.chunks) = n
      /\ n > 0 /\ IsChunk(c) /\ f.open
  BY <1>1 DEF Open
<1>3. n \in DOMAIN f.chunks  BY <1>2, ListOf DEF List
<1>4. d.msgs = c.msgs  BY <1>1, <1>2 DEF IsChunk
<1>5. g = [f EXCEPT !.open = FALSE, !.chunks = [@ EXCEPT ![n] = d]]
  BY <1>1, <1>2 DEF endtrack
<1>6. g.chunks = [f.chunks EXCEPT ![n] = d]  BY <1>2, <1>5
<1>7. DOMAIN f.chunks = 1..n
      /\ \A i \in DOMAIN f.chunks : g.chunks[i] = IF i = n THEN d ELSE f.chunks[i]
  BY <1>2, <1>3, <1>6, ListPut
<1>. QED  BY <1>1, <1>4, <1>7 DEF SameChunks

LEMMA EmptyLast ==
  ASSUME NEW f, NEW n \in Nat, Shut(f, n), NEW k \in Nat, NEW g, g = EmptyTracks(f, k)
  PROVE  SameChunks(f, g, n)
<1>1. PICK c : c = [msgs |-> <<>>, rest |-> Rest(0)]  OBVIOUS
<1>2. PICK t : t = [i \in 1..k |-> c]  OBVIOUS
<1>3. DOMAIN f = {"open", "ntracks", "chunks"} /\ List(f.chunks) /\ Len(f.chunks) = n
  BY DEF Shut
<1>4. List(t) /\ Len(t) = k  BY <1>2, ListMap
<1>5. g = [f EXCEPT !.chunks = @ \o t]  BY <1>1, <1>2 DEF EmptyTracks
<1>6. g.chunks = f.chunks \o t  BY <1>3, <1>5
<1>7. PICK u, w : u = f.chunks /\ w = g.chunks  OBVIOUS
<1>8. List(u) /\ Len(u) = n /\ w = u \o t  BY <1>3, <1>6, <1>7
<1>9. \A i \in 1..(n + k) : w[i] = IF i <= n THEN u[i] ELSE t[i - n]
  BY <1>4, <1>8, ListJoin
<1>10. \A i \in 1..n : i \in 1..(n + k) /\ i <= n  OBVIOUS
<1>11. \A i \in 1..n : w[i] = u[i]  BY <1>9, <1>10
<1>. QED  BY <1>7, <1>11 DEF SameChunks
-----------------------------------------------------------------------------
(* The file so far: what the place in the track has passed is in its last  *)
(* chunk, and the chunks before it begin with a tempo and a signature.     *)
Passing == IF tk = prev_tk + 1 THEN pos ELSE Len(trks[prev_tk + 1].events) + 1
FileHeaded ==
  /\ opt.format < 2 /\ Len(mfp.chunks) = 1 => prev_tk = 0
  /\ \A c \in 1..Len(mfp.chunks) :
       c < Len(mfp.chunks) /\ (opt.format = 2 \/ c = 1) => Begun(mfp.chunks[c].msgs)
  /\ prev_tk # -1 =>
       /\ trks[prev_tk + 1].events # <<>>
       /\ Led(mfp.chunks[Len(mfp.chunks)].msgs, trks[prev_tk + 1].events, Passing, prev_time)

(* A track that is written to its end has begun with them.                 *)
LEMMA LastStarting ==
  ASSUME Writing, TracksHeaded, FileHeaded, prev_tk # -1, tk # prev_tk + 1
  PROVE  Starting(mfp, Chunked(prev_tk))
<1>1. PICK n, k, s : n = Chunked(prev_tk) /\ k = prev_tk + 1 /\ s = trks[prev_tk + 1].events
  OBVIOUS
<1>2. k \in 1..ntrks /\ HasTracks(trks, ntrks) /\ opt.format \in 0..2
  BY <1>1 DEF Writing, AtTrack, Song, HasTracks, Chosen
<1>3. Open(mfp, n, prev_time)  BY <1>1 DEF Writing, FileSoFar
<1>4. Len(mfp.chunks) = n  BY <1>3 DEF Open
<1>5. DOMAIN s = 1..Len(s) /\ Len(s) \in Nat  BY <1>1, <1>2, EventsOf
<1>6. Passing = Len(s) + 1  BY <1>1 DEF Passing
<1>7. s # <<>> /\ Led(mfp.chunks[n].msgs, s, Len(s) + 1, prev_time)
  BY <1>1, <1>4, <1>6 DEF FileHeaded
<1>8. ASSUME NEW c \in 1..n, opt.format = 2 \/ c = 1  PROVE Begun(mfp.chunks[c].msgs)
  <2>1. CASE c # n
    <3>1. n \in Nat
      <4>1. List(mfp.chunks)  BY <1>3 DEF Open
      <4>. QED  BY <1>4, <4>1, ListOf DEF List
    <3>2. c < n  BY <2>1, <3>1
    <3>. QED  BY <1>4, <1>8, <3>2 DEF FileHeaded
  <2>2. CASE c = n
    <3>1. opt.format < 2 => k = 1
      <4>1. opt.format < 2 => Len(mfp.chunks) = 1  BY <1>4, <1>8, <2>2
      <4>. QED  BY <1>1, <4>1 DEF FileHeaded
    <3>2. trks[k].events # <<>>  BY <1>1, <1>7
    <3>3. Headed(k)  BY <3>1, <3>2 DEF Headed
    <3>4. HasHead(s)  BY <1>1, <1>2, <3>3 DEF TracksHeaded
    <3>5. ASSUME NEW x \in Heads  PROVE Starts(mfp.chunks[n].msgs, x)
      <4>1. PICK i \in DOMAIN s : s[i].time = 0 /\ Sets(s[i], x)  BY <3>4 DEF HasHead, Heading
      <4>2. i < Len(s) + 1  BY <1>5
      <4>. QED  BY <1>7, <4>1, <4>2 DEF Led
    <3>. QED  BY <2>2, <3>5 DEF Begun
  <2>. QED  BY <2>1, <2>2
<1>. QED  BY <1>1, <1>8 DEF Starting

(* The track of the first event of a song is the first.                    *)
LEMMA FirstTrack ==
  ASSUME Writing, TracksHeaded, opt.format < 2, prev_tk = -1
  PROVE  tk = 1
<1>1. /\ ntrks \in Nat /\ tk \in 1..(ntrks + 1)
      /\ \A k \in 1..ntrks : k < tk /\ trks[k].events # <<>> => k <= 0
      /\ \E k \in 1..ntrks : trks[k].events # <<>>
  BY DEF Writing, Song, HasTracks, AtTrack
<1>2. 1 \in 1..ntrks  BY <1>1
<1>3. Headed(1)  BY DEF Headed
<1>4. HasHead(trks[1].events)  BY <1>2, <1>3 DEF TracksHeaded
<1>5. trks[1].events # <<>>  BY <1>4, HeadEvents
<1>6. ~(1 < tk)  BY <1>1, <1>2, <1>5
<1>. QED  BY <1>1, <1>6

LEMMA SwitchedHeaded ==
  ASSUME Writing, TracksHeaded, FileHeaded, tk <= ntrks, prev_tk # tk - 1,
         trks[tk].events # <<>>, NEW f, f = Switched(tk - 1), NEW c, c = Chunked(tk - 1)
  PROVE  /\ \A b \in 1..c : b < c /\ (opt.format = 2 \/ b = 1) => Begun(f.chunks[b].msgs)
         /\ f.chunks[c].msgs = <<>>
         /\ opt.format < 2 /\ c = 1 => tk = 1
<1>1. PICK ended, n, k : /\ ended = IF prev_tk # -1 THEN endtrack(mfp, Rest(prev_time)) ELSE mfp
                         /\ n = Chunked(prev_tk) /\ k = tk - 1 - 1 - prev_tk
  OBVIOUS
<1>2. PICK g, m : /\ g = IF opt.pack_tracks THEN ended ELSE EmptyTracks(ended, k)
                  /\ m = IF opt.pack_tracks THEN n ELSE n + k
  OBVIOUS
<1>3. /\ opt.format \in 0..2 /\ opt.pack_tracks \in BOOLEAN /\ HasTracks(trks, ntrks)
      /\ AtTrack /\ end_of_song \in Nat /\ prev_time \in 0..end_of_song
      /\ FileSoFar /\ ntrks \in Nat
  BY DEF Writing, Song, Chosen, OnTime, HasTracks
<1>4. /\ prev_tk \in -1..(tk - 1) /\ tk \in 1..ntrks /\ prev_tk + 1 \in Nat /\ k \in Nat
      /\ prev_tk + 1 + k = tk - 1
      /\ \A j \in 1..ntrks : j < tk /\ trks[j].events # <<>> => j <= prev_tk + 1
  BY <1>1, <1>3 DEF AtTrack
<1>5. n \in Nat  BY <1>1, <1>3, <1>4, ActiveSet DEF Chunked
<1>6. /\ Shut(ended, n) /\ Starting(ended, n)
      /\ n = 0 => prev_tk = -1
  <2>1. CASE prev_tk # -1
    <3>1. PICK h, x : h = mfp /\ x = prev_time  OBVIOUS
    <3>2. Open(h, n, x)  BY <1>1, <1>3, <2>1, <3>1 DEF FileSoFar
    <3>3. x \in Int /\ x <= end_of_song /\ end_of_song \in Int
      <4>1. x \in 0..end_of_song /\ end_of_song \in Nat  BY <1>3, <3>1
      <4>. QED  BY <4>1
    <3>4. ended = endtrack(h, Rest(x))  BY <1>1, <2>1, <3>1
    <3>5. Shut(endtrack(h, Rest(x)), n)  BY <1>3, <1>5, <3>2, <3>3, EndedFile
    <3>6. SameChunks(h, ended, n)  BY <1>5, <3>2, <3>4, EndedLast
    <3>7. tk # prev_tk + 1  BY <1>4
    <3>8. Starting(h, n)  BY <1>1, <2>1, <3>1, <3>7, LastStarting
    <3>9. n > 0  BY <3>2 DEF Open
    <3>. QED  BY <2>1, <3>4, <3>5, <3>6, <3>8, <3>9, StartingSame
  <2>2. CASE prev_tk = -1
    <3>1. Shut(mfp, n)  BY <1>1, <1>3, <2>2 DEF FileSoFar
    <3>2. n = 0
      <4>1. prev_tk + 1 = 0  BY <2>2
      <4>2. Cardinality(Active(0)) = 0  BY ActiveSet
      <4>. QED  BY <1>1, <4>1, <4>2 DEF Chunked
    <3>3. Starting(ended, n)  BY <3>2 DEF Starting
    <3>. QED  BY <1>1, <2>2, <3>1, <3>3
  <2>. QED  BY <2>1, <2>2
<1>7. opt.format < 2 /\ n = 0 => tk = 1 /\ m = 0
  <2>1. SUFFICES ASSUME opt.format < 2, n = 0  PROVE tk = 1 /\ m = 0
    OBVIOUS
  <2>2. prev_tk = -1  BY <1>6, <2>1
  <2>3. tk = 1  BY <2>1, <2>2, FirstTrack
  <2>4. k = 0  BY <1>1, <2>2, <2>3
  <2>. QED  BY <1>2, <2>1, <2>3, <2>4
<1>8. opt.format = 2 => m = n
  <2>1. CASE opt.pack_tracks  BY <1>2, <2>1
  <2>2. CASE opt.format = 2 /\ ~opt.pack_tracks
    <3>1. \A j \in 1..ntrks : j < tk => j <= prev_tk + 1
      BY <1>4, <2>2 DEF TracksHeaded
    <3>2. k = 0
      <4>1. CASE tk = 1  BY <1>1, <1>4, <4>1
      <4>2. CASE tk # 1
        <5>1. tk - 1 \in 1..ntrks /\ tk - 1 < tk  BY <1>3, <1>4, <4>2
        <5>2. tk - 1 <= prev_tk + 1  BY <3>1, <5>1
        <5>. QED  BY <1>1, <1>4, <5>2
      <4>. QED  BY <4>1, <4>2
    <3>. QED  BY <1>2, <1>5, <2>2, <3>2
  <2>. QED  BY <2>1, <2>2
<1>9. Shut(g, m) /\ SameChunks(ended, g, n) /\ m \in Nat /\ n <= m
  <2>1. CASE opt.pack_tracks  BY <1>2, <1>5, <1>6, <2>1 DEF SameChunks
  <2>2. CASE ~opt.pack_tracks
    <3>1. g = EmptyTracks(ended, k) /\ m = n + k  BY <1>2, <2>2
    <3>2. Shut(EmptyTracks(ended, k), n + k)  BY <1>3, <1>4, <1>5, <1>6, EmptyFile
    <3>3. SameChunks(ended, g, n)  BY <1>4, <1>5, <1>6, <3>1, EmptyLast
    <3>4. m \in Nat /\ n <= m  BY <1>4, <1>5, <3>1
    <3>. QED  BY <3>1, <3>2, <3>3, <3>4
  <2>. QED  BY <2>1, <2>2
<1>10. Starting(g, n)  BY <1>6, <1>9, StartingSame
<1>11. Starting(g, m)
  <2>1. ASSUME NEW b \in 1..m, opt.format = 2 \/ b = 1  PROVE Begun(g.chunks[b].msgs)
    <3>1. CASE b <= n
      <4>1. b \in 1..n  BY <1>5, <3>1
      <4>. QED  BY <1>10, <2>1, <4>1 DEF Starting
    <3>2. CASE ~(b <= n)
      <4>1. opt.format # 2  BY <1>8, <3>2
      <4>2. b = 1 /\ n = 0 /\ opt.format < 2  BY <1>3, <1>5, <2>1, <3>2, <4>1
      <4>3. m = 0  BY <1>7, <4>2
      <4>. QED  BY <4>3
    <3>. QED  BY <3>1, <3>2
  <2>. QED  BY <2>1 DEF Starting
<1>12. c = m + 1
  <2>1. CASE opt.pack_tracks
    <3>1. m = Cardinality(Active(prev_tk + 1))  BY <1>1, <1>2, <2>1 DEF Chunked
    <3>2. Chunked(tk - 1) = Cardinality(Active(tk - 1 + 1)) /\ tk - 1 + 1 = tk
      BY <1>4, <2>1 DEF Chunked
    <3>. QED  BY <1>3, <3>1, <3>2, NextActive
  <2>2. CASE ~opt.pack_tracks
    <3>1. m = prev_tk + 1 + k  BY <1>1, <1>2, <2>2 DEF Chunked
    <3>. QED  BY <1>4, <2>2, <3>1 DEF Chunked
  <2>. QED  BY <2>1, <2>2
<1>13. f = bgntrack(g)  BY <1>1, <1>2 DEF Switched
<1>14. SameChunks(g, f, m) /\ f.chunks[m + 1].msgs = <<>>  BY <1>9, <1>13, BegunLast
<1>15. Starting(f, m)  BY <1>11, <1>14, StartingSame
<1>16. ASSUME NEW b \in 1..c, b < c, opt.format = 2 \/ b = 1  PROVE Begun(f.chunks[b].msgs)
  <2>1. b \in 1..m  BY <1>9, <1>12, <1>16
  <2>. QED  BY <1>15, <1>16, <2>1 DEF Starting
<1>17. ASSUME opt.format < 2, c = 1  PROVE tk = 1
  <2>1. n = 0  BY <1>5, <1>9, <1>12, <1>17
  <2>. QED  BY <1>7, <1>17, <2>1
<1>. QED  BY <1>12, <1>14, <1>16, <1>17
-----------------------------------------------------------------------------
(* The steps that write the file.                                          *)
LEMMA ActionHeaded ==
  ASSUME Writing, TracksHeaded, FileHeaded, smfout_action
  PROVE  TracksHeaded' /\ FileHeaded'
<1>. DEFINE e == trks[tk].events[pos]
            track == tk - 1
            switch == track # prev_tk
            f == IF switch THEN Switched(track) ELSE mfp
            prev == IF switch THEN 0 ELSE prev_time
            t == ConvTime(e.time)
            c == Chunked(track)
            s == trks[tk].events
<1>1. PICK w \in BOOLEAN :
        /\ mfp' = IF w THEN putevent(f, t - prev, e) ELSE f
        /\ prev_time' = IF w THEN t ELSE prev
        /\ trks' = IF w THEN trks ELSE Dropped(e)
        /\ (\A x \in Heads : ~Sets(e, x)) \/ w
  <2>. DEFINE factor == IF switch THEN 1 ELSE vmag
              x == Written(e, factor)
  <2>1. /\ mfp' = IF x THEN putevent(f, t - prev, e) ELSE f
        /\ prev_time' = IF x THEN t ELSE prev
        /\ trks' = IF x THEN trks ELSE Dropped(e)
    BY DEF smfout_action
  <2>2. x \in BOOLEAN  BY DEF Written
  <2>3. \A h \in Heads : Sets(e, h) => x
    <3>1. PICK a, b : a = e /\ b = factor  OBVIOUS
    <3>2. \A h \in Heads : Sets(a, h) => Written(a, b)  BY SetsWritten
    <3>3. x <=> Written(a, b)  BY <3>1
    <3>. HIDE DEF x, e
    <3>. QED  BY <3>1, <3>2, <3>3
  <2>. HIDE DEF x, f, prev, t, e
  <2>. QED  BY <2>1, <2>2, <2>3
<1>2. /\ tk <= ntrks /\ pos <= Len(s) /\ prev_tk' = track /\ pos' = pos + 1
      /\ UNCHANGED <<ntrks, tk, opt>>
  BY DEF smfout_action
<1>3. /\ tk \in 1..ntrks /\ pos \in DOMAIN s /\ s # <<>>
      /\ t \in 0..end_of_song
  BY <1>2, TimeOfEvent
<1>4. /\ HasTracks(trks, ntrks) /\ ntrks \in Nat /\ Chosen /\ AtTrack /\ OnTime
      /\ end_of_song \in Nat /\ prev_time \in 0..end_of_song
  BY DEF Writing, Song, HasTracks, OnTime
<1>5. /\ DOMAIN s = 1..Len(s) /\ Len(s) \in Nat  BY <1>3, <1>4, EventsOf
<1>6. /\ Open(f, c, prev) /\ prev \in 0..end_of_song /\ prev <= t
      /\ \A b \in 1..c : b < c /\ (opt.format = 2 \/ b = 1) => Begun(f.chunks[b].msgs)
      /\ opt.format < 2 /\ c = 1 => tk = 1
      /\ Led(f.chunks[c].msgs, s, pos, prev)
  <2>1. CASE switch
    <3>0. tk <= ntrks /\ prev_tk # tk - 1 /\ trks[tk].events # <<>>  BY <1>2, <1>3, <2>1
    <3>1. Open(Switched(track), c, 0)  BY <3>0, BegunTrack
    <3>2. f = Switched(track) /\ prev = 0  BY <2>1
    <3>3. PICK g, d : g = Switched(tk - 1) /\ d = Chunked(tk - 1)  OBVIOUS
    <3>4. /\ \A b \in 1..d : b < d /\ (opt.format = 2 \/ b = 1) => Begun(g.chunks[b].msgs)
          /\ g.chunks[d].msgs = <<>>
          /\ opt.format < 2 /\ d = 1 => tk = 1
      BY <3>0, <3>3, SwitchedHeaded
    <3>5. 0 \in 0..end_of_song /\ 0 <= t  BY <1>3, <1>4
    <3>6. pos = 1  BY <1>2, <1>4, <3>0 DEF AtTrack
    <3>7. Led(<<>>, s, 1, 0)
      <4>1. \A j \in DOMAIN s : ~(j < 1)  BY <1>5
      <4>2. Len(<<>>) = 0 /\ List(<<>>)  BY ListEmpty
      <4>3. Silent(<<>>, Len(<<>>))
        <5>1. \A i \in 1..0 : FALSE  OBVIOUS
        <5>. QED  BY <4>2, <5>1 DEF Silent
      <4>. QED  BY <4>1, <4>2, <4>3 DEF Led
    <3>8. f = g /\ c = d  BY <3>2, <3>3
    <3>. HIDE DEF f, prev, s, t, c
    <3>9. Led(f.chunks[c].msgs, s, pos, prev)  BY <3>2, <3>4, <3>6, <3>7, <3>8
    <3>. QED  BY <3>1, <3>2, <3>4, <3>5, <3>8, <3>9
  <2>2. CASE ~switch
    <3>1. prev_tk = tk - 1 /\ prev_tk # -1 /\ prev_tk + 1 = tk  BY <1>3, <1>4, <2>2
    <3>2. Open(mfp, Chunked(prev_tk), prev_time)  BY <3>1 DEF Writing, FileSoFar
    <3>3. \A i \in DOMAIN s : i >= pos => prev_time <= ConvTime(s[i].time)
      BY <1>2, <1>4, <3>1 DEF OnTime
    <3>4. prev_time <= t
      <4>1. pos >= pos  BY <1>3, <1>5
      <4>. QED  BY <1>3, <3>3, <4>1
    <3>5. f = mfp /\ prev = prev_time /\ c = Chunked(prev_tk)  BY <2>2
    <3>6. Len(mfp.chunks) = c  BY <3>2, <3>5 DEF Open
    <3>7. Passing = pos  BY <3>1 DEF Passing
    <3>. HIDE DEF c
    <3>8. /\ opt.format < 2 /\ c = 1 => prev_tk = 0
          /\ \A b \in 1..c : b < c /\ (opt.format = 2 \/ b = 1) => Begun(mfp.chunks[b].msgs)
          /\ Led(mfp.chunks[c].msgs, s, pos, prev_time)
      BY <3>1, <3>6, <3>7 DEF FileHeaded
    <3>9. opt.format < 2 /\ c = 1 => tk = 1  BY <3>1, <3>8
    <3>. HIDE DEF f, prev, s, t
    <3>. QED  BY <1>4, <3>2, <3>4, <3>5, <3>8, <3>9
  <2>. QED  BY <2>1, <2>2
<1>7. c \in Nat
  <2>1. track + 1 \in Nat  BY <1>3
  <2>. QED  BY <1>4, <2>1, ActiveSet DEF Chunked
<1>8. e = s[pos] /\ (e.time = 0 => t = 0)  BY ConvZero
<1>. HIDE DEF f, prev, t, e, c
<1>9. \A k \in 1..ntrks : /\ Marked(trks[k].events, trks'[k].events)
                          /\ trks'[k].partners = trks[k].partners
  <2>1. CASE w  BY <1>1, <2>1, MarkedSelf
  <2>2. CASE ~w
    <3>1. trks' = Dropped(e)  BY <1>1, <2>2
    <3>2. \A k \in 1..ntrks : Matched(trks[k].events, trks[k].partners)  BY DEF TracksHeaded
    <3>3. e = trks[tk].events[pos] /\ pos \in DOMAIN trks[tk].events  BY <1>3, <1>8
    <3>. QED  BY <1>3, <1>4, <3>1, <3>2, <3>3, DroppedMarks
  <2>. QED  BY <2>1, <2>2
<1>10. PICK u : u = trks'[tk].events  OBVIOUS
<1>11. Marked(s, u)  BY <1>3, <1>9, <1>10
<1>12. /\ Len(mfp'.chunks) = c
       /\ \A b \in 1..c : b # c => mfp'.chunks[b] = f.chunks[b]
       /\ Led(mfp'.chunks[c].msgs, u, pos + 1, prev_time')
  <2>1. PICK m : m = f.chunks[c].msgs  OBVIOUS
  <2>2. Led(m, s, pos, prev)  BY <1>6, <2>1
  <2>3. CASE w
    <3>1. PICK d, g : d = t - prev /\ g = mfp'  OBVIOUS
    <3>2. g = putevent(f, d, e)  BY <1>1, <2>3, <3>1
    <3>3. /\ \A b \in 1..c : b # c => g.chunks[b] = f.chunks[b]
          /\ g.chunks[c].msgs = Append(f.chunks[c].msgs, [dtime |-> d, ev |-> e])
          /\ Len(g.chunks) = c
      <4>1. PICK q, n, v, p : q = f /\ n = c /\ v = e /\ p = prev  OBVIOUS
      <4>2. n \in Nat /\ Open(q, n, p) /\ g = putevent(q, d, v)  BY <1>6, <1>7, <3>2, <4>1
      <4>3. PutIn(q, g, n, d, v)  BY <4>2, PutLast
      <4>. QED  BY <4>1, <4>3 DEF PutIn
    <3>4. PICK y, z, l, i : /\ y = [dtime |-> t - prev, ev |-> e] /\ z = Append(m, y)
                            /\ l = Len(s) /\ i = pos
      OBVIOUS
    <3>5. z = g.chunks[c].msgs  BY <2>1, <3>1, <3>3, <3>4
    <3>6. prev \in Nat /\ t \in Nat /\ prev <= t  BY <1>3, <1>4, <1>6
    <3>7. u = s  BY <1>1, <1>10, <2>3
    <3>8. Led(m, s, i, prev) /\ DOMAIN s = 1..l /\ l \in Nat /\ i \in 1..l /\ e = s[i]
      BY <1>3, <1>5, <1>8, <2>2, <3>4
    <3>. HIDE DEF s
    <3>9. Led(z, s, i + 1, t)  BY <1>8, <3>4, <3>6, <3>8, LedPut
    <3>10. prev_time' = t  BY <1>1, <2>3
    <3>. QED  BY <3>1, <3>3, <3>4, <3>5, <3>7, <3>9, <3>10
  <2>4. CASE ~w
    <3>1. mfp' = f /\ prev_time' = prev /\ \A x \in Heads : ~Sets(e, x)  BY <1>1, <2>4
    <3>2. PICK l, i, a : l = Len(s) /\ i = pos /\ a = s  OBVIOUS
    <3>3. /\ Led(m, a, i, prev) /\ Marked(a, u) /\ DOMAIN a = 1..l /\ l \in Nat /\ i \in 1..l
          /\ \A x \in Heads : ~Sets(a[i], x)
      BY <1>3, <1>5, <1>8, <1>11, <2>2, <3>1, <3>2
    <3>4. Led(m, u, i + 1, prev)  BY <3>3, LedOn
    <3>5. Len(f.chunks) = c  BY <1>6 DEF Open
    <3>. QED  BY <2>1, <3>1, <3>2, <3>4, <3>5
  <2>. QED  BY <2>3, <2>4
<1>13. u # <<>>
  <2>0. PICK M \in Nat : Within(trks, ntrks, 0..M)  BY DEF Writing, Lasts
  <2>1. Like(trks, Dropped(e), ntrks)  BY <1>3, <1>4, <2>0, DroppedLike
  <2>. QED  BY <1>1, <1>3, <1>10, <2>1 DEF Like
<1>14. FileHeaded'
  <2>1. prev_tk' + 1 = tk /\ prev_tk' = tk - 1 /\ tk' = tk  BY <1>2, <1>3, <1>4
  <2>2. Passing' = pos + 1  BY <1>2, <2>1 DEF Passing
  <2>3. /\ trks'[prev_tk' + 1].events # <<>>
        /\ Led(mfp'.chunks[c].msgs, trks'[prev_tk' + 1].events, Passing', prev_time')
    BY <1>10, <1>12, <1>13, <2>1, <2>2
  <2>4. opt'.format < 2 /\ c = 1 => prev_tk' = 0  BY <1>2, <1>6, <2>1
  <2>5. ASSUME NEW b \in 1..c, b < c, opt'.format = 2 \/ b = 1
        PROVE  Begun(mfp'.chunks[b].msgs)
    <3>1. b # c  BY <2>5
    <3>. QED  BY <1>2, <1>6, <1>12, <2>5, <3>1
  <2>. QED  BY <1>12, <2>3, <2>4, <2>5 DEF FileHeaded
<1>15. TracksHeaded'
  <2>1. ASSUME NEW k \in 1..ntrks
        PROVE  /\ Matched(trks'[k].events, trks'[k].partners)
               /\ Headed(k)' => HasHead(trks'[k].events)
               /\ trks[k].events # <<>> => trks'[k].events # <<>>
    <3>1. PICK a, b : a = trks[k].events /\ b = trks'[k].events  OBVIOUS
    <3>2. Marked(a, b) /\ trks'[k].partners = trks[k].partners  BY <1>9, <3>1
    <3>3. Matched(a, trks[k].partners)  BY <3>1 DEF TracksHeaded
    <3>4. a = <<>> <=> b = <<>>
      <4>0. PICK M \in Nat : Within(trks, ntrks, 0..M)  BY DEF Writing, Lasts
      <4>1. Like(trks, Dropped(e), ntrks)  BY <1>3, <1>4, <4>0, DroppedLike
      <4>. QED  BY <1>1, <3>1, <4>1 DEF Like
    <3>5. Headed(k)' => Headed(k)  BY <1>2, <3>1, <3>4 DEF Headed
    <3>6. Headed(k) => HasHead(a)  BY <3>1 DEF TracksHeaded
    <3>. QED  BY <3>1, <3>2, <3>3, <3>4, <3>5, <3>6, MarkedKeeps
  <2>. QED  BY <1>2, <2>1 DEF TracksHeaded
<1>. QED  BY <1>14, <1>15

LEMMA NextHeaded ==
  ASSUME Writing, TracksHeaded, FileHeaded, next_action
  PROVE  TracksHeaded' /\ FileHeaded'
<1>1. /\ tk <= ntrks /\ pos > Len(trks[tk].events) /\ tk' = tk + 1 /\ pos' = 1
      /\ UNCHANGED <<trks, ntrks, opt, prev_tk, prev_time, mfp>>
  BY DEF next_action
<1>2. TracksHeaded'  BY <1>1 DEF TracksHeaded, Headed
<1>3. HasTracks(trks, ntrks) /\ tk \in 1..ntrks /\ prev_tk \in -1..(tk - 1) /\ ntrks \in Nat
      /\ pos \in Nat
  BY <1>1 DEF Writing, Song, HasTracks, AtTrack
<1>4. ASSUME prev_tk # -1
      PROVE  \A m : Led(m, trks[prev_tk + 1].events, Passing, prev_time)
                      => Led(m, trks[prev_tk + 1].events, Passing', prev_time)
  <2>1. PICK s : s = trks[prev_tk + 1].events  OBVIOUS
  <2>2. tk' # prev_tk' + 1  BY <1>1, <1>3
  <2>3. Passing' = Len(s) + 1  BY <1>1, <2>1, <2>2 DEF Passing
  <2>4. Passing # Len(s) + 1 => Passing = pos /\ pos > Len(s)  BY <1>1, <2>1 DEF Passing
  <2>5. prev_tk + 1 \in 1..ntrks  BY <1>3, <1>4
  <2>6. DOMAIN s = 1..Len(s) /\ Len(s) \in Nat  BY <1>3, <2>1, <2>5, EventsOf
  <2>7. \A j \in DOMAIN s : j < Passing
    <3>1. CASE Passing = Len(s) + 1  BY <2>6, <3>1
    <3>2. CASE Passing # Len(s) + 1
      <4>1. PICK y, l : y = Passing /\ l = Len(s)  OBVIOUS
      <4>2. y \in Nat /\ y > l /\ l \in Nat  BY <1>3, <2>4, <2>6, <3>2, <4>1
      <4>. QED  BY <2>6, <4>1, <4>2
    <3>. QED  BY <3>1, <3>2
  <2>8. ASSUME NEW m, Led(m, s, Passing, prev_time)  PROVE Led(m, s, Passing', prev_time)
    BY <2>7, <2>8 DEF Led
  <2>. QED  BY <2>1, <2>8
<1>. QED  BY <1>1, <1>2, <1>4 DEF FileHeaded

(* The closed file: the chunks that begin with a tempo and a signature.    *)
Begins == \A c \in DOMAIN mfp.chunks : opt.format = 2 \/ c = 1 => Begun(mfp.chunks[c].msgs)

LEMMA WrapHeaded ==
  ASSUME Writing, TracksHeaded, FileHeaded, smfout_wrap
  PROVE  Begins'
<1>1. PICK n, k : n = Chunked(prev_tk) /\ k = IF opt.pack_tracks THEN 0 ELSE ntrks - 1 - prev_tk
  OBVIOUS
<1>2. /\ tk > ntrks /\ opt' = opt
      /\ mfp' = EmptyTracks(endtrack(mfp, Rest(prev_time)), k)
  BY <1>1 DEF smfout_wrap, TrailingTracks
<1>3. /\ opt.format \in 0..2 /\ opt.pack_tracks \in BOOLEAN /\ HasTracks(trks, ntrks)
      /\ AtTrack /\ end_of_song \in Nat /\ prev_time \in 0..end_of_song
      /\ FileSoFar /\ ntrks \in Nat
  BY DEF Writing, Song, Chosen, OnTime, HasTracks
<1>4. /\ tk = ntrks + 1 /\ prev_tk < ntrks /\ prev_tk \in -1..(tk - 1)
      /\ \A j \in 1..ntrks : trks[j].events # <<>> => j <= prev_tk + 1
  <2>1. /\ tk \in 1..(ntrks + 1) /\ prev_tk < ntrks /\ prev_tk \in -1..(tk - 1)
        /\ \A j \in 1..ntrks : j < tk /\ trks[j].events # <<>> => j <= prev_tk + 1
    BY <1>3 DEF AtTrack
  <2>2. tk = ntrks + 1  BY <1>2, <1>3, <2>1
  <2>3. \A j \in 1..ntrks : j < tk  BY <1>3, <2>2
  <2>. QED  BY <2>1, <2>2, <2>3
<1>5. prev_tk # -1
  <2>1. PICK j \in 1..ntrks : trks[j].events # <<>>  BY DEF Writing
  <2>2. j <= prev_tk + 1  BY <1>4, <2>1
  <2>. QED  BY <2>2
<1>6. prev_tk + 1 \in 1..ntrks /\ tk # prev_tk + 1 /\ k \in Nat  BY <1>1, <1>3, <1>4, <1>5
<1>7. n \in Nat
  <2>1. prev_tk + 1 \in Nat  BY <1>6
  <2>. QED  BY <1>1, <1>3, <2>1, ActiveSet DEF Chunked
<1>8. PICK f, x, g, h : f = mfp /\ x = prev_time /\ g = endtrack(mfp, Rest(prev_time)) /\ h = mfp'
  OBVIOUS
<1>9. Open(f, n, x)  BY <1>1, <1>3, <1>5, <1>8 DEF FileSoFar
<1>10. x \in Int /\ x <= end_of_song /\ end_of_song \in Int
  <2>1. x \in 0..end_of_song /\ end_of_song \in Nat  BY <1>3, <1>8
  <2>. QED  BY <2>1
<1>11. g = endtrack(f, Rest(x)) /\ h = EmptyTracks(g, k)  BY <1>2, <1>8
<1>12. Shut(g, n)  BY <1>3, <1>7, <1>9, <1>10, <1>11, EndedFile
<1>13. SameChunks(f, g, n)  BY <1>7, <1>9, <1>11, EndedLast
<1>14. SameChunks(g, h, n)  BY <1>6, <1>7, <1>11, <1>12, EmptyLast
<1>15. Shut(h, n + k)  BY <1>3, <1>6, <1>7, <1>11, <1>12, EmptyFile
<1>16. Starting(f, n)  BY <1>1, <1>5, <1>6, <1>8, LastStarting
<1>17. Starting(h, n)  BY <1>13, <1>14, <1>16, StartingSame
<1>18. n > 0  BY <1>9 DEF Open
<1>19. DOMAIN h.chunks = 1..(n + k)
  <2>1. List(h.chunks) /\ Len(h.chunks) = n + k  BY <1>15 DEF Shut
  <2>. QED  BY <2>1, ListOf DEF List
<1>20. opt.format = 2 => k = 0
  <2>1. CASE opt.pack_tracks  BY <1>1, <2>1
  <2>2. CASE opt.format = 2 /\ ~opt.pack_tracks
    <3>1. trks[ntrks].events # <<>> /\ ntrks \in 1..ntrks
      <4>1. ntrks \in 1..ntrks  BY <1>3, <1>6
      <4>. QED  BY <2>2, <4>1 DEF TracksHeaded
    <3>2. ntrks <= prev_tk + 1  BY <1>4, <3>1
    <3>. QED  BY <1>1, <1>3, <1>4, <2>2, <3>2
  <2>. QED  BY <2>1, <2>2
<1>21. ASSUME NEW c \in DOMAIN h.chunks, opt.format = 2 \/ c = 1  PROVE Begun(h.chunks[c].msgs)
  <2>1. c \in 1..n
    <3>1. CASE opt.format = 2  BY <1>7, <1>19, <1>20, <1>21, <3>1
    <3>2. CASE c = 1  BY <1>7, <1>18, <3>2
    <3>. QED  BY <1>21, <3>1, <3>2
  <2>. QED  BY <1>17, <1>21, <2>1 DEF Starting
<1>. QED  BY <1>2, <1>8, <1>21 DEF Begins

(* What starts the song at the time 0 is behind no delay.                  *)
LEMMA SilentSum ==
  ASSUME NEW m, List(m), NEW j \in DOMAIN m, Silent(m, j)
  PROVE  Sum([i \in 1..j |-> m[i].dtime]) = 0
<1>1. PICK d : d = [i \in 1..j |-> m[i].dtime]  OBVIOUS
<1>2. j \in Nat /\ j \in 1..Len(m)
  <2>1. DOMAIN m = 1..Len(m) /\ Len(m) \in Nat  BY ListOf DEF List
  <2>. QED  BY <2>1
<1>3. \A i \in 1..j : d[i] = 0  BY <1>1 DEF Silent
<1>4. d = [i \in 1..j |-> 0]  BY <1>1, <1>3
<1>5. Len(d) = j  BY <1>2, <1>4, ListMap
<1>6. PICK g : g = [i \in 0..j |-> 0]  OBVIOUS
<1>7. /\ g \in [0..j -> Int] /\ g[0] = 0 /\ g[j] = 0
      /\ \A i \in 1..j : g[i] = g[i - 1] + d[i]
  <2>1. \A i \in 0..j : g[i] = 0  BY <1>6
  <2>2. 0 \in 0..j /\ j \in 0..j  BY <1>2
  <2>3. ASSUME NEW i \in 1..j  PROVE g[i] = g[i - 1] + d[i]
    <3>1. i \in 0..j /\ i - 1 \in 0..j  BY <1>2
    <3>2. g[i] = 0 /\ g[i - 1] = 0 /\ d[i] = 0  BY <1>3, <2>1, <3>1
    <3>. QED  BY <3>2
  <2>. QED  BY <1>6, <2>1, <2>2, <2>3
<1>8. Sum(d) = g[j]  BY <1>2, <1>5, <1>7, SumOf
<1>. QED  BY <1>1, <1>7, <1>8

LEMMA BeginsTempo == ASSUME Complete, Begins  PROVE TempoFromStart
<1>1. List(Chunks) /\ \A i \in DOMAIN Chunks : Closed(Chunks[i])
  <2>1. /\ List(Chunks) /\ Len(Chunks) = mfp.ntracks
        /\ \A i \in 1..mfp.ntracks : Closed(Chunks[i])
    BY DEF Complete, Shut, Chunks
  <2>. QED  BY <2>1, ListOf DEF List
<1>2. ASSUME NEW i \in DOMAIN Chunks, opt.format = 2 \/ i = 1, NEW x \in Heads
      PROVE  \E j \in DOMAIN Chunks[i].msgs :
               /\ Sum([m \in 1..j |-> Chunks[i].msgs[m].dtime]) = 0
               /\ Sets(Chunks[i].msgs[j].ev, x)
  <2>1. PICK m : m = Chunks[i].msgs  OBVIOUS
  <2>2. List(m)  BY <1>1, <2>1 DEF Closed, Runs
  <2>3. Begun(m)  BY <1>2, <2>1 DEF Begins, Chunks
  <2>4. PICK j \in DOMAIN m : Silent(m, j) /\ Sets(m[j].ev, x)  BY <1>2, <2>3 DEF Begun, Starts
  <2>5. Sum([k \in 1..j |-> m[k].dtime]) = 0  BY <2>2, <2>4, SilentSum
  <2>. QED  BY <2>1, <2>4, <2>5
<1>3. \A e : (Sets(e, "tempo") <=> IsTempo(e)) /\ (Sets(e, "signature") <=> IsTimeSig(e))
  BY DEF Sets
<1>4. "tempo" \in Heads /\ "signature" \in Heads  BY DEF Heads
<1>5. ASSUME NEW i \in DOMAIN Chunks, opt.format = 2 \/ i = 1
      PROVE  /\ \E j \in DOMAIN Chunks[i].msgs :
                  /\ Sum([m \in 1..j |-> Chunks[i].msgs[m].dtime]) = 0
                  /\ IsTempo(Chunks[i].msgs[j].ev)
             /\ \E j \in DOMAIN Chunks[i].msgs :
                  /\ Sum([m \in 1..j |-> Chunks[i].msgs[m].dtime]) = 0
                  /\ IsTimeSig(Chunks[i].msgs[j].ev)
  <2>1. PICK j \in DOMAIN Chunks[i].msgs :
          /\ Sum([m \in 1..j |-> Chunks[i].msgs[m].dtime]) = 0
          /\ Sets(Chunks[i].msgs[j].ev, "tempo")
    BY <1>2, <1>4, <1>5
  <2>2. PICK k \in DOMAIN Chunks[i].msgs :
          /\ Sum([m \in 1..k |-> Chunks[i].msgs[m].dtime]) = 0
          /\ Sets(Chunks[i].msgs[k].ev, "signature")
    BY <1>2, <1>4, <1>5
  <2>3. IsTempo(Chunks[i].msgs[j].ev) /\ IsTimeSig(Chunks[i].msgs[k].ev)  BY <1>3, <2>1, <2>2
  <2>. QED  BY <2>1, <2>2, <2>3
<1>. QED  BY <1>5 DEF TempoFromStart
-----------------------------------------------------------------------------
(* The inductive invariant of TempoFromStart, phase by phase; OutInv gives *)
(* the order of events and the shape of the file.                          *)
HeadInv ==
  /\ phase = "collect" => \A k \in 1..NTracks : Mated(trks[k])
  /\ phase \in {"post", "again", "merge", "supply"} => Mates
  /\ phase \in {"post", "again"} => Tracing
  /\ phase = "action" => TracksHeaded /\ FileHeaded
  /\ phase = "closed" => Begins

LEMMA HeadInitially == OutInit => HeadInv
<1>. SUFFICES ASSUME OutInit  PROVE HeadInv
  OBVIOUS
<1>1. trks = [k \in 1..NTracks |-> EmptyTrack] /\ phase = "collect"  BY DEF OutInit
<1>2. Mated(EmptyTrack)
  <2>1. EmptyTrack.events = <<>> /\ EmptyTrack.partners = <<>>  BY DEF EmptyTrack, Track
  <2>2. \A i \in DOMAIN <<>> : FALSE  OBVIOUS
  <2>. QED  BY <2>1, <2>2 DEF Mated, Named, Matched
<1>3. \A k \in 1..NTracks : Mated(trks[k])  BY <1>1, <1>2
<1>. QED  BY <1>1, <1>3 DEF HeadInv

LEMMA HeadKept == ASSUME HeadInv, UNCHANGED allVars  PROVE HeadInv'
<1>1. UNCHANGED <<trks, ntrks, phase, tk, opt, end_of_song, prev_tk, prev_time, mfp>>
  BY DEF allVars, outVars
<1>2. UNCHANGED <<stage, input, pos, output, ctrl_tbl, partner, tmp>>
  BY DEF allVars, vars, scanVars
<1>3. Mates' = Mates /\ Tracing' = Tracing  BY <1>1, <1>2 DEF Mates, Tracing, Scanned
<1>4. TracksHeaded' = TracksHeaded /\ FileHeaded' = FileHeaded
  BY <1>1, <1>2 DEF TracksHeaded, Headed, FileHeaded, Passing
<1>5. Begins' = Begins  BY <1>1 DEF Begins
<1>. QED  BY <1>1, <1>3, <1>4, <1>5 DEF HeadInv

(* What a pass over the tracks has read, and what it has written.          *)
LEMMA PassDone ==
  ASSUME OutInv, phase \in {"post", "again"}
  PROVE  /\ HasTracks(trks, ntrks) /\ Scanning
         /\ stage = "done" => \E T \in SUBSET Nat : Done(T)
<1>1. CASE phase = "post"
  <2>1. Posting  BY <1>1 DEF OutInv
  <2>. QED  BY <2>1, SpannedNat DEF Posting, Song
<1>2. CASE phase = "again"
  <2>1. Retriggering  BY <1>2 DEF OutInv
  <2>2. stage = "done" => \E T \in SUBSET Nat : Done(T)  BY <2>1, RepeatsWithin
  <2>. QED  BY <2>1, <2>2 DEF Retriggering, Song
<1>. QED  BY <1>1, <1>2

LEMMA HeadStep == OutInv /\ HeadInv /\ [OutNext]_allVars => HeadInv'
<1>. SUFFICES ASSUME OutInv, HeadInv, [OutNext]_allVars  PROVE HeadInv'
  OBVIOUS
<1>1. CASE gather
  <2>1. phase = "collect" /\ phase' = phase  BY <1>1 DEF gather
  <2>2. HasTracks(trks, NTracks) /\ tk \in 1..NTracks  BY <2>1 DEF OutInv, Collecting
  <2>3. \A k \in 1..NTracks : Mated(trks[k])  BY <2>1 DEF HeadInv
  <2>4. \A k \in 1..NTracks : Mated(trks'[k])  BY <1>1, <2>2, <2>3, GatherMated
  <2>. QED  BY <2>1, <2>4 DEF HeadInv
<1>2. CASE smfout_detach
  <2>1. phase = "collect" /\ phase' = "post" /\ tk' = 0  BY <1>2 DEF smfout_detach
  <2>2. \A k \in 1..NTracks : Mated(trks[k])  BY <2>1 DEF HeadInv
  <2>3. Mates'  BY <1>2, <2>2, DetachMated DEF Mates
  <2>4. Tracing'  BY <2>1 DEF Tracing
  <2>. QED  BY <2>1, <2>3, <2>4 DEF HeadInv
<1>3. CASE next_track
  <2>1. phase \in {"post", "again"} /\ phase' = phase /\ stage = "done"  BY <1>3 DEF next_track
  <2>2. Mates /\ Tracing  BY <2>1 DEF HeadInv
  <2>3. PICK T \in SUBSET Nat : Done(T)  BY <2>1, PassDone
  <2>4. HasTracks(trks, ntrks) /\ Scanning  BY <2>1, PassDone
  <2>5. Mates' /\ Tracing'  BY <1>3, <2>2, <2>3, <2>4, NextMated
  <2>. QED  BY <2>1, <2>5 DEF HeadInv
<1>4. CASE scan
  <2>1. phase \in {"post", "again"} /\ phase' = phase  BY <1>4 DEF scan, outVars
  <2>2. Mates /\ Tracing  BY <2>1 DEF HeadInv
  <2>3. Mates' /\ Tracing'  BY <1>4, <2>1, <2>2, PassDone, ScanMated
  <2>. QED  BY <2>1, <2>3 DEF HeadInv
<1>5. CASE end_post \/ end_again
  <2>1. /\ phase \in {"post", "again"} /\ phase' \in {"merge", "supply"} /\ stage = "done"
        /\ trks' = replaced /\ ntrks' = ntrks
    BY <1>5 DEF end_post, end_again
  <2>2. Mates /\ Tracing  BY <2>1 DEF HeadInv
  <2>3. PICK T \in SUBSET Nat : Done(T)  BY <2>1, PassDone
  <2>4. HasTracks(trks, ntrks) /\ tk \in 0..ntrks  BY <2>1, PassDone DEF Scanning
  <2>5. \A k \in 1..ntrks : Mated(replaced[k])  BY <2>1, <2>2, <2>3, <2>4, ReplacedMated
  <2>6. Mates'  BY <2>1, <2>5 DEF Mates
  <2>. QED  BY <2>1, <2>6 DEF HeadInv
<1>6. CASE merge_all_tracks
  <2>1. phase = "merge" /\ phase' \in {"supply", "again"}  BY <1>6 DEF merge_all_tracks
  <2>2. Merging /\ Mates  BY <2>1 DEF OutInv, HeadInv
  <2>3. Mates' /\ Tracing'  BY <1>6, <2>2, MergeMated
  <2>. QED  BY <2>1, <2>3 DEF HeadInv
<1>7. CASE open_file
  <2>1. phase = "supply" /\ phase' \in {"action", "no_genfile"}  BY <1>7 DEF open_file
  <2>2. Merging /\ Mates  BY <2>1 DEF OutInv, HeadInv
  <2>3. CASE phase' = "no_genfile"  BY <2>3 DEF HeadInv
  <2>4. CASE phase' = "action"
    <3>1. TracksHeaded' /\ mfp'.chunks = <<>> /\ prev_tk' = -1  BY <1>7, <2>2, <2>4, OpenHeaded
    <3>2. Len(mfp'.chunks) = 0  BY <3>1, ListEmpty
    <3>3. \A c \in 1..0 : FALSE  OBVIOUS
    <3>4. FileHeaded'  BY <3>1, <3>2, <3>3 DEF FileHeaded
    <3>. QED  BY <2>4, <3>1, <3>4 DEF HeadInv
  <2>. QED  BY <2>1, <2>3, <2>4
<1>8. CASE smfout_action
  <2>1. phase = "action" /\ phase' = phase  BY <1>8 DEF smfout_action
  <2>2. Writing /\ TracksHeaded /\ FileHeaded  BY <2>1 DEF OutInv, HeadInv
  <2>3. TracksHeaded' /\ FileHeaded'  BY <1>8, <2>2, ActionHeaded
  <2>. QED  BY <2>1, <2>3 DEF HeadInv
<1>9. CASE next_action
  <2>1. phase = "action" /\ phase' = phase  BY <1>9 DEF next_action
  <2>2. Writing /\ TracksHeaded /\ FileHeaded  BY <2>1 DEF OutInv, HeadInv
  <2>3. TracksHeaded' /\ FileHeaded'  BY <1>9, <2>2, NextHeaded
  <2>. QED  BY <2>1, <2>3 DEF HeadInv
<1>10. CASE smfout_wrap
  <2>1. phase = "action" /\ phase' = "closed"  BY <1>10 DEF smfout_wrap
  <2>2. Writing /\ TracksHeaded /\ FileHeaded  BY <2>1 DEF OutInv, HeadInv
  <2>3. Begins'  BY <1>10, <2>2, WrapHeaded
  <2>. QED  BY <2>1, <2>3 DEF HeadInv
<1>11. CASE closed \/ failed \/ UNCHANGED allVars
  BY <1>11, HeadKept DEF closed, failed
<1>. QED  BY <1>1, <1>2, <1>3, <1>4, <1>5, <1>6, <1>7, <1>8, <1>9, <1>10, <1>11 DEF OutNext

(* The file that smfout_wrap leaves names the tempo and the time signature *)
(* before any time has passed.                                             *)
THEOREM TempoFirst == OutSpec => []TempoFromStart
<1>1. OutInv /\ HeadInv => TempoFromStart
  <2>1. ASSUME OutInv, HeadInv, phase = "closed"  PROVE TempoFromStart
    <3>1. Complete /\ Begins  BY <2>1 DEF OutInv, HeadInv
    <3>. QED  BY <3>1, BeginsTempo
  <2>2. phase # "closed" => TempoFromStart  BY DEF TempoFromStart
  <2>. QED  BY <2>1, <2>2
<1>2. OutInit => OutInv /\ HeadInv  BY OutInitially, HeadInitially
<1>3. OutInv /\ HeadInv /\ [OutNext]_allVars => (OutInv /\ HeadInv)'  BY OutStep, HeadStep
<1>. QED  BY <1>1, <1>2, <1>3, PTL DEF OutSpec
=============================================================================
