---------------------------- MODULE EventProofs ----------------------------
(***************************************************************************)
(* The event buffer, for any number of events, notes and times: the sort   *)
(* is stable and keeps every event, pairing keeps the order of time, and   *)
(* partners refer to each other.  A chain of pending notes that skipped    *)
(* one, or an insertion point that is before an event of an earlier time,  *)
(* would break these only after several more events.                       *)
(***************************************************************************)
EXTENDS EventProperties, FiniteSetTheorems, SequenceTheorems, WellFoundedInduction, TLAPS

(* Induction: a set of numbers has a least one.                            *)
LEMMA Least ==
  ASSUME NEW T \in SUBSET Nat, T # {}
  PROVE  \E m \in T : \A k \in T : m <= k
<1>1. IsWellFoundedOn(OpToRel(<, Nat), Nat)  BY NatLessThanWellFounded
<1>2. PICK m \in T : \A k \in T : ~(<<k, m>> \in OpToRel(<, Nat))  BY <1>1, WFMin
<1>3. ASSUME NEW k \in T  PROVE m <= k
  <2>1. ~(k < m)  BY <1>2 DEF OpToRel
  <2>. QED  BY <2>1
<1>. QED  BY <1>3

LEMMA Greatest ==
  ASSUME NEW T \in SUBSET Nat, T # {}, NEW n \in Nat, \A k \in T : k <= n
  PROVE  \E m \in T : \A k \in T : k <= m
<1>. DEFINE U == {n - k : k \in T}
<1>1. U \in SUBSET Nat /\ U # {}
  <2>1. ASSUME NEW k \in T  PROVE n - k \in Nat  OBVIOUS
  <2>. QED  BY <2>1
<1>2. PICK m \in U : \A k \in U : m <= k
  <2>. HIDE DEF U
  <2>. QED  BY <1>1, Least
<1>3. PICK x \in T : m = n - x  OBVIOUS
<1>4. ASSUME NEW k \in T  PROVE k <= x
  <2>1. n - k \in U  OBVIOUS
  <2>2. m <= n - k  BY <1>2, <2>1
  <2>. QED  BY <1>3, <2>2
<1>. QED  BY <1>4

-----------------------------------------------------------------------------
(* FoldLeft of \o joins sequences one after the other.  Its recursive       *)
(* function on sets of places exists because that of each initial part does. *)
JoinStep(q, g, s) == IF s = {} THEN <<>> ELSE g[s \ {Max(s)}] \o q[Max(s)]
Joins(q, n, g) ==
  /\ g \in [SUBSET (1..n) -> Seq(Nat)]
  /\ \A s \in SUBSET (1..n) : g[s] = JoinStep(q, g, s)

LEMMA MaxIs ==
  ASSUME NEW n \in Nat, NEW s \in SUBSET (1..n), s # {}
  PROVE  Max(s) \in s /\ \A k \in s : k <= Max(s)
<1>1. s \in SUBSET Nat /\ \A k \in s : k <= n  OBVIOUS
<1>2. PICK m \in s : \A k \in s : k <= m  BY <1>1, Greatest
<1>. QED  BY <1>2 DEF Max

LEMMA JoinOne ==
  ASSUME NEW n \in Nat, NEW q, \A i \in 1..(n+1) : q[i] \in Seq(Nat), NEW g, Joins(q, n, g)
  PROVE  \E h : Joins(q, n + 1, h)
<1>. DEFINE h == [s \in SUBSET (1..(n+1)) |->
                   IF n + 1 \in s THEN g[s \ {n+1}] \o q[n+1] ELSE g[s]]
<1>1. ASSUME NEW s \in SUBSET (1..(n+1))
      PROVE  s \ {n+1} \in SUBSET (1..n)
  OBVIOUS
<1>2. ASSUME NEW s \in SUBSET (1..(n+1))  PROVE h[s] \in Seq(Nat)
  <2>1. g[s \ {n+1}] \in Seq(Nat) /\ q[n+1] \in Seq(Nat)  BY <1>1 DEF Joins
  <2>2. g[s \ {n+1}] \o q[n+1] \in Seq(Nat)  BY <2>1, ConcatProperties
  <2>3. n + 1 \notin s => s \ {n+1} = s  OBVIOUS
  <2>. QED  BY <2>1, <2>2, <2>3
<1>3. ASSUME NEW s \in SUBSET (1..(n+1))  PROVE h[s] = JoinStep(q, h, s)
  <2>1. CASE s = {}
    <3>1. g[s] = <<>>  BY <2>1 DEF Joins, JoinStep
    <3>. QED  BY <2>1, <3>1 DEF JoinStep
  <2>2. CASE n + 1 \in s
    <3>0. n + 1 \in Nat /\ s # {}  BY <2>2
    <3>1. Max(s) \in s /\ \A k \in s : k <= Max(s)  BY <3>0, MaxIs
    <3>2. Max(s) = n + 1
      <4>1. n + 1 <= Max(s) /\ Max(s) \in 1..(n+1)  BY <2>2, <3>1
      <4>. QED  BY <4>1
    <3>3. h[s \ {n+1}] = g[s \ {n+1}]  BY <1>1
    <3>4. h[s] = g[s \ {n+1}] \o q[n+1]  BY <2>2
    <3>. QED  BY <2>2, <3>2, <3>3, <3>4 DEF JoinStep
  <2>3. CASE n + 1 \notin s /\ s # {}
    <3>1. s \in SUBSET (1..n) /\ s \ {Max(s)} \in SUBSET (1..n)  BY <1>1, <2>3
    <3>2. h[s] = g[s] /\ h[s \ {Max(s)}] = g[s \ {Max(s)}]  BY <1>1, <2>3, <3>1
    <3>. QED  BY <2>3, <3>1, <3>2 DEF JoinStep, Joins
  <2>. QED  BY <2>1, <2>2, <2>3
<1>. QED  BY <1>2, <1>3 DEF Joins

LEMMA JoinExists ==
  ASSUME NEW n \in Nat, NEW q, \A i \in 1..n : q[i] \in Seq(Nat)
  PROVE  \E g : Joins(q, n, g)
<1>. DEFINE T == {m \in 0..n : ~ \E g : Joins(q, m, g)}
<1>1. CASE T # {}
  <2>1. T \in SUBSET Nat  OBVIOUS
  <2>2. PICK m \in T : \A k \in T : m <= k
    <3>. HIDE DEF T
    <3>. QED  BY <1>1, <2>1, Least
  <2>3. CASE m = 0
    <3>. DEFINE g == [s \in SUBSET (1..0) |-> <<>>]
    <3>1. SUBSET (1..0) = {{}}  OBVIOUS
    <3>2. g \in [SUBSET (1..0) -> Seq(Nat)]  OBVIOUS
    <3>3. Joins(q, 0, g)  BY <3>1, <3>2 DEF Joins, JoinStep
    <3>. QED  BY <2>3, <3>3
  <2>4. CASE m # 0
    <3>1. m - 1 \in Nat /\ m - 1 \in 0..n /\ (m - 1) + 1 = m  BY <2>4
    <3>2. m - 1 \notin T  BY <2>2, <3>1
    <3>3. PICK g : Joins(q, m - 1, g)  BY <3>1, <3>2
    <3>4. \A i \in 1..((m - 1) + 1) : q[i] \in Seq(Nat)  BY <3>1
    <3>5. \E h : Joins(q, (m - 1) + 1, h)  BY <3>1, <3>3, <3>4, JoinOne
    <3>. QED  BY <3>1, <3>5
  <2>. QED  BY <2>3, <2>4
<1>2. CASE T = {}
  <2>1. n \in 0..n  OBVIOUS
  <2>2. n \notin T  BY <1>2
  <2>. QED  BY <2>1, <2>2
<1>. QED  BY <1>1, <1>2

(* The first n of the sequences, joined.                                   *)
LEMMA JoinSteps ==
  ASSUME NEW q \in Seq(Seq(Nat))
  PROVE  \E c \in [0..Len(q) -> Seq(Nat)] :
           /\ c[0] = <<>> /\ \A n \in 1..Len(q) : c[n] = c[n-1] \o q[n]
           /\ FoldLeft(\o, <<>>, q) = c[Len(q)]
<1>. DEFINE N == Len(q)
            iter == CHOOSE g : g = [s \in SUBSET (1..N) |-> JoinStep(q, g, s)]
<1>1. N \in Nat /\ DOMAIN q = 1..N /\ \A i \in 1..N : q[i] \in Seq(Nat)
  BY LenProperties, ElementOfSeq
<1>2. PICK g : Joins(q, N, g)  BY <1>1, JoinExists
<1>3. g = [s \in SUBSET (1..N) |-> JoinStep(q, g, s)]  BY <1>2 DEF Joins
<1>4. iter = [s \in SUBSET (1..N) |-> JoinStep(q, iter, s)]  BY <1>3
<1>5. FoldLeft(\o, <<>>, q) = iter[1..N]
  BY <1>1, Zenon DEF FoldLeft, MapThenFoldSet, JoinStep
<1>. HIDE DEF iter
<1>. DEFINE c == [n \in 0..N |-> iter[1..n]]
<1>6. ASSUME NEW n \in 1..N  PROVE iter[1..n] = iter[1..(n-1)] \o q[n]
  <2>. HIDE DEF N
  <2>a. n \in Nat /\ n > 0 /\ n <= N  BY <1>1
  <2>b. 1..n \in SUBSET (1..N) /\ n \in 1..n  BY <1>1, <2>a
  <2>c. (1..n) \ {n} = 1..(n-1)  BY <2>a
  <2>0. n \in Nat /\ 1..n \in SUBSET (1..N) /\ 1..n # {} /\ (1..n) \ {n} = 1..(n-1)
    BY <2>a, <2>b, <2>c
  <2>1. Max(1..n) \in 1..n /\ \A k \in 1..n : k <= Max(1..n)  BY <2>0, MaxIs
  <2>2. Max(1..n) = n  BY <2>0, <2>1
  <2>3. iter[1..n] = JoinStep(q, iter, 1..n)  BY <1>4, <2>0
  <2>. QED  BY <2>0, <2>2, <2>3 DEF JoinStep
<1>7. iter[{}] = <<>>
  <2>1. {} \in SUBSET (1..N)  OBVIOUS
  <2>2. iter[{}] = JoinStep(q, iter, {})  BY <1>4, <2>1
  <2>. QED  BY <2>2 DEF JoinStep
<1>8. 1..0 = {}  OBVIOUS
<1>9. ASSUME NEW n \in 0..N  PROVE iter[1..n] \in Seq(Nat)
  <2>. DEFINE T == {m \in 0..N : iter[1..m] \notin Seq(Nat)}
  <2>1. ASSUME T # {}  PROVE FALSE
    <3>1. T \in SUBSET Nat  BY <1>1
    <3>2. PICK m \in T : \A k \in T : m <= k
      <4>. HIDE DEF T
      <4>. QED  BY <2>1, <3>1, Least
    <3>3. m # 0
      <4>1. <<>> \in Seq(Nat)  OBVIOUS
      <4>2. m = 0 => iter[1..m] \in Seq(Nat)  BY <1>7, <1>8, <4>1
      <4>. QED  BY <4>2
    <3>4. m \in 1..N /\ m - 1 \in 0..N /\ m - 1 < m /\ m - 1 \notin T
      BY <1>1, <3>2, <3>3
    <3>5. iter[1..(m-1)] \in Seq(Nat) /\ q[m] \in Seq(Nat)  BY <1>1, <3>4
    <3>6. iter[1..(m-1)] \o q[m] \in Seq(Nat)  BY <3>5, ConcatProperties
    <3>. QED  BY <1>6, <3>4, <3>6
  <2>2. n \notin T  BY <2>1
  <2>. QED  BY <2>2
<1>10. c \in [0..N -> Seq(Nat)]  BY <1>9
<1>11. c[0] = <<>> /\ c[N] = iter[1..N]  BY <1>1, <1>7, <1>8
<1>12. ASSUME NEW n \in 1..N  PROVE c[n] = c[n-1] \o q[n]
  <2>1. n \in 0..N /\ n - 1 \in 0..N  BY <1>1
  <2>. QED  BY <1>6, <2>1
<1>. QED  BY <1>5, <1>10, <1>11, <1>12

-----------------------------------------------------------------------------
(* No event is lost or duplicated: each has one place in the sequences.    *)
Ranged(q, n) == \A k \in 1..Len(q) : \A i \in 1..Len(q[k]) : q[k][i] \in 1..n
Single(q) ==
  \A k, l \in 1..Len(q) : \A i \in 1..Len(q[k]), j \in 1..Len(q[l]) :
    q[k][i] = q[l][j] => k = l /\ i = j
Covers(q, n) == \A e \in 1..n : \E k \in 1..Len(q) : \E i \in 1..Len(q[k]) : q[k][i] = e
Placed == Ranged(eseq, Len(ev)) /\ Single(eseq) /\ Covers(eseq, Len(ev))

(* A sequence that lists the first n numbers once each.                    *)
LEMMA Listing ==
  ASSUME NEW n \in Nat, NEW s \in Seq(Nat), \A i \in 1..Len(s) : s[i] \in 1..n,
         \A i, j \in 1..Len(s) : s[i] = s[j] => i = j,
         \A e \in 1..n : \E i \in 1..Len(s) : s[i] = e
  PROVE  Len(s) = n
<1>1. Len(s) \in Nat /\ s \in [1..Len(s) -> 1..n]  BY LenProperties
<1>2. s \in Bijection(1..Len(s), 1..n)
  BY <1>1 DEF Bijection, Injection, Surjection, IsInjective
<1>3. ExistsBijection(1..Len(s), 1..n)  BY <1>2 DEF ExistsBijection
<1>4. IsFiniteSet(1..Len(s)) /\ Cardinality(1..Len(s)) = Len(s) /\ Cardinality(1..n) = n
  <2>1. 1 \in Int /\ Len(s) \in Int /\ n \in Int  BY <1>1
  <2>2. IsFiniteSet(1..Len(s)) /\ Cardinality(1..Len(s)) = IF 1 > Len(s) THEN 0 ELSE Len(s) - 1 + 1
    BY <2>1, FS_Interval
  <2>3. Cardinality(1..n) = IF 1 > n THEN 0 ELSE n - 1 + 1  BY <2>1, FS_Interval
  <2>. QED  BY <1>1, <2>2, <2>3
<1>. QED  BY <1>3, <1>4, FS_Bijection

Joined(q, n, s) ==
  /\ \A i \in 1..Len(s) : \E k \in 1..n : \E j \in 1..Len(q[k]) : s[i] = q[k][j]
  /\ \A k \in 1..n : \A j \in 1..Len(q[k]) : \E i \in 1..Len(s) : s[i] = q[k][j]
  /\ \A i, j \in 1..Len(s) : s[i] = s[j] => i = j

LEMMA JoinedOne ==
  ASSUME NEW q \in Seq(Seq(Nat)), Single(q), NEW n \in 1..Len(q), NEW s \in Seq(Nat),
         Joined(q, n - 1, s)
  PROVE  Joined(q, n, s \o q[n])
<1>. DEFINE r == s \o q[n]
            u == q[n]
<1>1. u \in Seq(Nat) /\ Len(q) \in Nat /\ Len(u) \in Nat /\ Len(s) \in Nat
  BY LenProperties, ElementOfSeq
<1>2. /\ r \in Seq(Nat) /\ Len(r) = Len(s) + Len(u)
      /\ \A i \in 1..(Len(s) + Len(u)) : r[i] = IF i <= Len(s) THEN s[i] ELSE u[i - Len(s)]
  BY <1>1, ConcatProperties
<1>0. u = q[n] /\ n \in 1..n /\ n \in Nat  BY <1>1, <1>2
<1>. HIDE DEF r, u
<1>a. PICK a \in Nat : a = Len(s)  BY <1>1
<1>b. PICK b \in Nat : b = Len(u)  BY <1>1
<1>r. Len(r) = a + b /\ \A i \in 1..(a + b) : r[i] = IF i <= a THEN s[i] ELSE u[i - a]
  BY <1>2, <1>a, <1>b
<1>p. ASSUME NEW i \in 1..(a + b)
      PROVE  \/ i \in 1..a /\ r[i] = s[i]
             \/ i - a \in 1..b /\ r[i] = u[i - a]
  <2>1. i <= a => i \in 1..a  BY <1>a
  <2>2. ~(i <= a) => i - a \in 1..b  BY <1>a, <1>b
  <2>. QED  BY <1>r, <2>1, <2>2
<1>s. /\ \A i \in 1..a : \E k \in 1..(n-1) : \E j \in 1..Len(q[k]) : s[i] = q[k][j]
      /\ \A k \in 1..(n-1) : \A j \in 1..Len(q[k]) : \E i \in 1..a : s[i] = q[k][j]
      /\ \A i, j \in 1..a : s[i] = s[j] => i = j
  BY <1>a DEF Joined
<1>3. ASSUME NEW i \in 1..(a + b)
      PROVE  \E k \in 1..n : \E j \in 1..Len(q[k]) : r[i] = q[k][j]
  <2>1. CASE i \in 1..a /\ r[i] = s[i]
    <3>1. PICK k \in 1..(n-1) : \E j \in 1..Len(q[k]) : s[i] = q[k][j]  BY <1>s, <2>1
    <3>2. k \in 1..n  BY <1>0
    <3>. QED  BY <2>1, <3>1, <3>2
  <2>2. CASE i - a \in 1..b /\ r[i] = u[i - a]
    BY <1>0, <1>b, <2>2
  <2>. QED  BY <1>p, <2>1, <2>2
<1>4. ASSUME NEW k \in 1..n, NEW j \in 1..Len(q[k])
      PROVE  \E i \in 1..(a + b) : r[i] = q[k][j]
  <2>1. CASE k = n
    <3>1. j \in 1..b  BY <1>0, <1>b, <2>1
    <3>2. a + j \in 1..(a + b) /\ ~(a + j <= a) /\ (a + j) - a = j  BY <1>a, <1>b, <3>1
    <3>3. r[a + j] = u[j]  BY <1>r, <3>2
    <3>. QED  BY <1>0, <2>1, <3>2, <3>3
  <2>2. CASE k # n
    <3>1. k \in 1..(n-1)  BY <1>0, <2>2
    <3>2. PICK i \in 1..a : s[i] = q[k][j]  BY <1>s, <3>1
    <3>3. i \in 1..(a + b) /\ i <= a  BY <1>a, <1>b
    <3>. QED  BY <1>r, <3>2, <3>3
  <2>. QED  BY <2>1, <2>2
<1>5. ASSUME NEW i \in 1..a, NEW j \in 1..b  PROVE s[i] # u[j]
  <2>1. PICK k \in 1..(n-1) : \E m \in 1..Len(q[k]) : s[i] = q[k][m]  BY <1>s
  <2>2. PICK m \in 1..Len(q[k]) : s[i] = q[k][m]  BY <2>1
  <2>a. k # n /\ k \in 1..n  BY <1>0
  <2>b. k \in 1..Len(q)
    <3>1. PICK l \in Nat : l = Len(q)  BY LenProperties
    <3>. QED  BY <2>a, <3>1
  <2>3. k # n /\ k \in 1..Len(q) /\ j \in 1..Len(q[n])  BY <1>0, <1>b, <2>a, <2>b
  <2>4. q[k][m] = q[n][j] => k = n  BY <2>2, <2>3 DEF Single
  <2>. QED  BY <1>0, <2>2, <2>3, <2>4
<1>6. ASSUME NEW i \in 1..b, NEW j \in 1..b, u[i] = u[j]  PROVE i = j
  <2>1. i \in 1..Len(q[n]) /\ j \in 1..Len(q[n]) /\ q[n][i] = q[n][j]  BY <1>0, <1>b, <1>6
  <2>. QED  BY <2>1 DEF Single
<1>7. ASSUME NEW i \in 1..(a + b), NEW j \in 1..(a + b), r[i] = r[j]  PROVE i = j
  <2>1. CASE i \in 1..a /\ r[i] = s[i] /\ j \in 1..a /\ r[j] = s[j]
    BY <1>7, <1>s, <2>1
  <2>2. CASE i - a \in 1..b /\ r[i] = u[i - a] /\ j - a \in 1..b /\ r[j] = u[j - a]
    <3>1. i - a = j - a  BY <1>6, <1>7, <2>2
    <3>. QED  BY <1>a, <3>1
  <2>3. CASE i \in 1..a /\ r[i] = s[i] /\ j - a \in 1..b /\ r[j] = u[j - a]
    BY <1>5, <1>7, <2>3
  <2>4. CASE j \in 1..a /\ r[j] = s[j] /\ i - a \in 1..b /\ r[i] = u[i - a]
    BY <1>5, <1>7, <2>4
  <2>. QED  BY <1>p, <2>1, <2>2, <2>3, <2>4
<1>. QED
  <2>1. Joined(q, n, r)  BY <1>3, <1>4, <1>7, <1>r DEF Joined
  <2>. QED  BY <2>1 DEF r

LEMMA JoinedAll ==
  ASSUME NEW q \in Seq(Seq(Nat)), Single(q)
  PROVE  FoldLeft(\o, <<>>, q) \in Seq(Nat) /\ Joined(q, Len(q), FoldLeft(\o, <<>>, q))
<1>1. PICK c \in [0..Len(q) -> Seq(Nat)] :
        /\ c[0] = <<>> /\ \A n \in 1..Len(q) : c[n] = c[n-1] \o q[n]
        /\ FoldLeft(\o, <<>>, q) = c[Len(q)]
  BY JoinSteps
<1>2. Len(q) \in Nat  BY LenProperties
<1>. DEFINE T == {m \in 0..Len(q) : ~Joined(q, m, c[m])}
<1>3. ASSUME T # {}  PROVE FALSE
  <2>1. T \in SUBSET Nat  BY <1>2
  <2>2. PICK m \in T : \A k \in T : m <= k
    <3>. HIDE DEF T
    <3>. QED  BY <1>3, <2>1, Least
  <2>3. Joined(q, 0, <<>>)  BY DEF Joined
  <2>4. m # 0  BY <1>1, <2>3
  <2>5. m \in 1..Len(q) /\ m - 1 \in 0..Len(q) /\ m - 1 < m  BY <1>2, <2>2, <2>4
  <2>6. m - 1 \notin T  BY <2>2, <2>5
  <2>7. c[m-1] \in Seq(Nat) /\ Joined(q, m - 1, c[m-1])  BY <2>5, <2>6
  <2>8. Joined(q, m, c[m-1] \o q[m])  BY <2>5, <2>7, JoinedOne
  <2>. QED  BY <1>1, <2>5, <2>8
<1>4. Len(q) \in 0..Len(q)  BY <1>2
<1>. QED  BY <1>1, <1>3, <1>4

LEMMA KeptPlaced ==
  ASSUME ev \in Seq(Event), eseq \in Seq(Seq(Nat)), Placed
  PROVE  Kept
<1>. DEFINE all == FoldLeft(\o, <<>>, eseq)
<1>1. all \in Seq(Nat) /\ Joined(eseq, Len(eseq), all)  BY JoinedAll DEF Placed
<1>2. Len(ev) \in Nat /\ DOMAIN ev = 1..Len(ev)  BY LenProperties
<1>. HIDE DEF all
<1>3. \A i \in 1..Len(all) : all[i] \in 1..Len(ev)  BY <1>1 DEF Joined, Placed, Ranged
<1>4. \A i, j \in 1..Len(all) : all[i] = all[j] => i = j  BY <1>1 DEF Joined
<1>5. \A e \in 1..Len(ev) : \E i \in 1..Len(all) : all[i] = e
  <2>1. ASSUME NEW e \in 1..Len(ev)  PROVE \E i \in 1..Len(all) : all[i] = e
    <3>1. PICK k \in 1..Len(eseq) : \E i \in 1..Len(eseq[k]) : eseq[k][i] = e
      BY DEF Placed, Covers
    <3>2. PICK j \in 1..Len(eseq[k]) : eseq[k][j] = e  BY <3>1
    <3>. QED  BY <1>1, <3>2 DEF Joined
  <2>. QED  BY <2>1
<1>6. Len(all) = Len(ev)  BY <1>1, <1>2, <1>3, <1>4, <1>5, Listing
<1>7. DOMAIN all = 1..Len(all)  BY <1>1, LenProperties
<1>8. ToSet(all) = DOMAIN ev  BY <1>2, <1>3, <1>5, <1>7 DEF ToSet
<1>. QED  BY <1>6, <1>8 DEF Kept, all

-----------------------------------------------------------------------------
(* The order of events is that of a number, their rank.                    *)
Rank(e) == 6 * e.time + (IF sort_by_priority THEN EPRI(e) ELSE 0)
Before(all, e, f) == EV_LESS(all[e], all[f]) \/ (~EV_LESS(all[f], all[e]) /\ e < f)

LEMMA LessIsRank ==
  ASSUME sort_by_priority \in BOOLEAN, NEW a \in Event, NEW b \in Event
  PROVE  Rank(a) \in Nat /\ (EV_LESS(a, b) <=> Rank(a) < Rank(b))
<1>1. a.time \in Nat /\ b.time \in Nat  BY DEF Event
<1>2. EPRI(a) \in {1, 3, 5} /\ EPRI(b) \in {1, 3, 5}  BY DEF EPRI
<1>. QED  BY <1>1, <1>2 DEF Rank, EV_LESS

LEMMA BeforeIs ==
  ASSUME sort_by_priority \in BOOLEAN, NEW n \in Nat, NEW all,
         \A e \in 1..n : all[e] \in Event
  PROVE  /\ \A e \in 1..n : Rank(all[e]) \in Nat
         /\ \A e, f \in 1..n :
              Before(all, e, f) <=> \/ Rank(all[e]) < Rank(all[f])
                                    \/ Rank(all[e]) = Rank(all[f]) /\ e < f
<1>1. ASSUME NEW e \in 1..n  PROVE Rank(all[e]) \in Nat  BY LessIsRank
<1>2. ASSUME NEW e \in 1..n, NEW f \in 1..n
      PROVE  Before(all, e, f) <=> \/ Rank(all[e]) < Rank(all[f])
                                   \/ Rank(all[e]) = Rank(all[f]) /\ e < f
  <2>1. EV_LESS(all[e], all[f]) <=> Rank(all[e]) < Rank(all[f])  BY LessIsRank
  <2>2. EV_LESS(all[f], all[e]) <=> Rank(all[f]) < Rank(all[e])  BY LessIsRank
  <2>. QED  BY <1>1, <2>1, <2>2 DEF Before
<1>. QED  BY <1>1, <1>2

LEMMA BeforeIsOrder ==
  ASSUME sort_by_priority \in BOOLEAN, NEW n \in Nat, NEW all,
         \A e \in 1..n : all[e] \in Event
  PROVE  /\ \A e \in 1..n : ~Before(all, e, e)
         /\ \A e, f \in 1..n : Before(all, e, f) \/ Before(all, f, e) \/ e = f
         /\ \A e, f, g \in 1..n : Before(all, e, f) /\ Before(all, f, g) => Before(all, e, g)
<1>1. ASSUME NEW e \in 1..n, NEW f \in 1..n
      PROVE  Before(all, e, f) \/ Before(all, f, e) \/ e = f
  BY BeforeIs
<1>2. ASSUME NEW e \in 1..n  PROVE ~Before(all, e, e)  BY BeforeIs
<1>3. ASSUME NEW e \in 1..n, NEW f \in 1..n, NEW g \in 1..n,
             Before(all, e, f), Before(all, f, g)
      PROVE  Before(all, e, g)
  BY <1>3, BeforeIs
<1>. QED  BY <1>1, <1>2, <1>3

(* The sequences of a track: each in order, one behind the other in order  *)
(* of output, and all of the first n events.                               *)
Sorted(all, s) == \A i, j \in 1..Len(s) : i < j => Before(all, s[i], s[j])
Ranked(all, q) == \A k \in 1..Len(q) : Sorted(all, q[k])
Apart(q) ==
  \A k, l \in 1..Len(q) : k < l =>
    \A i \in 1..Len(q[k]), j \in 1..Len(q[l]) : q[k][i] < q[l][j]
Collected(all, q, n) == Ranged(q, n) /\ Covers(q, n) /\ Ranked(all, q) /\ Apart(q)
AtEnd(q, n, last) ==
  IF q = <<>> THEN n = 0
  ELSE /\ last = n /\ Len(q) > 0 /\ Len(q[Len(q)]) > 0
       /\ q[Len(q)][Len(q[Len(q)])] = n

LEMMA CollectedSingle ==
  ASSUME sort_by_priority \in BOOLEAN, NEW n \in Nat, NEW all,
         \A e \in 1..n : all[e] \in Event,
         NEW q \in Seq(Seq(Nat)), Collected(all, q, n)
  PROVE  Single(q)
<1>1. ASSUME NEW k \in 1..Len(q), NEW l \in 1..Len(q), NEW i \in 1..Len(q[k]),
             NEW j \in 1..Len(q[l]), q[k][i] = q[l][j]
      PROVE  k = l /\ i = j
  <2>0. Len(q) \in Nat /\ Len(q[k]) \in Nat /\ Len(q[l]) \in Nat
    BY LenProperties, ElementOfSeq
  <2>1. q[k][i] \in 1..n /\ q[l][j] \in 1..n  BY DEF Collected, Ranged
  <2>2. ~(k < l) /\ ~(l < k)
    <3>1. k < l => q[k][i] < q[l][j]  BY DEF Collected, Apart
    <3>2. l < k => q[l][j] < q[k][i]  BY DEF Collected, Apart
    <3>. QED  BY <1>1, <2>1, <3>1, <3>2
  <2>3. k = l  BY <2>0, <2>2
  <2>4. ~(i < j) /\ ~(j < i)
    <3>1. ~Before(all, q[k][i], q[k][i])  BY <2>1, BeforeIsOrder
    <3>2. i < j => Before(all, q[k][i], q[k][j])  BY <2>3 DEF Collected, Ranked, Sorted
    <3>3. j < i => Before(all, q[k][j], q[k][i])  BY <2>3 DEF Collected, Ranked, Sorted
    <3>. QED  BY <1>1, <2>3, <3>1, <3>2, <3>3
  <2>. QED  BY <2>0, <2>3, <2>4
<1>. QED  BY <1>1 DEF Single

LEMMA CollectedSortedStably ==
  ASSUME ev \in Seq(Event), eseq \in Seq(Seq(Nat)), sort_by_priority \in BOOLEAN,
         Collected(ev, eseq, Len(ev))
  PROVE  SortedStably
<1>1. Len(ev) \in Nat /\ \A e \in 1..Len(ev) : ev[e] \in Event  BY LenProperties, ElementOfSeq
<1>2. Single(eseq)  BY <1>1, CollectedSingle
<1>3. Kept  BY <1>2, KeptPlaced DEF Placed, Collected
<1>4. DOMAIN eseq = 1..Len(eseq) /\ \A k \in 1..Len(eseq) : DOMAIN eseq[k] = 1..Len(eseq[k])
  BY LenProperties, ElementOfSeq
<1>5. ASSUME NEW k \in DOMAIN eseq, NEW i \in DOMAIN eseq[k], NEW j \in DOMAIN eseq[k], i < j
      PROVE  Precedes(eseq[k][i], eseq[k][j])
  BY <1>4, <1>5 DEF Collected, Ranked, Sorted, Before, Precedes
<1>6. ASSUME NEW k \in DOMAIN eseq, NEW l \in DOMAIN eseq, k < l,
             NEW i \in DOMAIN eseq[k], NEW j \in DOMAIN eseq[l]
      PROVE  eseq[k][i] < eseq[l][j]
  BY <1>4, <1>6 DEF Collected, Apart
<1>. QED  BY <1>3, <1>5, <1>6 DEF SortedStably

-----------------------------------------------------------------------------
(* Collecting.                                                             *)
(* What Insert makes of a elements of q: a new last sequence of x only, or  *)
(* x behind the b elements of the last one.                                *)
NewLast(q, r, a, x) ==
  /\ Len(r) = a + 1 /\ r[a+1] \in Seq(Nat) /\ Len(r[a+1]) = 1 /\ r[a+1][1] = x
  /\ \A k \in 1..a : r[k] = q[k]
LongerLast(q, r, a, b, x) ==
  /\ a > 0 /\ Len(r) = a /\ r[a] \in Seq(Nat)
  /\ b = Len(q[a]) /\ Len(r[a]) = b + 1 /\ r[a][b+1] = x
  /\ \A i \in 1..b : r[a][i] = q[a][i]
  /\ \A k \in 1..(a-1) : r[k] = q[k]

LEMMA InsertIs ==
  ASSUME NEW q \in Seq(Seq(Nat)), NEW last, NEW all, NEW x \in Nat
  PROVE  \E r \in Seq(Seq(Nat)), a \in Nat : a = Len(q) /\ r = Insert(q, last, all, x) /\
    \/ NewLast(q, r, a, x)
    \/ /\ q # <<>> /\ ~EV_LESS(all[x], all[last])
       /\ \E b \in Nat : LongerLast(q, r, a, b, x)
<1>. DEFINE r == Insert(q, last, all, x)
<1>1. PICK a \in Nat : a = Len(q)  BY LenProperties
<1>2. CASE q = <<>> \/ EV_LESS(all[x], all[last])
  <2>1. r = Append(q, <<x>>)  BY <1>2 DEF Insert
  <2>2. <<x>> \in Seq(Nat) /\ Len(<<x>>) = 1 /\ <<x>>[1] = x  OBVIOUS
  <2>. DEFINE y == <<x>>
  <2>. HIDE DEF y
  <2>3. y \in Seq(Nat) /\ Len(y) = 1 /\ y[1] = x  BY <2>2 DEF y
  <2>4. r = Append(q, y)  BY <2>1 DEF y
  <2>. HIDE DEF r
  <2>5. r \in Seq(Seq(Nat)) /\ Len(r) = a + 1  BY <1>1, <2>3, <2>4, AppendProperties
  <2>6. r[a+1] = y /\ \A k \in 1..a : r[k] = q[k]  BY <1>1, <2>3, <2>4, AppendProperties
  <2>7. NewLast(q, r, a, x)  BY <2>3, <2>5, <2>6 DEF NewLast
  <2>. QED  BY <1>1, <2>5, <2>7 DEF r
<1>3. CASE q # <<>> /\ ~EV_LESS(all[x], all[last])
  <2>0. a > 0 /\ Len(q) \in 1..a /\ a \in 1..a /\ a - 1 \in Nat  BY <1>1, <1>3, EmptySeq
  <2>1. r = Front(q) \o <<Append(Last(q), x)>>  BY <1>3 DEF Insert
  <2>. DEFINE y == Append(Last(q), x)
              f == Front(q)
              z == <<y>>
  <2>2. Last(q) = q[a] /\ q[a] \in Seq(Nat)  BY <1>1, <2>0, ElementOfSeq DEF Last
  <2>3. PICK b \in Nat : b = Len(q[a])  BY <2>2, LenProperties
  <2>4. y \in Seq(Nat) /\ Len(y) = b + 1 /\ y[b+1] = x /\ \A i \in 1..b : y[i] = q[a][i]
    BY <2>2, <2>3, AppendProperties
  <2>5. f \in Seq(Seq(Nat)) /\ Len(f) = a - 1 /\ \A k \in 1..(a-1) : f[k] = q[k]
    <3>1. \A k \in 1..(a-1) : q[k] \in Seq(Nat)  BY <1>1, ElementOfSeq
    <3>2. f = SubSeq(q, 1, a - 1)  BY <1>1 DEF Front
    <3>. QED  BY <2>0, <3>1, <3>2, SubSeqProperties
  <2>. HIDE DEF y, f
  <2>6. z \in Seq(Seq(Nat)) /\ Len(z) = 1 /\ z[1] = y  BY <2>4
  <2>. HIDE DEF z
  <2>7. r = f \o z  BY <2>1 DEF f, y, z
  <2>. HIDE DEF r
  <2>8. /\ r \in Seq(Seq(Nat)) /\ Len(r) = (a - 1) + 1
        /\ \A k \in 1..((a - 1) + 1) : r[k] = IF k <= a - 1 THEN f[k] ELSE z[k - (a - 1)]
    <3>1. /\ f \o z \in Seq(Seq(Nat)) /\ Len(f \o z) = Len(f) + Len(z)
          /\ \A k \in 1..(Len(f) + Len(z)) :
               (f \o z)[k] = IF k <= Len(f) THEN f[k] ELSE z[k - Len(f)]
      BY <2>5, <2>6, ConcatProperties
    <3>. QED  BY <2>5, <2>6, <2>7, <3>1
  <2>9. Len(r) = a /\ r[a] = y /\ \A k \in 1..(a-1) : r[k] = q[k]
    <3>1. r[a] = z[a - (a - 1)] /\ a - (a - 1) = 1  BY <2>0, <2>8
    <3>2. ASSUME NEW k \in 1..(a-1)  PROVE r[k] = q[k]
      <4>1. k \in 1..((a - 1) + 1) /\ k <= a - 1  BY <2>0
      <4>2. r[k] = f[k]  BY <2>8, <4>1
      <4>. QED  BY <2>5, <4>2
    <3>. QED  BY <2>0, <2>6, <2>8, <3>1, <3>2
  <2>10. /\ Len(r[a]) = b + 1 /\ r[a][b+1] = x
         /\ \A i \in 1..b : r[a][i] = q[a][i]
    BY <2>4, <2>9
  <2>11. a > 0 /\ Len(r) = a /\ r[a] \in Seq(Nat) /\ r \in Seq(Seq(Nat))
    BY <2>0, <2>4, <2>8, <2>9
  <2>12. LongerLast(q, r, a, b, x)  BY <2>3, <2>9, <2>10, <2>11 DEF LongerLast
  <2>. QED  BY <1>1, <1>3, <2>3, <2>11, <2>12 DEF r
<1>. QED  BY <1>2, <1>3

LEMMA InsertKeeps ==
  ASSUME sort_by_priority \in BOOLEAN, NEW n \in Nat, NEW all,
         \A e \in 1..(n+1) : all[e] \in Event,
         NEW q \in Seq(Seq(Nat)), NEW last, Collected(all, q, n), AtEnd(q, n, last)
  PROVE  /\ Insert(q, last, all, n + 1) \in Seq(Seq(Nat))
         /\ Collected(all, Insert(q, last, all, n + 1), n + 1)
         /\ AtEnd(Insert(q, last, all, n + 1), n + 1, n + 1)
<1>. DEFINE x == n + 1
<1>0. x \in Nat /\ x \in 1..x /\ n < x /\ \A e \in 1..n : e \in 1..x /\ e < x  OBVIOUS
<1>. HIDE DEF x
<1>i. PICK r \in Seq(Seq(Nat)), a \in Nat : a = Len(q) /\ r = Insert(q, last, all, x) /\
    \/ NewLast(q, r, a, x)
    \/ /\ q # <<>> /\ ~EV_LESS(all[x], all[last])
       /\ \E b \in Nat : LongerLast(q, r, a, b, x)
  BY <1>0, InsertIs
<1>q. /\ \A k \in 1..a : \A i \in 1..Len(q[k]) : q[k][i] \in 1..n
      /\ \A e \in 1..n : \E k \in 1..a : \E i \in 1..Len(q[k]) : q[k][i] = e
      /\ \A k \in 1..a : Sorted(all, q[k])
      /\ \A k, l \in 1..a : k < l =>
           \A i \in 1..Len(q[k]), j \in 1..Len(q[l]) : q[k][i] < q[l][j]
  BY <1>i DEF Collected, Ranged, Covers, Ranked, Apart
<1>1. ASSUME NewLast(q, r, a, x)
      PROVE  Collected(all, r, x) /\ AtEnd(r, x, x)
  <2>n. /\ Len(r) = a + 1 /\ r[a+1] \in Seq(Nat) /\ Len(r[a+1]) = 1 /\ r[a+1][1] = x
        /\ \A k \in 1..a : r[k] = q[k]
    BY <1>1 DEF NewLast
  <2>0. /\ a + 1 \in 1..(a + 1)
        /\ \A k \in 1..(a+1) : k \in 1..a \/ k = a + 1
        /\ \A k \in 1..a : k \in 1..(a+1) /\ k < a + 1
        /\ \A i \in 1..1 : i = 1
        /\ 1 \in 1..1
    OBVIOUS
  <2>1. Ranged(r, x)
    <3>1. ASSUME NEW k \in 1..(a+1), NEW i \in 1..Len(r[k])  PROVE r[k][i] \in 1..x
      BY <1>0, <1>q, <2>n, <2>0
    <3>. QED  BY <2>n, <3>1 DEF Ranged
  <2>2. Covers(r, x)
    <3>1. ASSUME NEW e \in 1..x  PROVE \E k \in 1..(a+1) : \E i \in 1..Len(r[k]) : r[k][i] = e
      <4>1. CASE e = x  BY <2>n, <2>0, <4>1
      <4>2. CASE e \in 1..n
        <5>1. PICK k \in 1..a : \E i \in 1..Len(q[k]) : q[k][i] = e  BY <1>q, <4>2
        <5>. QED  BY <2>n, <2>0, <5>1
      <4>3. e = x \/ e \in 1..n  BY DEF x
      <4>. QED  BY <4>1, <4>2, <4>3
    <3>. QED  BY <2>n, <3>1 DEF Covers
  <2>3. Ranked(all, r)
    <3>1. ASSUME NEW k \in 1..(a+1)  PROVE Sorted(all, r[k])
      <4>1. CASE k \in 1..a  BY <2>n, <1>q, <4>1
      <4>2. CASE k = a + 1
        <5>1. \A i, j \in 1..1 : ~(i < j)  OBVIOUS
        <5>. QED  BY <2>n, <4>2, <5>1 DEF Sorted
      <4>. QED  BY <2>0, <4>1, <4>2
    <3>. QED  BY <2>n, <3>1 DEF Ranked
  <2>4. Apart(r)
    <3>1. ASSUME NEW k \in 1..(a+1), NEW l \in 1..(a+1), k < l,
                 NEW i \in 1..Len(r[k]), NEW j \in 1..Len(r[l])
          PROVE  r[k][i] < r[l][j]
      <4>1. k \in 1..a  BY <3>1
      <4>2. r[k] = q[k]  BY <2>n, <4>1
      <4>3. CASE l \in 1..a  BY <2>n, <1>q, <3>1, <4>1, <4>3
      <4>4. CASE l = a + 1
        <5>1. r[l][j] = x  BY <2>n, <2>0, <4>4
        <5>2. r[k][i] \in 1..n  BY <1>q, <4>1, <4>2
        <5>. QED  BY <1>0, <5>1, <5>2
      <4>. QED  BY <2>0, <4>3, <4>4
    <3>. QED  BY <2>n, <3>1 DEF Apart
  <2>5. AtEnd(r, x, x)
    <3>1. r # <<>>  BY <2>n, EmptySeq
    <3>. QED  BY <2>n, <3>1 DEF AtEnd
  <2>. QED  BY <2>1, <2>2, <2>3, <2>4, <2>5 DEF Collected
<1>2. ASSUME q # <<>>, ~EV_LESS(all[x], all[last]), NEW b \in Nat, LongerLast(q, r, a, b, x)
      PROVE  Collected(all, r, x) /\ AtEnd(r, x, x)
  <2>b. /\ a > 0 /\ Len(r) = a /\ r[a] \in Seq(Nat)
        /\ b = Len(q[a]) /\ Len(r[a]) = b + 1 /\ r[a][b+1] = x
        /\ \A i \in 1..b : r[a][i] = q[a][i]
        /\ \A k \in 1..(a-1) : r[k] = q[k]
    BY <1>2 DEF LongerLast
  <2>l. last = n /\ b > 0 /\ q[a][b] = n  BY <1>i, <1>2, <2>b DEF AtEnd
  <2>0. /\ a \in 1..a
        /\ \A k \in 1..a : k \in 1..(a-1) \/ k = a
        /\ \A k \in 1..(a-1) : k \in 1..a /\ k < a
        /\ \A i \in 1..(b+1) : i \in 1..b \/ i = b + 1
        /\ \A i \in 1..b : i \in 1..(b + 1) /\ i < b + 1
        /\ b + 1 \in 1..(b + 1) /\ b \in 1..b
    <3>1. a \in Nat /\ a > 0 /\ b \in Nat /\ b > 0  BY <2>b, <2>l
    <3>. HIDE <1>q, <1>i, <2>b, <2>l
    <3>. QED  BY <3>1
  <2>1. Ranged(r, x)
    <3>1. ASSUME NEW k \in 1..a, NEW i \in 1..Len(r[k])  PROVE r[k][i] \in 1..x
      <4>1. CASE k \in 1..(a-1)  BY <1>0, <2>b, <1>q, <4>1
      <4>2. CASE k = a  BY <1>0, <2>b, <1>q, <2>0, <4>2
      <4>. QED  BY <2>0, <4>1, <4>2
    <3>. QED  BY <2>b, <3>1 DEF Ranged
  <2>2. Covers(r, x)
    <3>1. ASSUME NEW e \in 1..x  PROVE \E k \in 1..a : \E i \in 1..Len(r[k]) : r[k][i] = e
      <4>1. CASE e = x  BY <2>0, <2>b, <4>1
      <4>2. CASE e \in 1..n
        <5>1. PICK k \in 1..a : \E i \in 1..Len(q[k]) : q[k][i] = e  BY <1>q, <4>2
        <5>2. PICK i \in 1..Len(q[k]) : q[k][i] = e  BY <5>1
        <5>3. CASE k \in 1..(a-1)  BY <2>b, <5>2, <5>3
        <5>4. CASE k = a  BY <2>0, <2>b, <5>2, <5>4
        <5>. QED  BY <2>0, <5>3, <5>4
      <4>3. e = x \/ e \in 1..n  BY DEF x
      <4>. QED  BY <4>1, <4>2, <4>3
    <3>. QED  BY <2>b, <3>1 DEF Covers
  <2>n. /\ n \in 1..x /\ x \in 1..x /\ n \in 1..n
        /\ \A e \in 1..x : all[e] \in Event
    <3>1. n \in 1..n  BY <1>q, <2>0, <2>b, <2>l
    <3>. QED  BY <1>0, <3>1 DEF x
  <2>e. Before(all, n, x)
    <3>1. ~EV_LESS(all[x], all[n])  BY <1>2, <2>l
    <3>2. EV_LESS(all[x], all[n]) <=> Rank(all[x]) < Rank(all[n])  BY <2>n, LessIsRank
    <3>3. EV_LESS(all[n], all[x]) <=> Rank(all[n]) < Rank(all[x])  BY <2>n, LessIsRank
    <3>. QED  BY <1>0, <3>1 DEF Before
  <2>3. Ranked(all, r)
    <3>1. ASSUME NEW k \in 1..a  PROVE Sorted(all, r[k])
      <4>1. CASE k \in 1..(a-1)  BY <2>b, <1>q, <2>0, <4>1
      <4>2. CASE k = a
        <5>1. ASSUME NEW i \in 1..(b+1), NEW j \in 1..(b+1), i < j
              PROVE  Before(all, r[a][i], r[a][j])
          <6>1. i \in 1..b /\ r[a][i] = q[a][i] /\ q[a][i] \in 1..n
            <7>1. i \in 1..b  BY <2>b, <5>1
            <7>. QED  BY <1>q, <2>0, <2>b, <7>1
          <6>2. CASE j \in 1..b
            BY <1>q, <2>0, <2>b, <5>1, <6>1, <6>2 DEF Sorted
          <6>3. CASE j = b + 1
            <7>1. i = b \/ i < b  BY <6>1
            <7>2. CASE i = b  BY <2>b, <2>e, <2>l, <6>1, <6>3, <7>2
            <7>3. CASE i < b
              <8>1. Before(all, q[a][i], q[a][b])
                BY <1>q, <2>0, <2>b, <6>1, <7>3 DEF Sorted
              <8>2. Before(all, q[a][i], x)
                BY <1>0, <2>e, <2>l, <2>n, <6>1, <8>1, BeforeIsOrder
              <8>. QED  BY <2>b, <6>1, <6>3, <8>2
            <7>. QED  BY <7>1, <7>2, <7>3
          <6>. QED  BY <2>0, <6>2, <6>3
        <5>. QED  BY <2>b, <4>2, <5>1 DEF Sorted
      <4>. QED  BY <2>0, <4>1, <4>2
    <3>. QED  BY <2>b, <3>1 DEF Ranked
  <2>4. Apart(r)
    <3>1. ASSUME NEW k \in 1..a, NEW l \in 1..a, k < l,
                 NEW i \in 1..Len(r[k]), NEW j \in 1..Len(r[l])
          PROVE  r[k][i] < r[l][j]
      <4>1. k \in 1..(a-1)  BY <3>1
      <4>2. r[k] = q[k] /\ r[k][i] \in 1..n  BY <2>b, <1>q, <2>0, <4>1
      <4>3. CASE l \in 1..(a-1)  BY <2>b, <1>q, <2>0, <3>1, <4>1, <4>2, <4>3
      <4>4. CASE l = a
        <5>1. CASE j = b + 1  BY <1>0, <2>b, <4>2, <4>4, <5>1
        <5>2. CASE j \in 1..b
          BY <1>q, <2>0, <2>b, <3>1, <4>1, <4>2, <4>4, <5>2
        <5>. QED  BY <2>0, <2>b, <4>4, <5>1, <5>2
      <4>. QED  BY <2>0, <4>3, <4>4
    <3>. QED  BY <2>b, <3>1 DEF Apart
  <2>5. AtEnd(r, x, x)
    <3>1. r # <<>>  BY <2>b, EmptySeq
    <3>. QED  BY <2>b, <3>1 DEF AtEnd
  <2>. QED  BY <2>1, <2>2, <2>3, <2>4, <2>5 DEF Collected
<1>3. Collected(all, r, x) /\ AtEnd(r, x, x)  BY <1>1, <1>2, <1>i
<1>. QED  BY <1>i, <1>3 DEF x

-----------------------------------------------------------------------------
(* Merging.  The recursive function of Merge exists, as each call is nearer *)
(* to the end of both sequences.                                           *)
MergeStep(a, b, g, i, j) ==
  IF i > Len(a) THEN SubSeq(b, j, Len(b))
  ELSE IF j > Len(b) THEN SubSeq(a, i, Len(a))
  ELSE IF EV_LESS(ev[b[j]], ev[a[i]]) THEN <<b[j]>> \o g[<<i, j + 1>>]
  ELSE <<a[i]>> \o g[<<i + 1, j>>]
Merges(a, b, g) ==
  /\ g \in [(1..(Len(a) + 1)) \X (1..(Len(b) + 1)) -> Seq(Nat)]
  /\ \A i \in 1..(Len(a) + 1), j \in 1..(Len(b) + 1) : g[<<i, j>>] = MergeStep(a, b, g, i, j)

LEMMA MergeStepType ==
  ASSUME NEW a \in Seq(Nat), NEW b \in Seq(Nat), NEW g,
         NEW i \in 1..(Len(a) + 1), NEW j \in 1..(Len(b) + 1),
         i <= Len(a) /\ j <= Len(b) =>
           g[<<i + 1, j>>] \in Seq(Nat) /\ g[<<i, j + 1>>] \in Seq(Nat)
  PROVE  MergeStep(a, b, g, i, j) \in Seq(Nat)
<1>0. PICK m \in Nat, n \in Nat : m = Len(a) /\ n = Len(b)  BY LenProperties
<1>1. i \in Nat \ {0} /\ j \in Nat \ {0}  BY <1>0
<1>2. CASE i > m
  <2>0. \A k \in j..n : k \in 1..n  BY <1>1
  <2>1. \A k \in j..n : b[k] \in Nat  BY <1>0, <2>0, ElementOfSeq
  <2>2. SubSeq(b, j, n) \in Seq(Nat)  BY <1>1, <2>1, SubSeqProperties
  <2>. QED  BY <1>0, <1>2, <2>2 DEF MergeStep
<1>3. CASE i <= m /\ j > n
  <2>0. \A k \in i..m : k \in 1..m  BY <1>1
  <2>1. \A k \in i..m : a[k] \in Nat  BY <1>0, <2>0, ElementOfSeq
  <2>2. SubSeq(a, i, m) \in Seq(Nat)  BY <1>1, <2>1, SubSeqProperties
  <2>. QED  BY <1>0, <1>3, <2>2 DEF MergeStep
<1>4. CASE i <= m /\ j <= n
  <2>1. i \in 1..m /\ j \in 1..n /\ i + 1 \in 1..(m+1) /\ j + 1 \in 1..(n+1)
    BY <1>0, <1>1, <1>4
  <2>2. a[i] \in Nat /\ b[j] \in Nat  BY <1>0, <2>1, ElementOfSeq
  <2>3. <<a[i]>> \in Seq(Nat) /\ <<b[j]>> \in Seq(Nat)  BY <2>2
  <2>4. g[<<i + 1, j>>] \in Seq(Nat) /\ g[<<i, j + 1>>] \in Seq(Nat)  BY <1>0, <2>1
  <2>5. <<a[i]>> \o g[<<i + 1, j>>] \in Seq(Nat)  BY <2>3, <2>4, ConcatProperties
  <2>6. <<b[j]>> \o g[<<i, j + 1>>] \in Seq(Nat)  BY <2>3, <2>4, ConcatProperties
  <2>7. ~(i > Len(a)) /\ ~(j > Len(b))  BY <1>0, <2>1
  <2>. QED  BY <2>5, <2>6, <2>7 DEF MergeStep
<1>. QED  BY <1>0, <1>1, <1>2, <1>3, <1>4

LEMMA MergeExists ==
  ASSUME NEW a \in Seq(Nat), NEW b \in Seq(Nat)
  PROVE  \E g : Merges(a, b, g)
<1>0. PICK m \in Nat, n \in Nat : m = Len(a) /\ n = Len(b)  BY LenProperties
<1>. DEFINE D == (1..(m + 1)) \X (1..(n + 1))
            Up(g, k) == \A i \in 1..(m + 1), j \in 1..(n + 1) :
                          i + j + k > m + n + 2 => g[<<i, j>>] = MergeStep(a, b, g, i, j)
            T == {k \in 0..(m + n + 2) : ~ \E g \in [D -> Seq(Nat)] : Up(g, k)}
<1>1. ASSUME T # {}  PROVE FALSE
  <2>1. T \in SUBSET Nat  OBVIOUS
  <2>2. PICK k \in T : \A l \in T : k <= l
    <3>. HIDE DEF T
    <3>. QED  BY <1>1, <2>1, Least
  <2>3. k # 0
    <3>. DEFINE g == [x \in D |-> <<>>]
    <3>1. g \in [D -> Seq(Nat)]  OBVIOUS
    <3>2. \A i \in 1..(m + 1), j \in 1..(n + 1) : ~(i + j + 0 > m + n + 2)  OBVIOUS
    <3>3. Up(g, 0)  BY <3>2
    <3>. HIDE DEF g, Up
    <3>. QED  BY <3>1, <3>3
  <2>4. k \in Nat /\ k - 1 \in Nat /\ k - 1 \in 0..(m + n + 2) /\ k - 1 \notin T
    <3>1. k \in 0..(m + n + 2)  BY <2>2
    <3>. HIDE DEF T
    <3>2. k \in Nat /\ k - 1 \in Nat /\ k - 1 \in 0..(m + n + 2) /\ ~(k <= k - 1)
      BY <2>3, <3>1
    <3>. QED  BY <2>2, <3>2
  <2>5. PICK g \in [D -> Seq(Nat)] : Up(g, k - 1)
    <3>. HIDE DEF Up
    <3>. QED  BY <2>4
  <2>. DEFINE h == [p \in D |-> MergeStep(a, b, g, p[1], p[2])]
  <2>6. \A i \in 1..(m + 1), j \in 1..(n + 1) : h[<<i, j>>] = MergeStep(a, b, g, i, j)
    OBVIOUS
  <2>7. h \in [D -> Seq(Nat)]
    <3>1. \A i \in 1..(m + 1), j \in 1..(n + 1) : MergeStep(a, b, g, i, j) \in Seq(Nat)
      <4>1. ASSUME NEW i \in 1..(m + 1), NEW j \in 1..(n + 1)
            PROVE  MergeStep(a, b, g, i, j) \in Seq(Nat)
        <5>1. i <= m /\ j <= n => <<i + 1, j>> \in D /\ <<i, j + 1>> \in D  OBVIOUS
        <5>2. i <= m /\ j <= n =>
                g[<<i + 1, j>>] \in Seq(Nat) /\ g[<<i, j + 1>>] \in Seq(Nat)
          BY <5>1
        <5>. QED  BY <1>0, <5>2, MergeStepType
      <4>. QED  BY <4>1
    <3>. QED  BY <3>1
  <2>. HIDE DEF h
  <2>8. ASSUME NEW i \in 1..(m + 1), NEW j \in 1..(n + 1), i + j + k > m + n + 2
        PROVE  h[<<i, j>>] = MergeStep(a, b, h, i, j)
    <3>1. CASE i <= m /\ j <= n
      <4>1. i + 1 \in 1..(m + 1) /\ j + 1 \in 1..(n + 1)  BY <3>1
      <4>2. (i + 1) + j + (k - 1) > m + n + 2 /\ i + (j + 1) + (k - 1) > m + n + 2
        BY <2>4, <2>8
      <4>3. /\ g[<<i + 1, j>>] = MergeStep(a, b, g, i + 1, j)
            /\ g[<<i, j + 1>>] = MergeStep(a, b, g, i, j + 1)
        BY <2>5, <4>1, <4>2
      <4>4. h[<<i + 1, j>>] = g[<<i + 1, j>>] /\ h[<<i, j + 1>>] = g[<<i, j + 1>>]
        BY <2>6, <4>1, <4>3
      <4>5. MergeStep(a, b, g, i, j) = MergeStep(a, b, h, i, j)  BY <4>4 DEF MergeStep
      <4>. QED  BY <2>6, <4>5
    <3>2. CASE i > m \/ j > n
      <4>1. MergeStep(a, b, g, i, j) = MergeStep(a, b, h, i, j)  BY <1>0, <3>2 DEF MergeStep
      <4>. QED  BY <2>6, <4>1
    <3>. QED  BY <3>1, <3>2
  <2>9. Up(h, k)  BY <2>8
  <2>. HIDE DEF Up
  <2>. QED  BY <2>2, <2>7, <2>9
<1>2. m + n + 2 \in 0..(m + n + 2) /\ m + n + 2 \notin T
  <2>. HIDE DEF T
  <2>. QED  BY <1>1
<1>3. PICK g \in [D -> Seq(Nat)] : Up(g, m + n + 2)
  <2>. HIDE DEF Up
  <2>. QED  BY <1>2
<1>4. ASSUME NEW i \in 1..(m + 1), NEW j \in 1..(n + 1)
      PROVE  g[<<i, j>>] = MergeStep(a, b, g, i, j)
  <2>1. i + j + (m + n + 2) > m + n + 2  OBVIOUS
  <2>. QED  BY <1>3, <2>1
<1>. QED  BY <1>0, <1>3, <1>4 DEF Merges

LEMMA MergeSteps ==
  ASSUME NEW a \in Seq(Nat), NEW b \in Seq(Nat)
  PROVE  \E g : Merges(a, b, g) /\ Merge(a, b) = g[<<1, 1>>]
<1>. DEFINE g == CHOOSE g : g = [p \in (1..(Len(a) + 1)) \X (1..(Len(b) + 1)) |->
                                  MergeStep(a, b, g, p[1], p[2])]
<1>1. PICK h : Merges(a, b, h)  BY MergeExists
<1>2. h = [p \in (1..(Len(a) + 1)) \X (1..(Len(b) + 1)) |-> MergeStep(a, b, h, p[1], p[2])]
  BY <1>1 DEF Merges
<1>3. g = [p \in (1..(Len(a) + 1)) \X (1..(Len(b) + 1)) |-> MergeStep(a, b, g, p[1], p[2])]
  BY <1>2
<1>4. Merge(a, b) = g[<<1, 1>>]  BY DEF Merge, MergeStep
<1>. HIDE DEF g
<1>5. \A i \in 1..(Len(a) + 1), j \in 1..(Len(b) + 1) : g[<<i, j>>] = MergeStep(a, b, g, i, j)
  BY <1>3
<1>6. ASSUME NEW i \in 1..(Len(a) + 1), NEW j \in 1..(Len(b) + 1)
      PROVE  g[<<i, j>>] \in Seq(Nat)
  <2>0. PICK m \in Nat, n \in Nat : m = Len(a) /\ n = Len(b)  BY LenProperties
  <2>. DEFINE T == {k \in Nat : \E x \in 1..(m + 1), y \in 1..(n + 1) :
                                  k = m + n + 2 - x - y /\ g[<<x, y>>] \notin Seq(Nat)}
  <2>1. ASSUME T # {}  PROVE FALSE
    <3>1. T \in SUBSET Nat  OBVIOUS
    <3>2. PICK k \in T : \A l \in T : k <= l
      <4>. HIDE DEF T
      <4>. QED  BY <2>1, <3>1, Least
    <3>3. PICK x \in 1..(m + 1), y \in 1..(n + 1) :
            k = m + n + 2 - x - y /\ g[<<x, y>>] \notin Seq(Nat)
      OBVIOUS
    <3>4. ASSUME NEW u \in 1..(m + 1), NEW v \in 1..(n + 1), u + v > x + y
          PROVE  g[<<u, v>>] \in Seq(Nat)
      <4>. DEFINE l == m + n + 2 - u - v
      <4>1. l \in Nat /\ ~(k <= l)  BY <3>3, <3>4
      <4>2. l \notin T
        <5>. HIDE DEF T
        <5>. QED  BY <3>2, <4>1
      <4>. QED  BY <4>1, <4>2
    <3>. HIDE DEF T
    <3>5. x <= m => x + 1 \in 1..(m + 1) /\ (x + 1) + y > x + y  OBVIOUS
    <3>6. y <= n => y + 1 \in 1..(n + 1) /\ x + (y + 1) > x + y  OBVIOUS
    <3>7. x <= m /\ y <= n =>
            g[<<x + 1, y>>] \in Seq(Nat) /\ g[<<x, y + 1>>] \in Seq(Nat)
      BY <3>4, <3>5, <3>6
    <3>8. MergeStep(a, b, g, x, y) \in Seq(Nat)  BY <2>0, <3>7, MergeStepType
    <3>. QED  BY <1>5, <2>0, <3>3, <3>8
  <2>2. m + n + 2 - i - j \in Nat  BY <2>0
  <2>. QED  BY <2>0, <2>1, <2>2
<1>7. g \in [(1..(Len(a) + 1)) \X (1..(Len(b) + 1)) -> Seq(Nat)]
  <2>1. DOMAIN g = (1..(Len(a) + 1)) \X (1..(Len(b) + 1))
        /\ g = [p \in DOMAIN g |-> g[p]]
    BY <1>3
  <2>2. \A p \in (1..(Len(a) + 1)) \X (1..(Len(b) + 1)) : g[p] \in Seq(Nat)  BY <1>6
  <2>. QED  BY <2>1, <2>2
<1>8. Merges(a, b, g)  BY <1>5, <1>7 DEF Merges
<1>. QED  BY <1>4, <1>8

Headed(t, x, s, c) ==
  /\ t = <<x>> \o s /\ c = Len(s) /\ Len(t) = c + 1 /\ t[1] = x
  /\ \A k \in 1..c : t[k+1] = s[k]
  /\ \A k \in 1..(c+1) : k = 1 \/ (k - 1 \in 1..c /\ t[k] = s[k-1])
LEMMA HeadedExists ==
  ASSUME NEW x \in Nat, NEW s \in Seq(Nat)
  PROVE  \E t \in Seq(Nat), c \in Nat : Headed(t, x, s, c)
<1>. DEFINE u == <<x>>
            t == u \o s
<1>1. u \in Seq(Nat) /\ Len(u) = 1 /\ u[1] = x  OBVIOUS
<1>. HIDE DEF u
<1>2. PICK c \in Nat : c = Len(s)  BY LenProperties
<1>3. /\ t \in Seq(Nat) /\ Len(t) = 1 + c
      /\ \A k \in 1..(1 + c) : t[k] = IF k <= 1 THEN u[k] ELSE s[k - 1]
  <2>1. /\ t \in Seq(Nat) /\ Len(t) = Len(u) + Len(s)
        /\ \A k \in 1..(Len(u) + Len(s)) : t[k] = IF k <= Len(u) THEN u[k] ELSE s[k - Len(u)]
    BY <1>1, ConcatProperties
  <2>. HIDE DEF t
  <2>. QED  BY <1>1, <1>2, <2>1
<1>. HIDE DEF t
<1>4. t[1] = x
  <2>1. 1 \in 1..(1 + c)  OBVIOUS
  <2>. QED  BY <1>1, <1>3, <2>1
<1>5. ASSUME NEW k \in 1..c  PROVE t[k+1] = s[k]
  <2>1. k + 1 \in 1..(1 + c) /\ ~(k + 1 <= 1) /\ (k + 1) - 1 = k  OBVIOUS
  <2>. QED  BY <1>3, <2>1
<1>6. ASSUME NEW k \in 1..(c+1), k # 1  PROVE k - 1 \in 1..c /\ t[k] = s[k-1]
  <2>1. k \in 1..(1 + c) /\ ~(k <= 1) /\ k - 1 \in 1..c  BY <1>6
  <2>. QED  BY <1>3, <2>1
<1>7. Len(t) = c + 1  BY <1>3
<1>. QED  BY <1>2, <1>3, <1>4, <1>5, <1>6, <1>7 DEF Headed, t, u

(* t is the merge of a from i on and b from j on.                          *)
Merged(a, b, i, j, t) ==
  /\ \A k \in 1..Len(t) :
       (\E x \in i..Len(a) : t[k] = a[x]) \/ (\E y \in j..Len(b) : t[k] = b[y])
  /\ \A x \in i..Len(a) : \E k \in 1..Len(t) : t[k] = a[x]
  /\ \A y \in j..Len(b) : \E k \in 1..Len(t) : t[k] = b[y]
  /\ Sorted(ev, t)

Mergeable(a, b, n) ==
  /\ \A x \in 1..Len(a) : a[x] \in 1..n
  /\ \A y \in 1..Len(b) : b[y] \in 1..n
  /\ Sorted(ev, a) /\ Sorted(ev, b)
  /\ \A x \in 1..Len(a), y \in 1..Len(b) : a[x] < b[y]

LEMMA TailIs ==
  ASSUME NEW a \in Seq(Nat), NEW i \in 1..(Len(a) + 1)
  PROVE  \E t \in Seq(Nat), m \in Nat, c \in Nat :
           /\ t = SubSeq(a, i, Len(a)) /\ m = Len(a) /\ Len(t) = c /\ c = m + 1 - i
           /\ \A k \in 1..c : i + k - 1 \in i..m /\ t[k] = a[i + k - 1]
           /\ \A x \in i..m : x + 1 - i \in 1..c /\ t[x + 1 - i] = a[x]
<1>1. PICK m \in Nat : m = Len(a)  BY LenProperties
<1>2. i \in Int /\ i > 0 /\ i <= m + 1 /\ m + 1 - i \in Nat  BY <1>1
<1>3. \A k \in i..m : a[k] \in Nat  BY <1>1, <1>2, ElementOfSeq
<1>. DEFINE t == SubSeq(a, i, m)
            c == m + 1 - i
<1>4. t \in Seq(Nat) /\ Len(t) = (IF i <= m THEN m - i + 1 ELSE 0)
      /\ \A k \in 1..(m - i + 1) : t[k] = a[i + k - 1]
  BY <1>2, <1>3, SubSeqProperties
<1>. HIDE DEF t
<1>5. Len(t) = c  BY <1>2, <1>4
<1>6. ASSUME NEW k \in 1..c  PROVE i + k - 1 \in i..m /\ t[k] = a[i + k - 1]
  <2>1. k \in 1..(m - i + 1) /\ i + k - 1 \in i..m  BY <1>2
  <2>. QED  BY <1>4, <2>1
<1>7. ASSUME NEW x \in i..m  PROVE x + 1 - i \in 1..c /\ t[x + 1 - i] = a[x]
  <2>1. x + 1 - i \in 1..c /\ i + (x + 1 - i) - 1 = x  BY <1>2
  <2>2. t[x + 1 - i] = a[i + (x + 1 - i) - 1]  BY <1>6, <2>1
  <2>. QED  BY <2>1, <2>2
<1>. QED  BY <1>1, <1>2, <1>4, <1>5, <1>6, <1>7 DEF t

LEMMA MergeTails ==
  ASSUME NEW a \in Seq(Nat), NEW b \in Seq(Nat), NEW n \in Nat, Mergeable(a, b, n),
         NEW i \in 1..(Len(a) + 1), NEW j \in 1..(Len(b) + 1)
  PROVE  /\ i > Len(a) => Merged(a, b, i, j, SubSeq(b, j, Len(b)))
         /\ j > Len(b) => Merged(a, b, i, j, SubSeq(a, i, Len(a)))
<1>1. ASSUME i > Len(a)  PROVE Merged(a, b, i, j, SubSeq(b, j, Len(b)))
  <2>1. PICK t \in Seq(Nat), m \in Nat, c \in Nat :
           /\ t = SubSeq(b, j, Len(b)) /\ m = Len(b) /\ Len(t) = c /\ c = m + 1 - j
           /\ \A k \in 1..c : j + k - 1 \in j..m /\ t[k] = b[j + k - 1]
           /\ \A x \in j..m : x + 1 - j \in 1..c /\ t[x + 1 - j] = b[x]
    BY TailIs
  <2>2. \A x \in i..Len(a) : FALSE  BY <1>1, LenProperties
  <2>3. ASSUME NEW k \in 1..c, NEW l \in 1..c, k < l  PROVE Before(ev, t[k], t[l])
    <3>1. j + k - 1 \in 1..m /\ j + l - 1 \in 1..m /\ j + k - 1 < j + l - 1  BY <2>1, <2>3
    <3>2. Before(ev, b[j + k - 1], b[j + l - 1])  BY <2>1, <3>1 DEF Mergeable, Sorted
    <3>. QED  BY <2>1, <3>2
  <2>. QED  BY <2>1, <2>2, <2>3 DEF Merged, Sorted
<1>2. ASSUME j > Len(b)  PROVE Merged(a, b, i, j, SubSeq(a, i, Len(a)))
  <2>1. PICK t \in Seq(Nat), m \in Nat, c \in Nat :
           /\ t = SubSeq(a, i, Len(a)) /\ m = Len(a) /\ Len(t) = c /\ c = m + 1 - i
           /\ \A k \in 1..c : i + k - 1 \in i..m /\ t[k] = a[i + k - 1]
           /\ \A x \in i..m : x + 1 - i \in 1..c /\ t[x + 1 - i] = a[x]
    BY TailIs
  <2>2. \A y \in j..Len(b) : FALSE  BY <1>2, LenProperties
  <2>3. ASSUME NEW k \in 1..c, NEW l \in 1..c, k < l  PROVE Before(ev, t[k], t[l])
    <3>1. i + k - 1 \in 1..m /\ i + l - 1 \in 1..m /\ i + k - 1 < i + l - 1  BY <2>1, <2>3
    <3>2. Before(ev, a[i + k - 1], a[i + l - 1])  BY <2>1, <3>1 DEF Mergeable, Sorted
    <3>. QED  BY <2>1, <3>2
  <2>. QED  BY <2>1, <2>2, <2>3 DEF Merged, Sorted
<1>. QED  BY <1>1, <1>2

(* An event that is before all of s goes to the front.                     *)
LEMMA SortedCons ==
  ASSUME NEW x \in Nat, NEW s \in Seq(Nat), Sorted(ev, s),
         \A k \in 1..Len(s) : Before(ev, x, s[k])
  PROVE  Sorted(ev, <<x>> \o s)
<1>1h. PICK t \in Seq(Nat), c \in Nat : Headed(t, x, s, c)  BY HeadedExists
<1>1. /\ t = <<x>> \o s /\ c = Len(s) /\ Len(t) = c + 1 /\ t[1] = x
      /\ \A k \in 1..c : t[k+1] = s[k]
      /\ \A k \in 1..(c+1) : k = 1 \/ (k - 1 \in 1..c /\ t[k] = s[k-1])
  BY <1>1h DEF Headed
<1>2. ASSUME NEW k \in 1..(c+1), NEW l \in 1..(c+1), k < l  PROVE Before(ev, t[k], t[l])
  <2>1. l - 1 \in 1..c /\ t[l] = s[l-1]  BY <1>1, <1>2
  <2>2. CASE k = 1  BY <1>1, <2>1, <2>2
  <2>3. CASE k # 1
    <3>1. k - 1 \in 1..c /\ t[k] = s[k-1] /\ k - 1 < l - 1  BY <1>1, <1>2, <2>3
    <3>. QED  BY <1>1, <2>1, <3>1 DEF Sorted
  <2>. QED  BY <2>2, <2>3
<1>. QED  BY <1>1, <1>2 DEF Sorted

LEMMA MergeFirst ==
  ASSUME sort_by_priority \in BOOLEAN, NEW n \in Nat, \A e \in 1..n : ev[e] \in Event,
         NEW a \in Seq(Nat), NEW b \in Seq(Nat), Mergeable(a, b, n),
         NEW i \in 1..Len(a), NEW j \in 1..Len(b), NEW s \in Seq(Nat),
         Merged(a, b, i + 1, j, s), ~EV_LESS(ev[b[j]], ev[a[i]])
  PROVE  Merged(a, b, i, j, <<a[i]>> \o s)
<1>0. PICK m \in Nat, p \in Nat : m = Len(a) /\ p = Len(b)  BY LenProperties
<1>1. a[i] \in 1..n /\ b[j] \in 1..n /\ a[i] < b[j] /\ a[i] \in Nat  BY DEF Mergeable
<1>2. Before(ev, a[i], b[j])  BY <1>1 DEF Before
<1>3. ASSUME NEW x \in (i+1)..m  PROVE Before(ev, a[i], a[x])
  <2>1. x \in 1..m /\ i < x  BY <1>0
  <2>. QED  BY <1>0, <2>1 DEF Mergeable, Sorted
<1>4. ASSUME NEW y \in j..p  PROVE Before(ev, a[i], b[y])
  <2>1. y \in 1..p /\ (y = j \/ j < y)  BY <1>0
  <2>2. CASE y = j  BY <1>2, <2>2
  <2>3. CASE j < y
    <3>1. Before(ev, b[j], b[y]) /\ b[y] \in 1..n  BY <1>0, <2>1, <2>3 DEF Mergeable, Sorted
    <3>. QED  BY <1>1, <1>2, <3>1, BeforeIsOrder
  <2>. QED  BY <2>1, <2>2, <2>3
<1>5. /\ \A k \in 1..Len(s) :
           (\E x \in (i+1)..m : s[k] = a[x]) \/ (\E y \in j..p : s[k] = b[y])
      /\ \A x \in (i+1)..m : \E k \in 1..Len(s) : s[k] = a[x]
      /\ \A y \in j..p : \E k \in 1..Len(s) : s[k] = b[y]
      /\ Sorted(ev, s)
  BY <1>0 DEF Merged
<1>6. ASSUME NEW k \in 1..Len(s)  PROVE Before(ev, a[i], s[k])
  BY <1>3, <1>4, <1>5
<1>7h. PICK t \in Seq(Nat), c \in Nat : Headed(t, a[i], s, c)  BY <1>1, HeadedExists
<1>7e. t = <<a[i]>> \o s  BY <1>7h DEF Headed
<1>7. /\ c = Len(s) /\ Len(t) = c + 1 /\ t[1] = a[i]
      /\ \A k \in 1..c : t[k+1] = s[k]
      /\ \A k \in 1..(c+1) : k = 1 \/ (k - 1 \in 1..c /\ t[k] = s[k-1])
  BY <1>7h DEF Headed
<1>8. Sorted(ev, t)
  <2>1. a[i] \in Nat  BY <1>1
  <2>. QED  BY <1>5, <1>6, <1>7e, <2>1, SortedCons
<1>9. /\ 1 \in 1..(c+1) /\ \A k \in 1..c : k + 1 \in 1..(c+1)
      /\ i \in i..m /\ \A x \in i..m : x = i \/ x \in (i+1)..m
      /\ \A x \in (i+1)..m : x \in i..m
  BY <1>0
<1>10. ASSUME NEW k \in 1..(c+1)
       PROVE  (\E x \in i..m : t[k] = a[x]) \/ (\E y \in j..p : t[k] = b[y])
  <2>1. CASE k = 1  BY <1>7, <1>9, <2>1
  <2>2. CASE k - 1 \in 1..c /\ t[k] = s[k-1]
    <3>1. k - 1 \in 1..Len(s)  BY <1>7, <2>2
    <3>2. (\E x \in (i+1)..m : s[k-1] = a[x]) \/ (\E y \in j..p : s[k-1] = b[y])
      BY <1>5, <3>1
    <3>3. (\E x \in i..m : s[k-1] = a[x]) \/ (\E y \in j..p : s[k-1] = b[y])
      BY <1>9, <3>2
    <3>. QED  BY <2>2, <3>3
  <2>. QED  BY <1>7, <2>1, <2>2
<1>11. ASSUME NEW x \in i..m  PROVE \E k \in 1..(c+1) : t[k] = a[x]
  <2>1. CASE x = i  BY <1>7, <1>9, <2>1
  <2>2. CASE x \in (i+1)..m
    <3>1. PICK k \in 1..c : s[k] = a[x]  BY <1>5, <1>7, <2>2
    <3>2. k + 1 \in 1..(c+1) /\ t[k+1] = a[x]  BY <1>7, <1>9, <3>1
    <3>. QED  BY <3>2
  <2>. QED  BY <1>9, <2>1, <2>2
<1>12. ASSUME NEW y \in j..p  PROVE \E k \in 1..(c+1) : t[k] = b[y]
  <2>1. PICK k \in 1..c : s[k] = b[y]  BY <1>5, <1>7
  <2>2. k + 1 \in 1..(c+1) /\ t[k+1] = b[y]  BY <1>7, <1>9, <2>1
  <2>. QED  BY <2>2
<1>13. Merged(a, b, i, j, t)  BY <1>0, <1>7, <1>8, <1>10, <1>11, <1>12 DEF Merged
<1>. QED  BY <1>7e, <1>13

LEMMA MergeSecond ==
  ASSUME sort_by_priority \in BOOLEAN, NEW n \in Nat, \A e \in 1..n : ev[e] \in Event,
         NEW a \in Seq(Nat), NEW b \in Seq(Nat), Mergeable(a, b, n),
         NEW i \in 1..Len(a), NEW j \in 1..Len(b), NEW s \in Seq(Nat),
         Merged(a, b, i, j + 1, s), EV_LESS(ev[b[j]], ev[a[i]])
  PROVE  Merged(a, b, i, j, <<b[j]>> \o s)
<1>0. PICK m \in Nat, p \in Nat : m = Len(a) /\ p = Len(b)  BY LenProperties
<1>1. a[i] \in 1..n /\ b[j] \in 1..n /\ b[j] \in Nat  BY DEF Mergeable
<1>2. Before(ev, b[j], a[i])  BY DEF Before
<1>3. ASSUME NEW y \in (j+1)..p  PROVE Before(ev, b[j], b[y])
  <2>1. y \in 1..p /\ j < y  BY <1>0
  <2>. QED  BY <1>0, <2>1 DEF Mergeable, Sorted
<1>4. ASSUME NEW x \in i..m  PROVE Before(ev, b[j], a[x])
  <2>1. x \in 1..m /\ (x = i \/ i < x)  BY <1>0
  <2>2. CASE x = i  BY <1>2, <2>2
  <2>3. CASE i < x
    <3>1. Before(ev, a[i], a[x]) /\ a[x] \in 1..n  BY <1>0, <2>1, <2>3 DEF Mergeable, Sorted
    <3>. QED  BY <1>1, <1>2, <3>1, BeforeIsOrder
  <2>. QED  BY <2>1, <2>2, <2>3
<1>5. /\ \A k \in 1..Len(s) :
           (\E x \in i..m : s[k] = a[x]) \/ (\E y \in (j+1)..p : s[k] = b[y])
      /\ \A x \in i..m : \E k \in 1..Len(s) : s[k] = a[x]
      /\ \A y \in (j+1)..p : \E k \in 1..Len(s) : s[k] = b[y]
      /\ Sorted(ev, s)
  BY <1>0 DEF Merged
<1>6. ASSUME NEW k \in 1..Len(s)  PROVE Before(ev, b[j], s[k])
  BY <1>3, <1>4, <1>5
<1>7h. PICK t \in Seq(Nat), c \in Nat : Headed(t, b[j], s, c)  BY <1>1, HeadedExists
<1>7e. t = <<b[j]>> \o s  BY <1>7h DEF Headed
<1>7. /\ c = Len(s) /\ Len(t) = c + 1 /\ t[1] = b[j]
      /\ \A k \in 1..c : t[k+1] = s[k]
      /\ \A k \in 1..(c+1) : k = 1 \/ (k - 1 \in 1..c /\ t[k] = s[k-1])
  BY <1>7h DEF Headed
<1>8. Sorted(ev, t)
  <2>1. b[j] \in Nat  BY <1>1
  <2>. QED  BY <1>5, <1>6, <1>7e, <2>1, SortedCons
<1>9. /\ 1 \in 1..(c+1) /\ \A k \in 1..c : k + 1 \in 1..(c+1)
      /\ j \in j..p /\ \A y \in j..p : y = j \/ y \in (j+1)..p
      /\ \A y \in (j+1)..p : y \in j..p
  BY <1>0
<1>10. ASSUME NEW k \in 1..(c+1)
       PROVE  (\E x \in i..m : t[k] = a[x]) \/ (\E y \in j..p : t[k] = b[y])
  <2>1. CASE k = 1  BY <1>7, <1>9, <2>1
  <2>2. CASE k - 1 \in 1..c /\ t[k] = s[k-1]
    <3>1. k - 1 \in 1..Len(s)  BY <1>7, <2>2
    <3>2. (\E x \in i..m : s[k-1] = a[x]) \/ (\E y \in (j+1)..p : s[k-1] = b[y])
      BY <1>5, <3>1
    <3>3. (\E x \in i..m : s[k-1] = a[x]) \/ (\E y \in j..p : s[k-1] = b[y])
      BY <1>9, <3>2
    <3>. QED  BY <2>2, <3>3
  <2>. QED  BY <1>7, <2>1, <2>2
<1>11. ASSUME NEW x \in i..m  PROVE \E k \in 1..(c+1) : t[k] = a[x]
  <2>1. PICK k \in 1..c : s[k] = a[x]  BY <1>5, <1>7
  <2>2. k + 1 \in 1..(c+1) /\ t[k+1] = a[x]  BY <1>7, <1>9, <2>1
  <2>. QED  BY <2>2
<1>12. ASSUME NEW y \in j..p  PROVE \E k \in 1..(c+1) : t[k] = b[y]
  <2>1. CASE y = j  BY <1>7, <1>9, <2>1
  <2>2. CASE y \in (j+1)..p
    <3>1. PICK k \in 1..c : s[k] = b[y]  BY <1>5, <1>7, <2>2
    <3>2. k + 1 \in 1..(c+1) /\ t[k+1] = b[y]  BY <1>7, <1>9, <3>1
    <3>. QED  BY <3>2
  <2>. QED  BY <1>9, <2>1, <2>2
<1>13. Merged(a, b, i, j, t)  BY <1>0, <1>7, <1>8, <1>10, <1>11, <1>12 DEF Merged
<1>. QED  BY <1>7e, <1>13

LEMMA MergeIs ==
  ASSUME sort_by_priority \in BOOLEAN, NEW n \in Nat, \A e \in 1..n : ev[e] \in Event,
         NEW a \in Seq(Nat), NEW b \in Seq(Nat), Mergeable(a, b, n)
  PROVE  Merge(a, b) \in Seq(Nat) /\ Merged(a, b, 1, 1, Merge(a, b))
<1>0. PICK m \in Nat, p \in Nat : m = Len(a) /\ p = Len(b)  BY LenProperties
<1>1. PICK g : Merges(a, b, g) /\ Merge(a, b) = g[<<1, 1>>]  BY MergeSteps
<1>2. ASSUME NEW i \in 1..(m + 1), NEW j \in 1..(p + 1)
      PROVE  g[<<i, j>>] \in Seq(Nat) /\ g[<<i, j>>] = MergeStep(a, b, g, i, j)
  BY <1>0, <1>1 DEF Merges
<1>. DEFINE T == {k \in Nat : \E x \in 1..(m + 1), y \in 1..(p + 1) :
                                k = m + p + 2 - x - y /\ ~Merged(a, b, x, y, g[<<x, y>>])}
<1>3. ASSUME T # {}  PROVE FALSE
  <2>1. T \in SUBSET Nat  OBVIOUS
  <2>2. PICK k \in T : \A l \in T : k <= l
    <3>. HIDE DEF T
    <3>. QED  BY <1>3, <2>1, Least
  <2>3. PICK i \in 1..(m + 1), j \in 1..(p + 1) :
          k = m + p + 2 - i - j /\ ~Merged(a, b, i, j, g[<<i, j>>])
    OBVIOUS
  <2>4. ASSUME NEW u \in 1..(m + 1), NEW v \in 1..(p + 1), u + v > i + j
        PROVE  Merged(a, b, u, v, g[<<u, v>>])
    <3>. DEFINE l == m + p + 2 - u - v
    <3>1. l \in Nat /\ ~(k <= l)  BY <2>3, <2>4
    <3>2. l \notin T
      <4>. HIDE DEF T
      <4>. QED  BY <2>2, <3>1
    <3>. QED  BY <3>1, <3>2
  <2>. HIDE DEF T
  <2>5. CASE i > m
    <3>1. g[<<i, j>>] = SubSeq(b, j, Len(b))  BY <1>0, <1>2, <2>5 DEF MergeStep
    <3>2. Merged(a, b, i, j, SubSeq(b, j, Len(b)))  BY <1>0, <2>5, MergeTails
    <3>. QED  BY <2>3, <3>1, <3>2
  <2>6. CASE i <= m /\ j > p
    <3>0. ~(i > Len(a)) /\ j > Len(b)  BY <1>0, <2>6
    <3>1. g[<<i, j>>] = SubSeq(a, i, Len(a))  BY <1>2, <3>0 DEF MergeStep
    <3>2. Merged(a, b, i, j, SubSeq(a, i, Len(a)))  BY <1>0, <2>6, MergeTails
    <3>. QED  BY <2>3, <3>1, <3>2
  <2>7. CASE i <= m /\ j <= p
    <3>1. /\ i \in 1..Len(a) /\ j \in 1..Len(b) /\ ~(i > Len(a)) /\ ~(j > Len(b))
          /\ i + 1 \in 1..(m + 1) /\ (i + 1) + j > i + j
          /\ j + 1 \in 1..(p + 1) /\ i + (j + 1) > i + j
      BY <1>0, <2>7
    <3>2. CASE EV_LESS(ev[b[j]], ev[a[i]])
      <4>1. g[<<i, j>>] = <<b[j]>> \o g[<<i, j + 1>>]  BY <1>2, <3>1, <3>2 DEF MergeStep
      <4>2. g[<<i, j + 1>>] \in Seq(Nat) /\ Merged(a, b, i, j + 1, g[<<i, j + 1>>])
        BY <1>2, <2>4, <3>1
      <4>3. Merged(a, b, i, j, <<b[j]>> \o g[<<i, j + 1>>])
        BY <3>1, <3>2, <4>2, MergeSecond
      <4>. QED  BY <2>3, <4>1, <4>3
    <3>3. CASE ~EV_LESS(ev[b[j]], ev[a[i]])
      <4>1. g[<<i, j>>] = <<a[i]>> \o g[<<i + 1, j>>]  BY <1>2, <3>1, <3>3 DEF MergeStep
      <4>2. g[<<i + 1, j>>] \in Seq(Nat) /\ Merged(a, b, i + 1, j, g[<<i + 1, j>>])
        BY <1>2, <2>4, <3>1
      <4>3. Merged(a, b, i, j, <<a[i]>> \o g[<<i + 1, j>>])
        BY <3>1, <3>3, <4>2, MergeFirst
      <4>. QED  BY <2>3, <4>1, <4>3
    <3>. QED  BY <3>2, <3>3
  <2>. QED  BY <2>5, <2>6, <2>7
<1>4. m + p + 2 - 1 - 1 \in Nat /\ 1 \in 1..(m + 1) /\ 1 \in 1..(p + 1)  OBVIOUS
<1>5. Merged(a, b, 1, 1, g[<<1, 1>>])  BY <1>3, <1>4
<1>. QED  BY <1>1, <1>2, <1>4, <1>5

(* A pass of the sort: sequence k is the merge of sequences 2k-1 and 2k.   *)
Passed(q, r) ==
  /\ Len(r) = (Len(q) + 1) \div 2
  /\ \A k \in 1..Len(r) :
       \/ 2 * k <= Len(q) /\ r[k] = Merge(q[2 * k - 1], q[2 * k])
       \/ 2 * k > Len(q) /\ r[k] = q[2 * k - 1]

LEMMA PassKeeps ==
  ASSUME sort_by_priority \in BOOLEAN, NEW n \in Nat, \A e \in 1..n : ev[e] \in Event,
         NEW q \in Seq(Seq(Nat)), Collected(ev, q, n), NEW r, r \in Seq(Seq(Nat)), Passed(q, r)
  PROVE  Collected(ev, r, n)
<1>0. PICK c \in Nat, d \in Nat : c = Len(q) /\ d = Len(r)  BY LenProperties
<1>1. d = (c + 1) \div 2  BY <1>0 DEF Passed
<1>q. /\ \A k \in 1..c : \A i \in 1..Len(q[k]) : q[k][i] \in 1..n
      /\ \A e \in 1..n : \E k \in 1..c : \E i \in 1..Len(q[k]) : q[k][i] = e
      /\ \A k \in 1..c : Sorted(ev, q[k])
      /\ \A k, l \in 1..c : k < l =>
           \A i \in 1..Len(q[k]), j \in 1..Len(q[l]) : q[k][i] < q[l][j]
  BY <1>0 DEF Collected, Ranged, Covers, Ranked, Apart
<1>2. ASSUME NEW k \in 1..d
      PROVE  /\ \A i \in 1..Len(r[k]) : \E l \in 1..c : l \in {2 * k - 1, 2 * k}
                  /\ \E x \in 1..Len(q[l]) : r[k][i] = q[l][x]
             /\ \A l \in 1..c : l \in {2 * k - 1, 2 * k} =>
                  \A x \in 1..Len(q[l]) : \E i \in 1..Len(r[k]) : r[k][i] = q[l][x]
             /\ Sorted(ev, r[k])
  <2>0. 2 * k - 1 \in 1..c  BY <1>1
  <2>1. CASE 2 * k > c /\ r[k] = q[2 * k - 1]
    <3>1. \A l \in 1..c : l \in {2 * k - 1, 2 * k} => l = 2 * k - 1  BY <2>1
    <3>. QED  BY <1>q, <2>0, <2>1, <3>1
  <2>2. CASE 2 * k <= c /\ r[k] = Merge(q[2 * k - 1], q[2 * k])
    <3>. DEFINE a == q[2 * k - 1]
                b == q[2 * k]
    <3>1. 2 * k \in 1..c /\ 2 * k - 1 < 2 * k  BY <2>2
    <3>2. a \in Seq(Nat) /\ b \in Seq(Nat)  BY <1>0, <2>0, <3>1, ElementOfSeq
    <3>3. Mergeable(a, b, n)  BY <1>q, <2>0, <3>1 DEF Mergeable
    <3>4. Merged(a, b, 1, 1, r[k])
      <4>. HIDE DEF a, b
      <4>1. Merged(a, b, 1, 1, Merge(a, b))  BY <3>2, <3>3, MergeIs
      <4>2. r[k] = Merge(a, b)  BY <2>2 DEF a, b
      <4>. QED  BY <4>1, <4>2
    <3>5. ASSUME NEW i \in 1..Len(r[k])
          PROVE  \E l \in 1..c : l \in {2 * k - 1, 2 * k}
                   /\ \E x \in 1..Len(q[l]) : r[k][i] = q[l][x]
      <4>1. (\E x \in 1..Len(a) : r[k][i] = a[x]) \/ (\E x \in 1..Len(b) : r[k][i] = b[x])
        BY <3>4 DEF Merged
      <4>. QED  BY <2>0, <3>1, <4>1
    <3>6. ASSUME NEW l \in 1..c, l \in {2 * k - 1, 2 * k}, NEW x \in 1..Len(q[l])
          PROVE  \E i \in 1..Len(r[k]) : r[k][i] = q[l][x]
      <4>1. CASE l = 2 * k - 1  BY <3>4, <4>1 DEF Merged
      <4>2. CASE l = 2 * k  BY <3>4, <4>2 DEF Merged
      <4>. QED  BY <3>6, <4>1, <4>2
    <3>7. Sorted(ev, r[k])  BY <3>4 DEF Merged
    <3>. QED  BY <3>5, <3>6, <3>7
  <2>. QED  BY <1>0, <2>1, <2>2 DEF Passed
<1>3. ASSUME NEW k \in 1..d, NEW i \in 1..Len(r[k])  PROVE r[k][i] \in 1..n
  <2>1. PICK l \in 1..c : \E x \in 1..Len(q[l]) : r[k][i] = q[l][x]  BY <1>2
  <2>. QED  BY <1>q, <2>1
<1>4. ASSUME NEW e \in 1..n  PROVE \E k \in 1..d : \E i \in 1..Len(r[k]) : r[k][i] = e
  <2>1. PICK l \in 1..c : \E x \in 1..Len(q[l]) : q[l][x] = e  BY <1>q
  <2>. DEFINE k == (l + 1) \div 2
  <2>2. k \in 1..d /\ l \in {2 * k - 1, 2 * k}  BY <1>1
  <2>. HIDE DEF k
  <2>3. PICK x \in 1..Len(q[l]) : q[l][x] = e  BY <2>1
  <2>4. \E i \in 1..Len(r[k]) : r[k][i] = q[l][x]  BY <1>2, <2>2
  <2>. QED  BY <2>2, <2>3, <2>4
<1>5. ASSUME NEW k \in 1..d, NEW l \in 1..d, k < l,
             NEW i \in 1..Len(r[k]), NEW j \in 1..Len(r[l])
      PROVE  r[k][i] < r[l][j]
  <2>1. PICK u \in 1..c : u \in {2 * k - 1, 2 * k} /\ \E x \in 1..Len(q[u]) : r[k][i] = q[u][x]
    BY <1>2
  <2>2. PICK v \in 1..c : v \in {2 * l - 1, 2 * l} /\ \E x \in 1..Len(q[v]) : r[l][j] = q[v][x]
    BY <1>2
  <2>3. u < v
    <3>1. u = 2 * k - 1 \/ u = 2 * k  BY <2>1
    <3>2. v = 2 * l - 1 \/ v = 2 * l  BY <2>2
    <3>. QED  BY <1>5, <3>1, <3>2
  <2>4. PICK x \in 1..Len(q[u]) : r[k][i] = q[u][x]  BY <2>1
  <2>5. PICK y \in 1..Len(q[v]) : r[l][j] = q[v][y]  BY <2>2
  <2>6. q[u][x] < q[v][y]  BY <1>q, <2>3
  <2>. QED  BY <2>4, <2>5, <2>6
<1>6. /\ \A k \in 1..d : \A i \in 1..Len(r[k]) : r[k][i] \in 1..n
      /\ \A e \in 1..n : \E k \in 1..d : \E i \in 1..Len(r[k]) : r[k][i] = e
      /\ \A k \in 1..d : Sorted(ev, r[k])
  BY <1>2, <1>3, <1>4
<1>. QED  BY <1>0, <1>5, <1>6 DEF Collected, Ranged, Covers, Ranked, Apart

-----------------------------------------------------------------------------
TypeOK ==
  /\ ev \in Seq(Event) /\ eseq \in Seq(Seq(Nat)) /\ last_ep \in Nat
  /\ sort_by_priority \in BOOLEAN
  /\ stage \in {"collect", "sort", "pair", "done"}
  /\ pos \in Nat \ {0} /\ ctop \in Nat \ {0}
  /\ note_tbl \in [Note -> Nat] /\ npend \in Int

(* Events as the program outputs them.                                     *)
Pitch(all, e) ==
  /\ e + 1 \in 1..Len(all)
  /\ all[e].type = "on" /\ all[e+1].type = "off" /\ all[e].note = all[e+1].note
  /\ all[e].partner = e + 1 /\ all[e+1].partner = e
  /\ all[e].time <= all[e+1].time
  /\ all[e+1].irregular <=> all[e].time = all[e+1].time
Raw(all) ==
  \A e \in 1..Len(all) :
    /\ all[e].type # "ctrl" => all[e].note \in Note
    /\ all[e].type = "off" /\ all[e].partner = NULL => all[e].irregular
    /\ all[e].partner # NULL => Pitch(all, e) \/ (e # 1 /\ Pitch(all, e - 1))

CollectInv ==
  /\ stage \in {"collect", "sort"} => Raw(ev) /\ Collected(ev, eseq, Len(ev))
  /\ stage = "collect" => AtEnd(eseq, Len(ev), last_ep)

LEMMA CollectedNext ==
  ASSUME sort_by_priority' = sort_by_priority, Collected(ev', eseq', Len(ev'))
  PROVE  Collected(ev, eseq, Len(ev))'
<1>1. ASSUME NEW e, NEW f  PROVE Before(ev, e, f)' <=> Before(ev', e, f)
  BY DEF Before, EV_LESS
<1>2. ASSUME NEW k \in 1..Len(eseq')  PROVE Sorted(ev, eseq[k])'
  <2>1. Sorted(ev', eseq'[k])  BY DEF Collected, Ranked
  <2>. QED  BY <1>1, <2>1 DEF Sorted
<1>. QED  BY <1>2 DEF Collected, Ranked, Ranged, Covers, Apart

LEMMA CollectedSame ==
  ASSUME NEW n \in Nat, NEW old, NEW all, NEW q, Ranged(q, n), \A e \in 1..n : all[e] = old[e],
         Collected(old, q, n)
  PROVE  Collected(all, q, n)
<1>1. ASSUME NEW k \in 1..Len(q)  PROVE Sorted(all, q[k])
  <2>1. ASSUME NEW i \in 1..Len(q[k]), NEW j \in 1..Len(q[k]), i < j
        PROVE  Before(all, q[k][i], q[k][j])
    <3>1. Before(old, q[k][i], q[k][j])  BY <2>1 DEF Collected, Ranked, Sorted
    <3>2. all[q[k][i]] = old[q[k][i]] /\ all[q[k][j]] = old[q[k][j]]  BY DEF Ranged
    <3>. QED  BY <3>1, <3>2 DEF Before
  <2>. QED  BY <2>1 DEF Sorted
<1>. QED  BY <1>1 DEF Collected, Ranked

LEMMA PitchSame ==
  ASSUME NEW n \in Nat, NEW old, NEW all, Len(old) = n, Len(all) \in Nat, n <= Len(all),
         \A e \in 1..n : all[e] = old[e], NEW e \in 1..n, Pitch(old, e)
  PROVE  Pitch(all, e)
<1>1. e + 1 \in 1..n /\ e + 1 \in 1..Len(all)  BY DEF Pitch
<1>2. all[e] = old[e] /\ all[e+1] = old[e+1]  BY <1>1
<1>. QED  BY <1>1, <1>2 DEF Pitch

LEMMA RawSame ==
  ASSUME NEW n \in Nat, NEW old, NEW all, Len(old) = n, Len(all) \in Nat, n <= Len(all),
         \A e \in 1..n : all[e] = old[e], Raw(old), NEW e \in 1..n
  PROVE  /\ all[e].type # "ctrl" => all[e].note \in Note
         /\ all[e].type = "off" /\ all[e].partner = NULL => all[e].irregular
         /\ all[e].partner # NULL => Pitch(all, e) \/ (e # 1 /\ Pitch(all, e - 1))
<1>1. all[e] = old[e] /\ e \in 1..Len(old)  OBVIOUS
<1>2. Pitch(old, e) => Pitch(all, e)  BY PitchSame
<1>3. e # 1 /\ Pitch(old, e - 1) => Pitch(all, e - 1)
  <2>1. e # 1 => e - 1 \in 1..n  OBVIOUS
  <2>. QED  BY <2>1, PitchSame
<1>. QED  BY <1>1, <1>2, <1>3 DEF Raw

LEMMA InsertStep ==
  ASSUME TypeOK, CollectInv, stage = "collect", NEW e \in Event, e.partner = NULL,
         e.type # "ctrl" => e.note \in Note, e.type = "off" => e.irregular,
         insert_evlist(e)
  PROVE  TypeOK' /\ CollectInv'
<1>0. PICK n \in Nat : n = Len(ev)  BY LenProperties DEF TypeOK
<1>1. /\ ev' \in Seq(Event) /\ Len(ev') = n + 1 /\ ev'[n+1] = e
      /\ \A i \in 1..n : ev'[i] = ev[i]
  <2>1. ev' = Append(ev, e)  BY DEF insert_evlist
  <2>. QED  BY <1>0, <2>1, AppendProperties DEF TypeOK
<1>2. eseq' = Insert(eseq, last_ep, ev', n + 1) /\ last_ep' = n + 1
  BY <1>0 DEF insert_evlist
<1>3. \A i \in 1..(n+1) : ev'[i] \in Event  BY <1>1, ElementOfSeq
<1>4. Collected(ev', eseq, n)
  BY <1>0, <1>1, CollectedSame DEF CollectInv, Collected
<1>5. /\ eseq' \in Seq(Seq(Nat)) /\ Collected(ev', eseq', n + 1)
      /\ AtEnd(eseq', n + 1, n + 1)
  <2>1. AtEnd(eseq, n, last_ep)  BY <1>0 DEF CollectInv
  <2>. QED  BY <1>2, <1>3, <1>4, <2>1, InsertKeeps DEF TypeOK
<1>6. TypeOK'  BY <1>1, <1>2, <1>5 DEF TypeOK, insert_evlist, pairVars
<1>7. Raw(ev)'
  <2>1. ASSUME NEW i \in 1..(n+1)
        PROVE  /\ ev'[i].type # "ctrl" => ev'[i].note \in Note
               /\ ev'[i].type = "off" /\ ev'[i].partner = NULL => ev'[i].irregular
               /\ ev'[i].partner # NULL => Pitch(ev', i) \/ (i # 1 /\ Pitch(ev', i - 1))
    <3>1. CASE i \in 1..n
      <4>1. Len(ev') \in Nat /\ n <= Len(ev') /\ Raw(ev)  BY <1>1 DEF CollectInv
      <4>. QED  BY <1>0, <1>1, <3>1, <4>1, RawSame
    <3>2. CASE i = n + 1  BY <1>1, <3>2
    <3>. QED  BY <3>1, <3>2
  <2>2. ASSUME NEW i  PROVE Pitch(ev, i)' <=> Pitch(ev', i)  BY DEF Pitch
  <2>. QED  BY <1>1, <2>1, <2>2 DEF Raw
<1>8. stage' = "collect" /\ sort_by_priority' = sort_by_priority  BY DEF insert_evlist
<1>9. Collected(ev, eseq, Len(ev))'  BY <1>1, <1>5, <1>8, CollectedNext
<1>10. AtEnd(eseq, Len(ev), last_ep)'  BY <1>1, <1>2, <1>5 DEF AtEnd
<1>. QED  BY <1>6, <1>7, <1>8, <1>9, <1>10 DEF CollectInv

LEMMA OneEventStep ==
  ASSUME TypeOK, CollectInv, do_ctrl \/ do_note_on \/ do_note_off
  PROVE  TypeOK' /\ CollectInv' /\ stage' = "collect"
<1>0. \A t \in Time : t \in Nat  BY BoundAssumption DEF Time
<1>1. CASE do_ctrl
  <2>1. PICK t \in Time : insert_evlist(ctrl(t))  BY <1>1 DEF do_ctrl
  <2>2. /\ ctrl(t) \in Event /\ ctrl(t).partner = NULL /\ ctrl(t).type = "ctrl"
    BY <1>0 DEF ctrl, Event, NULL
  <2>. QED  BY <1>1, <2>1, <2>2, InsertStep DEF do_ctrl, insert_evlist
<1>2. CASE do_note_on
  <2>1. PICK t \in Time, n \in Note : insert_evlist(note_on(t, n))  BY <1>2 DEF do_note_on
  <2>2. /\ note_on(t, n) \in Event /\ note_on(t, n).partner = NULL
        /\ note_on(t, n).note \in Note /\ note_on(t, n).type = "on"
    BY <1>0 DEF note_on, Event, NULL
  <2>. QED  BY <1>2, <2>1, <2>2, InsertStep DEF do_note_on, insert_evlist
<1>3. CASE do_note_off
  <2>1. PICK t \in Time, n \in Note : insert_evlist(note_off(t, n))  BY <1>3 DEF do_note_off
  <2>2. /\ note_off(t, n) \in Event /\ note_off(t, n).partner = NULL
        /\ note_off(t, n).note \in Note /\ note_off(t, n).irregular
    BY <1>0 DEF note_off, Event, NULL
  <2>. QED  BY <1>3, <2>1, <2>2, InsertStep DEF do_note_off, insert_evlist
<1>. QED  BY <1>1, <1>2, <1>3

LEMMA PitchStep ==
  ASSUME TypeOK, CollectInv, do_pitch
  PROVE  TypeOK' /\ CollectInv' /\ stage' = "collect"
<1>0. PICK n \in Nat : n = Len(ev)  BY LenProperties DEF TypeOK
<1>1. PICK s \in Time, t \in Time, k \in Note :
        LET on == Len(ev) + 1
            off == Len(ev) + 2
            all == ev \o <<[note_on(s, k) EXCEPT !.partner = off],
                          [note_off(t, k) EXCEPT !.partner = on, !.irregular = s = t]>>
        IN /\ s <= t
           /\ ev' = all
           /\ eseq' = Insert(Insert(eseq, last_ep, all, on), on, all, off)
           /\ last_ep' = off
  BY DEF do_pitch
<1>. DEFINE x == [note_on(s, k) EXCEPT !.partner = n + 2]
            y == [note_off(t, k) EXCEPT !.partner = n + 1, !.irregular = s = t]
            u == <<x, y>>
<1>2. /\ s <= t /\ ev' = ev \o u
      /\ eseq' = Insert(Insert(eseq, last_ep, ev', n + 1), n + 1, ev', n + 2)
      /\ last_ep' = n + 2
  BY <1>0, <1>1
<1>3. s \in Nat /\ t \in Nat /\ n + 1 \in Nat /\ n + 2 \in Nat  BY BoundAssumption DEF Time
<1>4. /\ x \in Event /\ y \in Event
      /\ x.type = "on" /\ x.note = k /\ x.partner = n + 2 /\ x.time = s
      /\ y.type = "off" /\ y.note = k /\ y.partner = n + 1 /\ y.time = t
      /\ y.irregular <=> s = t
  BY <1>3 DEF note_on, note_off, Event, NULL
<1>. HIDE DEF x, y
<1>5. u \in Seq(Event) /\ Len(u) = 2 /\ u[1] = x /\ u[2] = y  BY <1>4
<1>. HIDE DEF u
<1>6. /\ ev' \in Seq(Event) /\ Len(ev') = n + 2 /\ ev'[n+1] = x /\ ev'[n+2] = y
      /\ \A i \in 1..n : ev'[i] = ev[i]
  <2>1. /\ ev \o u \in Seq(Event) /\ Len(ev \o u) = Len(ev) + Len(u)
        /\ \A i \in 1..(Len(ev) + Len(u)) :
             (ev \o u)[i] = IF i <= Len(ev) THEN ev[i] ELSE u[i - Len(ev)]
    BY <1>5, ConcatProperties DEF TypeOK
  <2>2. /\ ev' \in Seq(Event) /\ Len(ev') = n + 2
        /\ \A i \in 1..(n + 2) : ev'[i] = IF i <= n THEN ev[i] ELSE u[i - n]
    BY <1>0, <1>2, <1>5, <2>1
  <2>3. n + 1 \in 1..(n+2) /\ n + 2 \in 1..(n+2) /\ (n + 1) - n = 1 /\ (n + 2) - n = 2
        /\ ~(n + 1 <= n) /\ ~(n + 2 <= n)
    OBVIOUS
  <2>4. \A i \in 1..n : i \in 1..(n+2) /\ i <= n  OBVIOUS
  <2>. QED  BY <1>5, <2>2, <2>3, <2>4
<1>7. \A i \in 1..(n+2) : ev'[i] \in Event  BY <1>6, ElementOfSeq
<1>8. Collected(ev', eseq, n) /\ AtEnd(eseq, n, last_ep)
  BY <1>0, <1>6, CollectedSame DEF CollectInv, Collected, do_pitch
<1>. DEFINE q == Insert(eseq, last_ep, ev', n + 1)
<1>9. q \in Seq(Seq(Nat)) /\ Collected(ev', q, n + 1) /\ AtEnd(q, n + 1, n + 1)
  <2>1. \A i \in 1..(n+1) : ev'[i] \in Event  BY <1>7
  <2>. QED  BY <1>8, <2>1, InsertKeeps DEF TypeOK
<1>. HIDE DEF q
<1>10. eseq' = Insert(q, n + 1, ev', (n + 1) + 1)
  <2>1. (n + 1) + 1 = n + 2  OBVIOUS
  <2>. QED  BY <1>2, <2>1 DEF q
<1>11. /\ eseq' \in Seq(Seq(Nat)) /\ Collected(ev', eseq', n + 2)
       /\ AtEnd(eseq', n + 2, n + 2)
  <2>1. \A i \in 1..((n+1)+1) : ev'[i] \in Event  BY <1>7
  <2>2. sort_by_priority \in BOOLEAN  BY DEF TypeOK
  <2>3. /\ eseq' \in Seq(Seq(Nat)) /\ Collected(ev', eseq', (n + 1) + 1)
        /\ AtEnd(eseq', (n + 1) + 1, (n + 1) + 1)
    BY <1>3, <1>9, <1>10, <2>1, <2>2, InsertKeeps
  <2>4. (n + 1) + 1 = n + 2  OBVIOUS
  <2>. QED  BY <2>3, <2>4
<1>12. TypeOK'  BY <1>2, <1>3, <1>6, <1>11 DEF TypeOK, do_pitch, pairVars
<1>13. Raw(ev)'
  <2>1. Pitch(ev', n + 1)
    <3>1. (n + 1) + 1 = n + 2 /\ n + 2 \in 1..(n+2)  OBVIOUS
    <3>. QED  BY <1>2, <1>4, <1>6, <3>1 DEF Pitch
  <2>2. ASSUME NEW i \in 1..(n+2)
        PROVE  /\ ev'[i].type # "ctrl" => ev'[i].note \in Note
               /\ ev'[i].type = "off" /\ ev'[i].partner = NULL => ev'[i].irregular
               /\ ev'[i].partner # NULL => Pitch(ev', i) \/ (i # 1 /\ Pitch(ev', i - 1))
    <3>1. CASE i \in 1..n
      <4>1. Len(ev') \in Nat /\ n <= Len(ev') /\ Raw(ev)
        BY <1>6 DEF CollectInv, do_pitch
      <4>. QED  BY <1>0, <1>6, <3>1, <4>1, RawSame
    <3>2. CASE i = n + 1  BY <1>4, <1>6, <2>1, <3>2
    <3>3. CASE i = n + 2
      <4>1. i # 1 /\ i - 1 = n + 1 /\ n + 1 # NULL  BY <3>3 DEF NULL
      <4>. QED  BY <1>4, <1>6, <2>1, <3>3, <4>1
    <3>. QED  BY <3>1, <3>2, <3>3
  <2>3. ASSUME NEW i  PROVE Pitch(ev, i)' <=> Pitch(ev', i)  BY DEF Pitch
  <2>. QED  BY <1>6, <2>2, <2>3 DEF Raw
<1>14. stage' = "collect" /\ sort_by_priority' = sort_by_priority  BY DEF do_pitch
<1>15. Collected(ev, eseq, Len(ev))'  BY <1>6, <1>11, <1>14, CollectedNext
<1>16. AtEnd(eseq, Len(ev), last_ep)'  BY <1>2, <1>6, <1>11 DEF AtEnd
<1>. QED  BY <1>12, <1>13, <1>14, <1>15, <1>16 DEF CollectInv

LEMMA SortStep ==
  ASSUME TypeOK, CollectInv, begin_sort \/ sort_event
  PROVE  TypeOK' /\ CollectInv' /\ stage' = "sort"
<1>1. CASE begin_sort
  <2>1. UNCHANGED <<ev, eseq, last_ep, sort_by_priority, pairVars>>
        /\ stage = "collect" /\ stage' = "sort"
    BY <1>1 DEF begin_sort
  <2>2. TypeOK'  BY <2>1 DEF TypeOK, pairVars
  <2>3. Raw(ev)' /\ Collected(ev, eseq, Len(ev))'
    <3>1. Collected(ev', eseq', Len(ev'))  BY <2>1 DEF CollectInv
    <3>2. Raw(ev)'
      <4>1. Raw(ev)  BY <2>1 DEF CollectInv
      <4>. QED  BY <2>1, <4>1 DEF Raw, Pitch
    <3>. QED  BY <2>1, <3>1, <3>2, CollectedNext
  <2>. QED  BY <2>1, <2>2, <2>3 DEF CollectInv
<1>2. CASE sort_event
  <2>1. UNCHANGED <<ev, last_ep, sort_by_priority, stage, pairVars>> /\ stage = "sort"
    BY <1>2 DEF sort_event
  <2>0. PICK n \in Nat, c \in Nat : n = Len(ev) /\ c = Len(eseq)
    BY LenProperties DEF TypeOK
  <2>. DEFINE d == (c + 1) \div 2
  <2>2. eseq' = [k \in 1..d |-> IF 2 * k <= c THEN Merge(eseq[2 * k - 1], eseq[2 * k])
                                ELSE eseq[2 * k - 1]]
    BY <1>2, <2>0 DEF sort_event
  <2>3. d \in Nat  OBVIOUS
  <2>. HIDE DEF d
  <2>4. Raw(ev) /\ Collected(ev, eseq, n) /\ \A e \in 1..n : ev[e] \in Event
    BY <2>0, <2>1, ElementOfSeq DEF CollectInv, TypeOK
  <2>5. ASSUME NEW k \in 1..d  PROVE eseq'[k] \in Seq(Nat)
    <3>0. 2 * k - 1 \in 1..c  BY DEF d
    <3>1. CASE 2 * k <= c
      <4>1. 2 * k \in 1..c /\ 2 * k - 1 < 2 * k  BY <3>0, <3>1
      <4>2. eseq[2 * k - 1] \in Seq(Nat) /\ eseq[2 * k] \in Seq(Nat)
        BY <2>0, <3>0, <4>1, ElementOfSeq DEF TypeOK
      <4>3. Mergeable(eseq[2 * k - 1], eseq[2 * k], n)
        BY <2>0, <2>4, <3>0, <4>1 DEF Collected, Ranged, Ranked, Apart, Mergeable
      <4>4. Merge(eseq[2 * k - 1], eseq[2 * k]) \in Seq(Nat)
        BY <2>4, <4>2, <4>3, MergeIs DEF TypeOK
      <4>. QED  BY <2>2, <3>1, <4>4
    <3>2. CASE ~(2 * k <= c)
      <4>1. eseq[2 * k - 1] \in Seq(Nat)  BY <2>0, <3>0, ElementOfSeq DEF TypeOK
      <4>. QED  BY <2>2, <3>2, <4>1
    <3>. QED  BY <3>1, <3>2
  <2>6. eseq' \in Seq(Seq(Nat)) /\ Len(eseq') = d
    <3>1. eseq' \in [1..d -> Seq(Nat)]  BY <2>2, <2>5
    <3>. QED  BY <2>3, <3>1
  <2>7. Passed(eseq, eseq')
    <3>1. ASSUME NEW k \in 1..d
          PROVE  \/ 2 * k <= c /\ eseq'[k] = Merge(eseq[2 * k - 1], eseq[2 * k])
                 \/ 2 * k > c /\ eseq'[k] = eseq[2 * k - 1]
      <4>1. 2 * k <= c \/ 2 * k > c  OBVIOUS
      <4>. QED  BY <2>2, <4>1
    <3>. QED  BY <2>0, <2>6, <3>1 DEF Passed, d
  <2>8. Collected(ev, eseq', n)  BY <2>4, <2>6, <2>7, PassKeeps DEF TypeOK
  <2>9. Collected(ev, eseq, Len(ev))'  BY <2>0, <2>1, <2>8, CollectedNext
  <2>10. Raw(ev)'  BY <2>1, <2>4 DEF Raw, Pitch
  <2>11. TypeOK'  BY <2>1, <2>6 DEF TypeOK, pairVars
  <2>. QED  BY <2>1, <2>9, <2>10, <2>11 DEF CollectInv
<1>. QED  BY <1>1, <1>2

-----------------------------------------------------------------------------
(* Pairing.  The place of each event in a list of n events.                *)
Placing(l, p, n) ==
  /\ p \in [1..n -> 1..n] /\ Len(l) = n
  /\ \A i \in 1..n : l[i] \in 1..n /\ p[l[i]] = i
  /\ \A e \in 1..n : l[p[e]] = e

LEMMA PlacingExists ==
  ASSUME NEW n \in Nat, NEW l \in Seq(Nat), \A i \in 1..Len(l) : l[i] \in 1..n,
         \A i, j \in 1..Len(l) : l[i] = l[j] => i = j,
         \A e \in 1..n : \E i \in 1..Len(l) : l[i] = e
  PROVE  \E p : Placing(l, p, n)
<1>1. Len(l) = n  BY Listing
<1>. DEFINE p == [e \in 1..n |-> CHOOSE i \in 1..n : l[i] = e]
<1>2. ASSUME NEW e \in 1..n  PROVE p[e] \in 1..n /\ l[p[e]] = e
  <2>1. \E i \in 1..n : l[i] = e  BY <1>1
  <2>. QED  BY <2>1
<1>3. ASSUME NEW i \in 1..n  PROVE l[i] \in 1..n /\ p[l[i]] = i
  <2>1. l[i] \in 1..n  BY <1>1
  <2>2. p[l[i]] \in 1..n /\ l[p[l[i]]] = l[i]  BY <1>2, <2>1
  <2>. QED  BY <1>1, <2>1, <2>2
<1>4. p \in [1..n -> 1..n]  BY <1>2
<1>. HIDE DEF p
<1>. QED  BY <1>1, <1>2, <1>3, <1>4 DEF Placing

(* e is pending at position z: processed and in a chain of the note table. *)
Pending(all, p, z, e) ==
  /\ all[e].type = "on" /\ p[e] < z
  /\ all[e].partner = NULL \/ all[all[e].partner].type = "on"
Couple(all, p, f, e) ==
  /\ f \in 1..Len(all) /\ e \in 1..Len(all)
  /\ all[f].type = "on" /\ all[e].type = "off" /\ all[f].note = all[e].note
  /\ all[f].partner = e /\ all[e].partner = f
  /\ p[f] < p[e] /\ (all[e].irregular <=> all[f].time = all[e].time)

Timed(all, p) ==
  \A e, f \in 1..Len(all) : p[e] < p[f] => all[e].time <= all[f].time
Coupled(all, p, z) ==
  \A e \in 1..Len(all) :
    /\ all[e].type # "ctrl" => all[e].note \in Note
    /\ all[e].type = "off" /\ all[e].partner = NULL => all[e].irregular
    /\ all[e].type = "off" /\ all[e].partner # NULL => Couple(all, p, all[e].partner, e)
    /\ all[e].type = "on" /\ all[e].partner # NULL =>
         Couple(all, p, e, all[e].partner) \/ Pending(all, p, z, e)

(* The chain of a note has its pending events, the latest first.           *)
Tops(all, p, z, tbl) ==
  \A k \in Note : tbl[k] # NULL =>
    tbl[k] \in 1..Len(all) /\ Pending(all, p, z, tbl[k]) /\ all[tbl[k]].note = k
BelowTop(all, p, z, tbl) ==
  \A e \in 1..Len(all) : Pending(all, p, z, e) =>
    tbl[all[e].note] # NULL /\ p[e] <= p[tbl[all[e].note]]
Links(all, p, z) ==
  \A e \in 1..Len(all) : Pending(all, p, z, e) /\ all[e].partner # NULL =>
    LET f == all[e].partner IN
    f \in 1..Len(all) /\ Pending(all, p, z, f) /\ all[f].note = all[e].note /\ p[f] < p[e]
NoneSkipped(all, p, z) ==
  \A e, f \in 1..Len(all) :
    /\ Pending(all, p, z, e) /\ Pending(all, p, z, f)
    /\ all[f].note = all[e].note /\ p[f] < p[e]
    => all[e].partner # NULL /\ p[f] <= p[all[e].partner]
Chained(all, p, z, tbl) ==
  Tops(all, p, z, tbl) /\ BelowTop(all, p, z, tbl) /\ Links(all, p, z) /\ NoneSkipped(all, p, z)
PendingSet(all, p, z) == {e \in 1..Len(all) : Pending(all, p, z, e)}
Counted(all, p, z, np) == Cardinality(PendingSet(all, p, z)) <= np

(* The insertion point is at the time of the next event, while notes are   *)
(* pending.                                                                *)
TopInTime(all, l, t, z, np) ==
  /\ t <= z /\ z <= Len(all) + 1
  /\ np # 0 /\ z <= Len(all) => all[l[t]].time = all[l[z]].time

(* Events before and after a step, whose kinds, times and notes remain.    *)
Alike(all, all2) ==
  /\ all \in Seq(Event) /\ all2 \in Seq(Event) /\ Len(all2) = Len(all)
  /\ \A e \in 1..Len(all) : /\ all2[e].type = all[e].type /\ all2[e].time = all[e].time
                            /\ all2[e].note = all[e].note

(* The other events keep their order when x, at place z, moves or stays.   *)
SameOrder(p, p2, n, z, x) ==
  /\ p \in [1..n -> 1..n] /\ p2 \in [1..n -> 1..n]
  /\ \A e, f \in 1..n : p[e] = p[f] => e = f
  /\ \A e, f \in (1..n) \ {x} : p2[e] < p2[f] <=> p[e] < p[f]
  /\ \A e \in 1..n : p2[e] < z + 1 <=> p[e] < z + 1

Retabled(tbl, tbl2, k, v) ==
  /\ tbl \in [Note -> Nat] /\ tbl2 \in [Note -> Nat]
  /\ \A l \in Note : tbl2[l] = IF l = k THEN v ELSE tbl[l]

LinkedTo(all, all2, n, x, v) ==
  \A e \in 1..n : /\ all2[e].irregular = all[e].irregular
                  /\ all2[e].partner = IF e = x THEN v ELSE all[e].partner

PendChange(all, all2, n, z, x, p, tbl, tbl2) ==
  /\ n = Len(all) /\ n \in Nat /\ Alike(all, all2)
  /\ z \in 1..n /\ x \in 1..n /\ SameOrder(p, p, n, z, x) /\ p[x] = z
  /\ all[x].type = "on" /\ all[x].partner = NULL
  /\ Retabled(tbl, tbl2, all[x].note, x) /\ LinkedTo(all, all2, n, x, tbl[all[x].note])
  /\ Coupled(all, p, z) /\ Chained(all, p, z, tbl)

(* An isolated note-on goes to the top of its chain.                       *)
LEMMA PendPairs ==
  ASSUME NEW all, NEW all2, NEW n, NEW z, NEW x, NEW p, NEW tbl, NEW tbl2,
         PendChange(all, all2, n, z, x, p, tbl, tbl2)
  PROVE  /\ Coupled(all2, p, z + 1)
         /\ Chained(all2, p, z + 1, tbl2)
         /\ \A e \in 1..n : Pending(all2, p, z + 1, e) <=> Pending(all, p, z, e) \/ e = x
         /\ ~Pending(all, p, z, x)
<1>. DEFINE k == all[x].note
            v == tbl[k]
<1>. USE DEF LinkedTo, PendChange
<1>0. p \in [1..n -> 1..n] /\ \A e, f \in 1..n : p[e] = p[f] => e = f  BY DEF SameOrder
<1>1. k \in Note  BY DEF Coupled
<1>2. tbl[k] # NULL =>
        tbl[k] \in 1..n /\ Pending(all, p, z, tbl[k]) /\ all[tbl[k]].note = k
  BY <1>1 DEF Chained, Tops
<1>3. ~Pending(all, p, z, x)  BY DEF Pending
<1>4. \A e \in 1..n : p[e] \in 1..n /\ (p[e] < z + 1 <=> p[e] < z \/ e = x)
  <2>1. ASSUME NEW e \in 1..n  PROVE p[e] \in 1..n /\ (p[e] < z + 1 <=> p[e] < z \/ p[e] = z)
    <3>1. p[e] \in 1..n  BY <1>0
    <3>. QED  BY <3>1
  <2>2. \A e \in 1..n : p[e] = z <=> e = x  BY <1>0
  <2>. QED  BY <2>1, <2>2
<1>5. Len(all2) = n /\ 1..Len(all) = 1..n  BY DEF Alike
<1>6. /\ \A e \in 1..n : /\ all2[e].type = all[e].type /\ all2[e].time = all[e].time
                         /\ all2[e].note = all[e].note
  BY DEF Alike
<1>7. ASSUME NEW e \in 1..n, all[e].type = "on", all[e].partner # NULL
      PROVE  all[e].partner \in 1..n
  <2>1. CASE Couple(all, p, e, all[e].partner)  BY <1>5, <2>1 DEF Couple
  <2>2. CASE Pending(all, p, z, e)  BY <1>5, <1>7, <2>2 DEF Chained, Links
  <2>. QED  BY <1>5, <1>7, <2>1, <2>2 DEF Coupled
<1>8. ASSUME NEW e \in 1..n
      PROVE  Pending(all2, p, z + 1, e) <=> Pending(all, p, z, e) \/ e = x
  <2>1. CASE e = x
    <3>1. all2[x].partner = tbl[k] /\ all2[x].type = "on"  BY <1>6
    <3>2. tbl[k] # NULL => all2[tbl[k]].type = "on"  BY <1>2, <1>6 DEF Pending
    <3>. QED  BY <1>4, <2>1, <3>1, <3>2 DEF Pending
  <2>2. CASE e # x
    <3>1. all2[e].partner = all[e].partner /\ all2[e].type = all[e].type  BY <1>6, <2>2
    <3>2. all[e].type = "on" /\ all[e].partner # NULL =>
            all2[all[e].partner].type = all[all[e].partner].type
      BY <1>6, <1>7
    <3>3. p[e] < z + 1 <=> p[e] < z  BY <1>4, <2>2
    <3>. QED  BY <2>2, <3>1, <3>2, <3>3 DEF Pending
  <2>. QED  BY <2>1, <2>2
<1>9. ASSUME NEW f \in 1..n, NEW e \in 1..n, Couple(all, p, f, e)  PROVE Couple(all2, p, f, e)
  <2>1. f # x /\ e # x  BY <1>9 DEF Couple, NULL
  <2>. QED  BY <1>5, <1>6, <1>9, <2>1 DEF Couple
<1>10. Coupled(all2, p, z + 1)
  <2>1. ASSUME NEW e \in 1..n
        PROVE  /\ all2[e].type # "ctrl" => all2[e].note \in Note
               /\ all2[e].type = "off" /\ all2[e].partner = NULL => all2[e].irregular
               /\ all2[e].type = "off" /\ all2[e].partner # NULL =>
                    Couple(all2, p, all2[e].partner, e)
               /\ all2[e].type = "on" /\ all2[e].partner # NULL =>
                    Couple(all2, p, e, all2[e].partner) \/ Pending(all2, p, z + 1, e)
    <3>1. all2[e].type # "ctrl" => all2[e].note \in Note  BY <1>5, <1>6 DEF Coupled
    <3>2. all2[e].type = "off" /\ all2[e].partner = NULL => all2[e].irregular
      BY <1>5, <1>6 DEF Coupled
    <3>3. all2[e].type = "off" /\ all2[e].partner # NULL => Couple(all2, p, all2[e].partner, e)
      <4>1. ASSUME all2[e].type = "off", all2[e].partner # NULL
            PROVE  Couple(all2, p, all2[e].partner, e)
        <5>1. e # x /\ all2[e].partner = all[e].partner  BY <1>6, <4>1
        <5>2. Couple(all, p, all[e].partner, e)  BY <1>5, <1>6, <4>1, <5>1 DEF Coupled
        <5>3. all[e].partner \in 1..n  BY <1>5, <5>2 DEF Couple
        <5>. QED  BY <1>9, <5>1, <5>2, <5>3
      <4>. QED  BY <4>1
    <3>4. all2[e].type = "on" /\ all2[e].partner # NULL =>
            Couple(all2, p, e, all2[e].partner) \/ Pending(all2, p, z + 1, e)
      <4>1. CASE e = x  BY <1>8, <4>1
      <4>2. ASSUME e # x, all2[e].type = "on", all2[e].partner # NULL
            PROVE  Couple(all2, p, e, all2[e].partner) \/ Pending(all2, p, z + 1, e)
        <5>1. all2[e].partner = all[e].partner /\ all[e].type = "on"  BY <1>6, <4>2
        <5>2. Couple(all, p, e, all[e].partner) \/ Pending(all, p, z, e)
          BY <1>5, <4>2, <5>1 DEF Coupled
        <5>3. all[e].partner \in 1..n  BY <1>7, <4>2, <5>1
        <5>. QED  BY <1>8, <1>9, <5>1, <5>2, <5>3
      <4>. QED  BY <4>1, <4>2
    <3>. QED  BY <3>1, <3>2, <3>3, <3>4
  <2>. QED  BY <1>5, <2>1 DEF Coupled
<1>11. tbl2[k] = x /\ \A l \in Note : l # k => tbl2[l] = tbl[l]  BY <1>1 DEF Retabled
<1>12. \A e \in 1..n : Pending(all, p, z, e) => p[e] < p[x]  BY DEF Pending
<1>13. Tops(all2, p, z + 1, tbl2)
  <2>1. ASSUME NEW l \in Note, tbl2[l] # NULL
        PROVE  /\ tbl2[l] \in 1..n /\ Pending(all2, p, z + 1, tbl2[l])
               /\ all2[tbl2[l]].note = l
    <3>1. CASE l = k  BY <1>6, <1>8, <1>11, <3>1
    <3>2. CASE l # k
      <4>1. tbl[l] \in 1..n /\ Pending(all, p, z, tbl[l]) /\ all[tbl[l]].note = l
        BY <1>5, <1>11, <2>1, <3>2 DEF Chained, Tops
      <4>. QED  BY <1>6, <1>8, <1>11, <3>2, <4>1
    <3>. QED  BY <3>1, <3>2
  <2>. QED  BY <1>5, <2>1 DEF Tops
<1>14. BelowTop(all2, p, z + 1, tbl2)
  <2>1. ASSUME NEW e \in 1..n, Pending(all2, p, z + 1, e)
        PROVE  tbl2[all2[e].note] # NULL /\ p[e] <= p[tbl2[all2[e].note]]
    <3>1. all2[e].note = all[e].note /\ x # NULL  BY <1>6 DEF NULL
    <3>2. all[e].note \in Note
      <4>1. all[e].type = "on"  BY <1>6, <2>1 DEF Pending
      <4>. QED  BY <1>5, <4>1 DEF Coupled
    <3>3. CASE all[e].note = k
      <4>1. p[e] <= p[x]  BY <1>4, <1>8, <1>12, <2>1
      <4>. QED  BY <1>11, <3>1, <3>3, <4>1
    <3>4. CASE all[e].note # k
      <4>1. Pending(all, p, z, e)  BY <1>8, <2>1, <3>4
      <4>2. tbl[all[e].note] # NULL /\ p[e] <= p[tbl[all[e].note]]
        BY <1>5, <4>1 DEF Chained, BelowTop
      <4>. QED  BY <1>11, <3>1, <3>2, <3>4, <4>2
    <3>. QED  BY <3>3, <3>4
  <2>. QED  BY <1>5, <2>1 DEF BelowTop
<1>15. Links(all2, p, z + 1)
  <2>1. ASSUME NEW e \in 1..n, Pending(all2, p, z + 1, e), all2[e].partner # NULL
        PROVE  /\ all2[e].partner \in 1..n /\ Pending(all2, p, z + 1, all2[e].partner)
               /\ all2[all2[e].partner].note = all2[e].note /\ p[all2[e].partner] < p[e]
    <3>1. CASE e = x
      <4>1. all2[e].partner = tbl[k]  BY <3>1
      <4>2. tbl[k] \in 1..n /\ Pending(all, p, z, tbl[k]) /\ all[tbl[k]].note = k
        BY <1>2, <2>1, <4>1
      <4>. QED  BY <1>6, <1>8, <1>12, <3>1, <4>1, <4>2
    <3>2. CASE e # x
      <4>1. Pending(all, p, z, e) /\ all2[e].partner = all[e].partner  BY <1>8, <2>1, <3>2
      <4>2. /\ all[e].partner \in 1..n /\ Pending(all, p, z, all[e].partner)
            /\ all[all[e].partner].note = all[e].note /\ p[all[e].partner] < p[e]
        BY <1>5, <2>1, <4>1 DEF Chained, Links
      <4>. QED  BY <1>6, <1>8, <4>1, <4>2
    <3>. QED  BY <3>1, <3>2
  <2>. QED  BY <1>5, <2>1 DEF Links
<1>16. NoneSkipped(all2, p, z + 1)
  <2>1. ASSUME NEW e \in 1..n, NEW f \in 1..n, Pending(all2, p, z + 1, e),
               Pending(all2, p, z + 1, f), all2[f].note = all2[e].note, p[f] < p[e]
        PROVE  all2[e].partner # NULL /\ p[f] <= p[all2[e].partner]
    <3>1. Pending(all, p, z, f) /\ all[f].note = all[e].note
      <4>1. f # x
        <5>1. e = x \/ p[e] < p[x]  BY <1>8, <1>12, <2>1
        <5>2. f = x => p[x] < p[e]  BY <2>1
        <5>. QED  BY <1>4, <5>1, <5>2
      <4>. QED  BY <1>6, <1>8, <2>1, <4>1
    <3>2. CASE e = x
      <4>1. all2[e].partner = tbl[k]  BY <3>2
      <4>2. tbl[all[f].note] # NULL /\ p[f] <= p[tbl[all[f].note]]
        BY <1>5, <3>1 DEF Chained, BelowTop
      <4>. QED  BY <3>1, <3>2, <4>1, <4>2
    <3>3. CASE e # x
      <4>1. Pending(all, p, z, e) /\ all2[e].partner = all[e].partner  BY <1>8, <2>1, <3>3
      <4>. QED  BY <1>5, <2>1, <3>1, <4>1 DEF Chained, NoneSkipped
    <3>. QED  BY <3>2, <3>3
  <2>. QED  BY <1>5, <2>1 DEF NoneSkipped
<1>. QED  BY <1>3, <1>8, <1>10, <1>13, <1>14, <1>15, <1>16 DEF Chained

CoupledTo(all, all2, n, x, on) ==
  \A e \in 1..n :
    /\ all2[e].irregular = IF e = x /\ all[x].time # all[on].time THEN FALSE
                           ELSE all[e].irregular
    /\ all2[e].partner = IF e = on THEN x ELSE IF e = x THEN on ELSE all[e].partner

PairChange(all, all2, n, z, x, p, p2, tbl, tbl2, on) ==
  /\ n = Len(all) /\ n \in Nat /\ Alike(all, all2)
  /\ z \in 1..n /\ x \in 1..n /\ SameOrder(p, p2, n, z, x) /\ p[x] = z
  /\ on = tbl[all[x].note] /\ on # NULL /\ p2[on] < p2[x]
  /\ all[x].type = "off" /\ all[x].partner = NULL
  /\ Retabled(tbl, tbl2, all[x].note, all[on].partner) /\ CoupledTo(all, all2, n, x, on)
  /\ Coupled(all, p, z) /\ Chained(all, p, z, tbl)

(* An isolated note-off takes the note-on at the top of its chain.         *)
LEMMA PairPairs ==
  ASSUME NEW all, NEW all2, NEW n, NEW z, NEW x, NEW p, NEW p2, NEW tbl, NEW tbl2, NEW on,
         PairChange(all, all2, n, z, x, p, p2, tbl, tbl2, on)
  PROVE  /\ Coupled(all2, p2, z + 1)
         /\ Chained(all2, p2, z + 1, tbl2)
         /\ \A e \in 1..n : Pending(all2, p2, z + 1, e) <=> Pending(all, p, z, e) /\ e # on
         /\ on \in 1..n /\ Pending(all, p, z, on)
<1>. DEFINE k == all[x].note
<1>. USE DEF PairChange
<1>1. k \in Note  BY DEF Coupled
<1>2. on \in 1..n /\ Pending(all, p, z, on) /\ all[on].note = k
  BY <1>1 DEF Chained, Tops
<1>3. on # x /\ x # NULL /\ \A e \in 1..n : Pending(all, p, z, e) => e # x
  <2>1. \A e \in 1..n : Pending(all, p, z, e) => e # x  BY DEF Pending
  <2>2. x # NULL  BY DEF NULL
  <2>. QED  BY <1>2, <2>1, <2>2
<1>4. \A e \in 1..n : p[e] \in 1..n /\ p2[e] \in 1..n /\ (p2[e] < z + 1 <=> p[e] < z \/ e = x)
  <2>1. ASSUME NEW e \in 1..n
        PROVE  p[e] \in 1..n /\ p2[e] \in 1..n /\ (p2[e] < z + 1 <=> p[e] < z \/ p[e] = z)
    <3>1. p[e] \in 1..n /\ p2[e] \in 1..n /\ (p2[e] < z + 1 <=> p[e] < z + 1)
      BY DEF SameOrder
    <3>. QED  BY <3>1
  <2>2. \A e \in 1..n : p[e] = z => e = x  BY DEF SameOrder
  <2>. QED  BY <2>1, <2>2
<1>5. Len(all2) = n /\ 1..Len(all) = 1..n  BY DEF Alike
<1>6. /\ \A e \in 1..n : /\ all2[e].type = all[e].type /\ all2[e].time = all[e].time
                         /\ all2[e].note = all[e].note
  BY DEF Alike
<1>c. \A e \in 1..n :
        /\ all2[e].irregular = IF e = x /\ all[x].time # all[on].time THEN FALSE
                               ELSE all[e].irregular
        /\ all2[e].partner = IF e = on THEN x ELSE IF e = x THEN on ELSE all[e].partner
  BY DEF CoupledTo
<1>o. \A e, f \in 1..n : e # x /\ f # x => /\ p2[e] < p2[f] <=> p[e] < p[f]
                                           /\ p2[e] <= p2[f] <=> p[e] <= p[f]
  <2>1. ASSUME NEW e \in 1..n, NEW f \in 1..n, e # x, f # x
        PROVE  /\ p2[e] < p2[f] <=> p[e] < p[f]
               /\ p2[e] <= p2[f] <=> p[e] <= p[f]
    <3>1. (p2[e] < p2[f] <=> p[e] < p[f]) /\ (p2[f] < p2[e] <=> p[f] < p[e])
      BY <2>1 DEF SameOrder
    <3>. QED  BY <1>4, <3>1
  <2>. QED  BY <2>1
<1>7. ASSUME NEW e \in 1..n, all[e].type = "on", all[e].partner # NULL
      PROVE  all[e].partner \in 1..n
  <2>1. CASE Couple(all, p, e, all[e].partner)  BY <1>5, <2>1 DEF Couple
  <2>2. CASE Pending(all, p, z, e)  BY <1>5, <1>7, <2>2 DEF Chained, Links
  <2>. QED  BY <1>5, <1>7, <2>1, <2>2 DEF Coupled
<1>8. ASSUME NEW e \in 1..n
      PROVE  Pending(all2, p2, z + 1, e) <=> Pending(all, p, z, e) /\ e # on
  <2>1. CASE e = on
    <3>1. all2[on].partner = x /\ all2[x].type = "off"  BY <1>2, <1>6, <1>c
    <3>. QED  BY <1>3, <2>1, <3>1 DEF Pending
  <2>2. CASE e # on
    <3>1. CASE all[e].type # "on"  BY <1>6, <1>c, <3>1 DEF Pending
    <3>2. CASE all[e].type = "on"
      <4>1. e # x /\ all2[e].partner = all[e].partner /\ all2[e].type = "on"
        BY <1>6, <1>c, <2>2, <3>2
      <4>2. all[e].partner # NULL => all2[all[e].partner].type = all[all[e].partner].type
        BY <1>6, <1>c, <1>7, <3>2
      <4>3. p2[e] < z + 1 <=> p[e] < z  BY <1>4, <4>1
      <4>. QED  BY <2>2, <3>2, <4>1, <4>2, <4>3 DEF Pending
    <3>. QED  BY <3>1, <3>2
  <2>. QED  BY <2>1, <2>2
<1>9. ASSUME NEW f \in 1..n, NEW e \in 1..n, Couple(all, p, f, e)
      PROVE  Couple(all2, p2, f, e) /\ f # on /\ e # x
  <2>0. /\ all[f].type = "on" /\ all[e].type = "off" /\ all[e].partner = f /\ f # NULL
    BY <1>9 DEF Couple, NULL
  <2>1. f # x /\ e # x /\ e # on
    <3>1. all[on].type = "on"  BY <1>2 DEF Pending
    <3>. QED  BY <2>0, <3>1
  <2>2. f # on
    <3>1. all[f].partner = e /\ e # NULL /\ all[e].type = "off"  BY <1>9 DEF Couple, NULL
    <3>2. all[on].partner = NULL \/ all[all[on].partner].type = "on"  BY <1>2 DEF Pending
    <3>. QED  BY <3>1, <3>2
  <2>3. p2[f] < p2[e]  BY <1>9, <1>o, <2>1 DEF Couple
  <2>. QED  BY <1>5, <1>6, <1>c, <1>9, <2>1, <2>2, <2>3 DEF Couple
<1>10. Couple(all2, p2, on, x)
  <2>1. all2[on].partner = x /\ all2[x].partner = on  BY <1>2, <1>3, <1>c
  <2>2. all[x].irregular  BY <1>5 DEF Coupled
  <2>3. all2[x].irregular <=> all2[on].time = all2[x].time
    <3>1. all2[on].time = all[on].time /\ all2[x].time = all[x].time  BY <1>2, <1>6, <1>c
    <3>2. CASE all[x].time # all[on].time
      <4>1. all2[x].irregular = FALSE  BY <3>2, <1>c
      <4>. QED  BY <3>1, <3>2, <4>1
    <3>3. CASE all[x].time = all[on].time
      <4>1. all2[x].irregular = all[x].irregular  BY <3>3, <1>c
      <4>. QED  BY <2>2, <3>1, <3>3, <4>1
    <3>. QED  BY <3>2, <3>3
  <2>4. p2[on] < p2[x] /\ all2[on].type = "on" /\ all2[x].type = "off"
        /\ all2[on].note = all2[x].note
    BY <1>2, <1>6, <1>c DEF Pending
  <2>. QED  BY <1>2, <1>5, <2>1, <2>3, <2>4 DEF Couple
<1>11. Coupled(all2, p2, z + 1)
  <2>1. ASSUME NEW e \in 1..n
        PROVE  /\ all2[e].type # "ctrl" => all2[e].note \in Note
               /\ all2[e].type = "off" /\ all2[e].partner = NULL => all2[e].irregular
               /\ all2[e].type = "off" /\ all2[e].partner # NULL =>
                    Couple(all2, p2, all2[e].partner, e)
               /\ all2[e].type = "on" /\ all2[e].partner # NULL =>
                    Couple(all2, p2, e, all2[e].partner) \/ Pending(all2, p2, z + 1, e)
    <3>1. all2[e].type # "ctrl" => all2[e].note \in Note  BY <1>5, <1>6, <1>c DEF Coupled
    <3>2. all2[e].type = "off" /\ all2[e].partner = NULL => all2[e].irregular
      <4>1. all2[e].type = "off" /\ all2[e].partner = NULL =>
              e # x /\ e # on /\ all[e].partner = NULL /\ all[e].type = "off"
        BY <1>3, <1>6, <1>c
      <4>2. all2[e].type = "off" /\ all2[e].partner = NULL => all[e].irregular
        BY <1>5, <4>1 DEF Coupled
      <4>. QED  BY <1>c, <4>1, <4>2
    <3>3. ASSUME all2[e].type = "off", all2[e].partner # NULL
          PROVE  Couple(all2, p2, all2[e].partner, e)
      <4>1. CASE e = x  BY <1>2, <1>3, <1>10, <1>c, <4>1
      <4>2. CASE e # x
        <5>1. e # on /\ all[e].type = "off"  BY <1>2, <1>6, <1>c, <3>3 DEF Pending
        <5>2. all2[e].partner = all[e].partner  BY <4>2, <5>1, <1>c
        <5>3. Couple(all, p, all[e].partner, e)  BY <1>5, <3>3, <5>1, <5>2 DEF Coupled
        <5>4. all[e].partner \in 1..n  BY <1>5, <5>3 DEF Couple
        <5>. QED  BY <1>9, <5>2, <5>3, <5>4
      <4>. QED  BY <4>1, <4>2
    <3>4. ASSUME all2[e].type = "on", all2[e].partner # NULL
          PROVE  Couple(all2, p2, e, all2[e].partner) \/ Pending(all2, p2, z + 1, e)
      <4>1. CASE e = on  BY <1>10, <1>c, <4>1
      <4>2. CASE e # on
        <5>1. e # x /\ all[e].type = "on"  BY <1>6, <1>c, <3>4
        <5>2. all2[e].partner = all[e].partner  BY <4>2, <5>1, <1>c
        <5>3. Couple(all, p, e, all[e].partner) \/ Pending(all, p, z, e)
          BY <1>5, <3>4, <5>1, <5>2 DEF Coupled
        <5>4. all[e].partner \in 1..n  BY <1>7, <3>4, <5>1, <5>2
        <5>. QED  BY <1>8, <1>9, <4>2, <5>2, <5>3, <5>4
      <4>. QED  BY <4>1, <4>2
    <3>. QED  BY <3>1, <3>2, <3>3, <3>4
  <2>. QED  BY <1>5, <2>1 DEF Coupled
<1>12. tbl2[k] = all[on].partner /\ \A l \in Note : l # k => tbl2[l] = tbl[l]  BY <1>1 DEF Retabled
<1>13. ASSUME NEW e \in 1..n, Pending(all, p, z, e), all[e].note = k
       PROVE  p[e] <= p[on]
  BY <1>5, <1>13 DEF Chained, BelowTop
<1>14. all[on].partner # NULL =>
         /\ all[on].partner \in 1..n /\ Pending(all, p, z, all[on].partner)
         /\ all[all[on].partner].note = k /\ all[on].partner # on
  <2>1. all[on].partner # NULL =>
         /\ all[on].partner \in 1..n /\ Pending(all, p, z, all[on].partner)
         /\ all[all[on].partner].note = k /\ p[all[on].partner] < p[on]
    BY <1>2, <1>5 DEF Chained, Links
  <2>2. ~(p[on] < p[on])  BY <1>2, <1>4
  <2>. QED  BY <2>1, <2>2
<1>15. Tops(all2, p2, z + 1, tbl2)
  <2>1. ASSUME NEW l \in Note, tbl2[l] # NULL
        PROVE  /\ tbl2[l] \in 1..n /\ Pending(all2, p2, z + 1, tbl2[l])
               /\ all2[tbl2[l]].note = l
    <3>1. CASE l = k
      <4>1. tbl2[l] = all[on].partner /\ all[on].partner # NULL  BY <1>12, <2>1, <3>1
      <4>. QED  BY <1>6, <1>8, <1>14, <3>1, <4>1
    <3>2. CASE l # k
      <4>1. tbl[l] \in 1..n /\ Pending(all, p, z, tbl[l]) /\ all[tbl[l]].note = l
        BY <1>5, <1>12, <2>1, <3>2 DEF Chained, Tops
      <4>2. tbl2[l] = tbl[l]  BY <1>12, <3>2
      <4>3. tbl[l] # on  BY <1>2, <3>2, <4>1
      <4>. QED  BY <1>6, <1>8, <4>1, <4>2, <4>3
    <3>. QED  BY <3>1, <3>2
  <2>. QED  BY <1>5, <2>1 DEF Tops
<1>16. BelowTop(all2, p2, z + 1, tbl2)
  <2>1. ASSUME NEW e \in 1..n, Pending(all2, p2, z + 1, e)
        PROVE  tbl2[all2[e].note] # NULL /\ p2[e] <= p2[tbl2[all2[e].note]]
    <3>1. all2[e].note = all[e].note /\ Pending(all, p, z, e) /\ e # on /\ e # x
      BY <1>3, <1>6, <1>c, <1>8, <2>1
    <3>2. all[e].note \in Note
      <4>1. all[e].type = "on"  BY <3>1 DEF Pending
      <4>. QED  BY <1>5, <4>1 DEF Coupled
    <3>3. CASE all[e].note = k
      <4>1. p[e] < p[on]
        <5>1. p[e] <= p[on] /\ p[e] # p[on]  BY <1>2, <1>13, <3>1, <3>3 DEF SameOrder
        <5>. QED  BY <1>2, <1>4, <5>1
      <4>2. all[on].partner # NULL /\ p[e] <= p[all[on].partner]
        BY <1>2, <1>5, <3>1, <3>3, <4>1 DEF Chained, NoneSkipped
      <4>3. all[on].partner \in 1..n /\ all[on].partner # x  BY <1>3, <1>14, <4>2
      <4>. QED  BY <1>12, <1>o, <3>1, <3>3, <4>2, <4>3
    <3>4. CASE all[e].note # k
      <4>1. tbl[all[e].note] # NULL /\ p[e] <= p[tbl[all[e].note]]
        BY <1>5, <3>1 DEF Chained, BelowTop
      <4>2. tbl[all[e].note] \in 1..n /\ tbl[all[e].note] # x
        BY <1>3, <1>5, <3>2, <4>1 DEF Chained, Tops
      <4>. QED  BY <1>12, <1>o, <3>1, <3>2, <3>4, <4>1, <4>2
    <3>. QED  BY <3>3, <3>4
  <2>. QED  BY <1>5, <2>1 DEF BelowTop
<1>17. Links(all2, p2, z + 1)
  <2>1. ASSUME NEW e \in 1..n, Pending(all2, p2, z + 1, e), all2[e].partner # NULL
        PROVE  /\ all2[e].partner \in 1..n /\ Pending(all2, p2, z + 1, all2[e].partner)
               /\ all2[all2[e].partner].note = all2[e].note /\ p2[all2[e].partner] < p2[e]
    <3>1. Pending(all, p, z, e) /\ e # on /\ e # x  BY <1>3, <1>8, <2>1
    <3>2. all2[e].partner = all[e].partner  BY <3>1, <1>c
    <3>3. /\ all[e].partner \in 1..n /\ Pending(all, p, z, all[e].partner)
          /\ all[all[e].partner].note = all[e].note /\ p[all[e].partner] < p[e]
      BY <1>5, <2>1, <3>1, <3>2 DEF Chained, Links
    <3>4. all[e].partner # on
      <4>1. ASSUME all[e].partner = on  PROVE FALSE
        <5>1. all[e].note = k  BY <1>2, <3>3, <4>1
        <5>2. p[e] <= p[on] /\ p[on] < p[e]  BY <1>13, <3>1, <3>3, <4>1, <5>1
        <5>. QED  BY <1>2, <1>4, <5>2
      <4>. QED  BY <4>1
    <3>5. all[e].partner # x  BY <1>3, <3>3
    <3>6. p2[all[e].partner] < p2[e]  BY <1>o, <3>1, <3>3, <3>5
    <3>. QED  BY <1>6, <1>c, <1>8, <3>2, <3>3, <3>4, <3>6
  <2>. QED  BY <1>5, <2>1 DEF Links
<1>18. NoneSkipped(all2, p2, z + 1)
  <2>1. ASSUME NEW e \in 1..n, NEW f \in 1..n, Pending(all2, p2, z + 1, e),
               Pending(all2, p2, z + 1, f), all2[f].note = all2[e].note, p2[f] < p2[e]
        PROVE  all2[e].partner # NULL /\ p2[f] <= p2[all2[e].partner]
    <3>1. /\ Pending(all, p, z, f) /\ all[f].note = all[e].note /\ f # x
          /\ Pending(all, p, z, e) /\ e # on /\ e # x
      BY <1>3, <1>6, <1>c, <1>8, <2>1
    <3>2. p[f] < p[e] /\ all2[e].partner = all[e].partner  BY <1>c, <1>o, <2>1, <3>1
    <3>3. all[e].partner # NULL /\ p[f] <= p[all[e].partner]
      BY <1>5, <3>1, <3>2 DEF Chained, NoneSkipped
    <3>4. all[e].partner \in 1..n /\ all[e].partner # x
      BY <1>3, <1>5, <3>1, <3>3 DEF Chained, Links
    <3>. QED  BY <1>o, <3>1, <3>2, <3>3, <3>4
  <2>. QED  BY <1>5, <2>1 DEF NoneSkipped
<1>. QED  BY <1>2, <1>8, <1>11, <1>15, <1>16, <1>17, <1>18 DEF Chained

(* Any other event is passed.                                              *)
LEMMA SkipPairs ==
  ASSUME NEW all \in Seq(Event), NEW n \in Nat, n = Len(all), NEW z \in 1..n, NEW x \in 1..n,
         NEW p \in [1..n -> 1..n], \A e, f \in 1..n : p[e] = p[f] => e = f, p[x] = z,
         NEW tbl, ~(all[x].type = "on" /\ all[x].partner = NULL),
         Coupled(all, p, z), Chained(all, p, z, tbl)
  PROVE  /\ \A e \in 1..n : Pending(all, p, z + 1, e) <=> Pending(all, p, z, e)
         /\ Coupled(all, p, z + 1) /\ Chained(all, p, z + 1, tbl)
<1>1. \A e \in 1..n : p[e] \in 1..n /\ (p[e] < z + 1 <=> p[e] < z \/ e = x)
  <2>1. ASSUME NEW e \in 1..n  PROVE p[e] \in 1..n /\ (p[e] < z + 1 <=> p[e] < z \/ p[e] = z)
    <3>1. p[e] \in 1..n  OBVIOUS
    <3>. QED  BY <3>1
  <2>. QED  BY <2>1
<1>2. ASSUME NEW e \in 1..n  PROVE Pending(all, p, z + 1, e) <=> Pending(all, p, z, e)
  <2>1. CASE e = x
    <3>1. ASSUME all[x].type = "on", all[x].partner # NULL
          PROVE  all[all[x].partner].type = "off"
      <4>1. Couple(all, p, x, all[x].partner) \/ Pending(all, p, z, x)  BY <3>1 DEF Coupled
      <4>. QED  BY <4>1 DEF Couple, Pending
    <3>. QED  BY <2>1, <3>1 DEF Pending
  <2>2. CASE e # x  BY <1>1, <2>2 DEF Pending
  <2>. QED  BY <2>1, <2>2
<1>3. Coupled(all, p, z + 1)  BY <1>2 DEF Coupled
<1>4. Tops(all, p, z + 1, tbl)  BY <1>2 DEF Chained, Tops
<1>5. BelowTop(all, p, z + 1, tbl)  BY <1>2 DEF Chained, BelowTop
<1>6. Links(all, p, z + 1)  BY <1>2 DEF Chained, Links
<1>7. NoneSkipped(all, p, z + 1)  BY <1>2 DEF Chained, NoneSkipped
<1>. QED  BY <1>2, <1>3, <1>4, <1>5, <1>6, <1>7 DEF Chained

(* A note-off moves from place z to place t: those from t on step back.    *)
MovedPlaces(p, n, t, z, x) ==
  [e \in 1..n |-> IF e = x THEN t ELSE IF t <= p[e] /\ p[e] < z THEN p[e] + 1 ELSE p[e]]

LEMMA MovedIs ==
  ASSUME eseq \in Seq(Seq(Nat)), NEW n \in Nat, NEW l \in Seq(Nat), NEW p, Placing(l, p, n),
         pos \in 1..n, ctop \in 1..pos, ep = l[pos]
  PROVE  /\ Moved(l) \in Seq(Nat) /\ Len(Moved(l)) = n
         /\ \A i \in 1..n : Moved(l)[i] = IF i < ctop \/ i > pos THEN l[i]
                                          ELSE IF i = ctop THEN l[pos] ELSE l[i - 1]
<1>. DEFINE a == SubSeq(l, 1, ctop - 1)
            b == <<ep>>
            c == SubSeq(l, ctop, pos - 1)
            d == SubSeq(l, pos + 1, n)
<1>0. Len(l) = n /\ pos \in Int /\ ctop \in Int /\ 1 <= ctop /\ ctop <= pos /\ pos <= n
  BY DEF Placing
<1>1. \A i \in 1..n : l[i] \in Nat  BY <1>0, ElementOfSeq
<1>2. /\ a \in Seq(Nat) /\ Len(a) = ctop - 1
      /\ \A i \in 1..(ctop - 1) : a[i] = l[i]
  <2>1. \A i \in 1..(ctop - 1) : l[i] \in Nat  BY <1>0, <1>1
  <2>2. /\ a \in Seq(Nat) /\ Len(a) = (IF 1 <= ctop - 1 THEN (ctop - 1) - 1 + 1 ELSE 0)
        /\ \A i \in 1..((ctop - 1) - 1 + 1) : a[i] = l[1 + i - 1]
    BY <1>0, <2>1, SubSeqProperties
  <2>. HIDE DEF a
  <2>3. Len(a) = ctop - 1  BY <1>0, <2>2
  <2>4. ASSUME NEW i \in 1..(ctop - 1)  PROVE a[i] = l[i]
    <3>1. i \in 1..((ctop - 1) - 1 + 1) /\ 1 + i - 1 = i  BY <1>0
    <3>. QED  BY <2>2, <3>1
  <2>. QED  BY <2>2, <2>3, <2>4
<1>3. b \in Seq(Nat) /\ Len(b) = 1 /\ b[1] = l[pos]
  <2>1. ep \in Nat  BY <1>0, <1>1
  <2>. QED  BY <2>1
<1>4. /\ c \in Seq(Nat) /\ Len(c) = pos - ctop
      /\ \A i \in 1..(pos - ctop) : c[i] = l[ctop + i - 1]
  <2>1. \A i \in ctop..(pos - 1) : l[i] \in Nat  BY <1>0, <1>1
  <2>2. /\ c \in Seq(Nat) /\ Len(c) = (IF ctop <= pos - 1 THEN (pos - 1) - ctop + 1 ELSE 0)
        /\ \A i \in 1..((pos - 1) - ctop + 1) : c[i] = l[ctop + i - 1]
    BY <1>0, <2>1, SubSeqProperties
  <2>. HIDE DEF c
  <2>3. Len(c) = pos - ctop  BY <1>0, <2>2
  <2>4. ASSUME NEW i \in 1..(pos - ctop)  PROVE c[i] = l[ctop + i - 1]
    <3>1. i \in 1..((pos - 1) - ctop + 1)  BY <1>0
    <3>. QED  BY <2>2, <3>1
  <2>. QED  BY <2>2, <2>3, <2>4
<1>5. /\ d \in Seq(Nat) /\ Len(d) = n - pos
      /\ \A i \in 1..(n - pos) : d[i] = l[pos + i]
  <2>1. \A i \in (pos + 1)..n : l[i] \in Nat  BY <1>0, <1>1
  <2>2. /\ d \in Seq(Nat) /\ Len(d) = (IF pos + 1 <= n THEN n - (pos + 1) + 1 ELSE 0)
        /\ \A i \in 1..(n - (pos + 1) + 1) : d[i] = l[pos + 1 + i - 1]
    BY <1>0, <2>1, SubSeqProperties
  <2>. HIDE DEF d
  <2>3. Len(d) = n - pos  BY <1>0, <2>2
  <2>4. ASSUME NEW i \in 1..(n - pos)  PROVE d[i] = l[pos + i]
    <3>1. i \in 1..(n - (pos + 1) + 1) /\ pos + 1 + i - 1 = pos + i  BY <1>0
    <3>. QED  BY <2>2, <3>1
  <2>. QED  BY <2>2, <2>3, <2>4
<1>6. Moved(l) = ((a \o b) \o c) \o d  BY <1>0 DEF Moved
<1>. HIDE DEF a, b, c, d
<1>7. /\ a \o b \in Seq(Nat) /\ Len(a \o b) = ctop
      /\ \A i \in 1..ctop : (a \o b)[i] = IF i < ctop THEN l[i] ELSE l[pos]
  <2>1. /\ a \o b \in Seq(Nat) /\ Len(a \o b) = Len(a) + Len(b)
        /\ \A i \in 1..(Len(a) + Len(b)) :
             (a \o b)[i] = IF i <= Len(a) THEN a[i] ELSE b[i - Len(a)]
    BY <1>2, <1>3, ConcatProperties
  <2>. DEFINE u == a \o b
  <2>2. u \in Seq(Nat) /\ Len(u) = Len(a) + Len(b)
        /\ \A i \in 1..(Len(a) + Len(b)) : u[i] = IF i <= Len(a) THEN a[i] ELSE b[i - Len(a)]
    BY <2>1
  <2>. HIDE DEF u
  <2>3. Len(u) = ctop  BY <1>0, <1>2, <1>3, <2>2
  <2>4. ASSUME NEW i \in 1..ctop  PROVE u[i] = IF i < ctop THEN l[i] ELSE l[pos]
    <3>1. u[i] = IF i <= ctop - 1 THEN a[i] ELSE b[i - (ctop - 1)]
      BY <1>0, <1>2, <1>3, <2>2
    <3>2. CASE i < ctop
      <4>1. i <= ctop - 1 /\ i \in 1..(ctop - 1)  BY <1>0, <3>2
      <4>. QED  BY <1>2, <3>1, <3>2, <4>1
    <3>3. CASE ~(i < ctop)
      <4>1. ~(i <= ctop - 1) /\ i - (ctop - 1) = 1  BY <1>0, <3>3
      <4>. QED  BY <1>3, <3>1, <3>3, <4>1
    <3>. QED  BY <3>2, <3>3
  <2>. QED  BY <2>2, <2>3, <2>4 DEF u
<1>. DEFINE u == a \o b
<1>. HIDE DEF u
<1>8. u \in Seq(Nat) /\ Len(u) = ctop
      /\ \A i \in 1..ctop : u[i] = IF i < ctop THEN l[i] ELSE l[pos]
  BY <1>7 DEF u
<1>. DEFINE v == u \o c
<1>9. /\ v \in Seq(Nat) /\ Len(v) = pos
      /\ \A i \in 1..pos : v[i] = IF i < ctop THEN l[i] ELSE IF i = ctop THEN l[pos] ELSE l[i-1]
  <2>1. v \in Seq(Nat) /\ Len(v) = Len(u) + Len(c)
        /\ \A i \in 1..(Len(u) + Len(c)) : v[i] = IF i <= Len(u) THEN u[i] ELSE c[i - Len(u)]
    BY <1>4, <1>8, ConcatProperties
  <2>. HIDE DEF v
  <2>2. Len(v) = pos  BY <1>0, <1>4, <1>8, <2>1
  <2>3. ASSUME NEW i \in 1..pos
        PROVE  v[i] = IF i < ctop THEN l[i] ELSE IF i = ctop THEN l[pos] ELSE l[i-1]
    <3>1. v[i] = IF i <= ctop THEN u[i] ELSE c[i - ctop]
      BY <1>0, <1>4, <1>8, <2>1
    <3>2. CASE i <= ctop
      <4>1. i \in 1..ctop /\ (i < ctop \/ i = ctop)  BY <1>0, <3>2
      <4>. QED  BY <1>0, <1>8, <3>1, <3>2, <4>1
    <3>3. CASE ~(i <= ctop)
      <4>1. i - ctop \in 1..(pos - ctop) /\ ctop + (i - ctop) - 1 = i - 1
            /\ ~(i < ctop) /\ i # ctop
        BY <1>0, <3>3
      <4>2. c[i - ctop] = l[ctop + (i - ctop) - 1]  BY <1>4, <4>1
      <4>. QED  BY <3>1, <3>3, <4>1, <4>2
    <3>. QED  BY <3>2, <3>3
  <2>. QED  BY <2>1, <2>2, <2>3
<1>. HIDE DEF v
<1>. DEFINE w == v \o d
<1>10. w \in Seq(Nat) /\ Len(w) = Len(v) + Len(d)
       /\ \A i \in 1..(Len(v) + Len(d)) : w[i] = IF i <= Len(v) THEN v[i] ELSE d[i - Len(v)]
  BY <1>5, <1>9, ConcatProperties
<1>. HIDE DEF w
<1>11. w = Moved(l)  BY <1>6 DEF u, v, w
<1>12. Len(w) = n  BY <1>0, <1>5, <1>9, <1>10
<1>13. ASSUME NEW i \in 1..n
       PROVE  w[i] = IF i < ctop \/ i > pos THEN l[i] ELSE IF i = ctop THEN l[pos] ELSE l[i - 1]
  <2>1. w[i] = IF i <= pos THEN v[i] ELSE d[i - pos]
    BY <1>0, <1>5, <1>9, <1>10
  <2>2. CASE i <= pos
    <3>1. i \in 1..pos /\ ~(i > pos)  BY <1>0, <2>2
    <3>2. w[i] = v[i]  BY <2>1, <2>2
    <3>. QED  BY <1>9, <3>1, <3>2
  <2>3. CASE ~(i <= pos)
    <3>1. i - pos \in 1..(n - pos) /\ pos + (i - pos) = i /\ i > pos  BY <1>0, <2>3
    <3>2. w[i] = d[i - pos] /\ d[i - pos] = l[pos + (i - pos)]  BY <1>5, <2>1, <2>3, <3>1
    <3>. QED  BY <3>1, <3>2
  <2>. QED  BY <2>2, <2>3
<1>. QED  BY <1>10, <1>11, <1>12, <1>13

LEMMA MovedPlacing ==
  ASSUME eseq \in Seq(Seq(Nat)), NEW n \in Nat, NEW l \in Seq(Nat), NEW p, Placing(l, p, n),
         pos \in 1..n, ctop \in 1..pos, ep = l[pos],
         NEW p2, p2 = MovedPlaces(p, n, ctop, pos, ep)
  PROVE  /\ Placing(Moved(l), p2, n) /\ SameOrder(p, p2, n, pos, ep)
         /\ ep \in 1..n /\ p[ep] = pos /\ p2[ep] = ctop
<1>. DEFINE x == ep
            m == Moved(l)
<1>. HIDE DEF x, m
<1>0. pos \in Int /\ ctop \in Int /\ 1 <= ctop /\ ctop <= pos /\ pos <= n  OBVIOUS
<1>1. /\ Len(m) = n
      /\ \A i \in 1..n : m[i] = IF i < ctop \/ i > pos THEN l[i]
                                ELSE IF i = ctop THEN l[pos] ELSE l[i - 1]
  BY MovedIs DEF m
<1>2. x = l[pos] /\ x \in 1..n /\ p[x] = pos  BY DEF Placing, x
<1>p. /\ \A e \in 1..n : p[e] \in 1..n /\ l[p[e]] = e
      /\ \A i \in 1..n : l[i] \in 1..n /\ p[l[i]] = i
      /\ \A e \in 1..n : e # x => p[e] # pos
  BY <1>2 DEF Placing
<1>3. ASSUME NEW e \in 1..n
      PROVE  p2[e] = IF e = x THEN ctop
                     ELSE IF ctop <= p[e] /\ p[e] < pos THEN p[e] + 1 ELSE p[e]
  BY DEF MovedPlaces, x
<1>4. p2 \in [1..n -> 1..n]
  <2>1. ASSUME NEW e \in 1..n
        PROVE  (IF e = x THEN ctop
                ELSE IF ctop <= p[e] /\ p[e] < pos THEN p[e] + 1 ELSE p[e]) \in 1..n
    BY <1>0, <1>p
  <2>. QED  BY <2>1 DEF MovedPlaces, x
<1>5. p2[x] = ctop  BY <1>2, <1>3
<1>6. ASSUME NEW i \in 1..n  PROVE m[i] \in 1..n /\ p2[m[i]] = i
  <2>1. CASE i < ctop \/ i > pos
    <3>1. m[i] = l[i]  BY <1>1, <2>1
    <3>2. l[i] \in 1..n /\ p[l[i]] = i /\ l[i] # x  BY <1>0, <1>2, <1>p, <2>1
    <3>3. p2[l[i]] = i
      <4>1. PICK e \in 1..n : e = l[i] /\ p[e] = i /\ e # x  BY <3>2
      <4>2. ~(ctop <= i /\ i < pos)  BY <1>0, <2>1
      <4>3. p2[e] = i  BY <1>3, <4>1, <4>2
      <4>. QED  BY <4>1, <4>3
    <3>. QED  BY <3>1, <3>2, <3>3
  <2>2. CASE i = ctop
    <3>1. m[i] = x  BY <1>0, <1>1, <1>2, <2>2
    <3>. QED  BY <1>2, <1>5, <2>2, <3>1
  <2>3. CASE ctop < i /\ i <= pos
    <3>1. m[i] = l[i - 1] /\ i - 1 \in 1..n  BY <1>0, <1>1, <2>3
    <3>2. l[i-1] \in 1..n /\ p[l[i-1]] = i - 1 /\ l[i-1] # x  BY <1>0, <1>2, <1>p, <2>3, <3>1
    <3>3. ctop <= i - 1 /\ i - 1 < pos /\ (i - 1) + 1 = i  BY <1>0, <2>3
    <3>4. p2[l[i-1]] = i  BY <1>3, <3>2, <3>3
    <3>. QED  BY <3>1, <3>2, <3>4
  <2>. QED  BY <1>0, <2>1, <2>2, <2>3
<1>7. ASSUME NEW e \in 1..n  PROVE m[p2[e]] = e
  <2>0. p2[e] \in 1..n  BY <1>4
  <2>1. CASE e = x  BY <1>0, <1>1, <1>2, <1>5, <2>1
  <2>2. CASE e # x /\ ctop <= p[e] /\ p[e] < pos
    <3>1. p2[e] = p[e] + 1 /\ p[e] \in 1..n  BY <1>3, <1>p, <2>2
    <3>2. ~(p2[e] < ctop \/ p2[e] > pos) /\ p2[e] # ctop /\ p2[e] - 1 = p[e]
      <4>1. PICK i \in 1..n : i = p[e]  BY <3>1
      <4>2. ctop <= i /\ i < pos /\ p2[e] = i + 1  BY <2>2, <3>1, <4>1
      <4>3. ~(i + 1 < ctop \/ i + 1 > pos) /\ i + 1 # ctop /\ (i + 1) - 1 = i
        BY <1>0, <4>2
      <4>. QED  BY <4>1, <4>2, <4>3
    <3>3. m[p2[e]] = l[p[e]]  BY <1>1, <2>0, <3>2
    <3>. QED  BY <1>p, <3>3
  <2>3. CASE e # x /\ ~(ctop <= p[e] /\ p[e] < pos)
    <3>1. p2[e] = p[e] /\ p[e] \in 1..n /\ p[e] # pos  BY <1>3, <1>p, <2>3
    <3>2. p2[e] < ctop \/ p2[e] > pos  BY <1>0, <2>3, <3>1
    <3>3. m[p2[e]] = l[p[e]]  BY <1>1, <2>0, <3>1, <3>2
    <3>. QED  BY <1>p, <3>3
  <2>. QED  BY <2>1, <2>2, <2>3
<1>8. Placing(m, p2, n)  BY <1>1, <1>4, <1>6, <1>7 DEF Placing
<1>9. ASSUME NEW e \in 1..n, NEW f \in 1..n, e # x, f # x
      PROVE  p2[e] < p2[f] <=> p[e] < p[f]
  <2>1. p[e] \in 1..n /\ p[f] \in 1..n /\ p[e] # pos /\ p[f] # pos  BY <1>9, <1>p
  <2>2. /\ p2[e] = IF ctop <= p[e] /\ p[e] < pos THEN p[e] + 1 ELSE p[e]
        /\ p2[f] = IF ctop <= p[f] /\ p[f] < pos THEN p[f] + 1 ELSE p[f]
    BY <1>3, <1>9
  <2>. QED  BY <1>0, <2>1, <2>2
<1>10. ASSUME NEW e \in 1..n  PROVE p2[e] < pos + 1 <=> p[e] < pos + 1
  <2>1. PICK i \in 1..n : i = p[e]  BY <1>p
  <2>2. CASE e = x
    <3>1. p2[e] = ctop /\ p[e] = pos  BY <1>2, <1>5, <2>2
    <3>. QED  BY <1>0, <3>1
  <2>3. CASE e # x
    <3>1. p2[e] = IF ctop <= i /\ i < pos THEN i + 1 ELSE i  BY <1>3, <2>1, <2>3
    <3>2. i # pos  BY <1>p, <2>1, <2>3
    <3>. QED  BY <1>0, <2>1, <3>1, <3>2
  <2>. QED  BY <2>2, <2>3
<1>11. SameOrder(p, p2, n, pos, x)
  <2>1. p \in [1..n -> 1..n] /\ \A e, f \in 1..n : p[e] = p[f] => e = f
    <3>1. p \in [1..n -> 1..n]  BY DEF Placing
    <3>2. ASSUME NEW e \in 1..n, NEW f \in 1..n, p[e] = p[f]  PROVE e = f
      <4>1. l[p[e]] = e /\ l[p[f]] = f  BY <1>p
      <4>. QED  BY <3>2, <4>1
    <3>. QED  BY <3>1, <3>2
  <2>. QED  BY <1>4, <1>9, <1>10, <2>1 DEF SameOrder
<1>. QED  BY <1>2, <1>5, <1>8, <1>11 DEF m, x

LEMMA StaysPlacing ==
  ASSUME NEW n \in Nat, NEW l, NEW p, Placing(l, p, n), NEW z \in 1..n, NEW x, x = l[z]
  PROVE  /\ SameOrder(p, p, n, z, x) /\ x \in 1..n /\ p[x] = z
         /\ p \in [1..n -> 1..n] /\ \A e, f \in 1..n : p[e] = p[f] => e = f
<1>1. p \in [1..n -> 1..n] /\ \A e \in 1..n : l[p[e]] = e  BY DEF Placing
<1>2. \A e, f \in 1..n : p[e] = p[f] => e = f
  <2>1. ASSUME NEW e \in 1..n, NEW f \in 1..n, p[e] = p[f]  PROVE e = f
    <3>1. l[p[e]] = e /\ l[p[f]] = f  BY <1>1
    <3>. QED  BY <2>1, <3>1
  <2>. QED  BY <2>1
<1>3. x \in 1..n /\ p[x] = z  BY DEF Placing
<1>. QED  BY <1>1, <1>2, <1>3 DEF SameOrder

LEMMA PendingFinite ==
  ASSUME NEW n \in Nat, NEW all, Len(all) = n, NEW p, NEW z
  PROVE  IsFiniteSet(PendingSet(all, p, z)) /\ Cardinality(PendingSet(all, p, z)) \in Nat
<1>1. IsFiniteSet(1..n)  BY FS_Interval
<1>2. PendingSet(all, p, z) \subseteq 1..n  BY DEF PendingSet
<1>3. IsFiniteSet(PendingSet(all, p, z))  BY <1>1, <1>2, FS_Subset
<1>. QED  BY <1>3, FS_CardinalityType

LEMMA CountMore ==
  ASSUME NEW n \in Nat, NEW all, Len(all) = n, NEW all2, Len(all2) = n, NEW p, NEW z, NEW p2,
         NEW z2, NEW np \in Int, Counted(all, p, z, np), NEW x \in 1..n,
         \A e \in 1..n : Pending(all2, p2, z2, e) <=> Pending(all, p, z, e) \/ e = x
  PROVE  Counted(all2, p2, z2, np + 1)
<1>1. /\ IsFiniteSet(PendingSet(all, p, z)) /\ Cardinality(PendingSet(all, p, z)) \in Nat
  BY PendingFinite
<1>2. PendingSet(all2, p2, z2) = PendingSet(all, p, z) \cup {x}  BY DEF PendingSet
<1>3. Cardinality(PendingSet(all2, p2, z2)) <= Cardinality(PendingSet(all, p, z)) + 1
  <2>1. Cardinality(PendingSet(all, p, z) \cup {x})
          = IF x \in PendingSet(all, p, z) THEN Cardinality(PendingSet(all, p, z))
            ELSE Cardinality(PendingSet(all, p, z)) + 1
    BY <1>1, FS_AddElement
  <2>. QED  BY <1>1, <1>2, <2>1
<1>4. Cardinality(PendingSet(all2, p2, z2)) \in Nat  BY PendingFinite
<1>. QED  BY <1>1, <1>3, <1>4 DEF Counted

LEMMA CountLess ==
  ASSUME NEW n \in Nat, NEW all, Len(all) = n, NEW all2, Len(all2) = n, NEW p, NEW z, NEW p2,
         NEW z2, NEW np \in Int, Counted(all, p, z, np), NEW x \in 1..n, Pending(all, p, z, x),
         \A e \in 1..n : Pending(all2, p2, z2, e) <=> Pending(all, p, z, e) /\ e # x
  PROVE  Counted(all2, p2, z2, np - 1) /\ np > 0
<1>1. /\ IsFiniteSet(PendingSet(all, p, z)) /\ Cardinality(PendingSet(all, p, z)) \in Nat
  BY PendingFinite
<1>2. PendingSet(all2, p2, z2) = PendingSet(all, p, z) \ {x} /\ x \in PendingSet(all, p, z)
  BY DEF PendingSet
<1>3. Cardinality(PendingSet(all2, p2, z2)) = Cardinality(PendingSet(all, p, z)) - 1
  <2>1. Cardinality(PendingSet(all, p, z) \ {x})
          = IF x \in PendingSet(all, p, z) THEN Cardinality(PendingSet(all, p, z)) - 1
            ELSE Cardinality(PendingSet(all, p, z))
    BY <1>1, FS_RemoveElement
  <2>. QED  BY <1>2, <2>1
<1>4. Cardinality(PendingSet(all2, p2, z2)) \in Nat  BY PendingFinite
<1>. QED  BY <1>1, <1>3, <1>4 DEF Counted

LEMMA CountSame ==
  ASSUME NEW n \in Nat, NEW all, Len(all) = n, NEW p, NEW z, NEW z2,
         NEW np \in Int, Counted(all, p, z, np),
         \A e \in 1..n : Pending(all, p, z2, e) <=> Pending(all, p, z, e)
  PROVE  Counted(all, p, z2, np)
<1>1. PendingSet(all, p, z2) = PendingSet(all, p, z)  BY DEF PendingSet
<1>. QED  BY <1>1 DEF Counted

-----------------------------------------------------------------------------
PairOK(p) ==
  /\ Placing(list, p, Len(ev)) /\ Timed(ev, p)
  /\ Coupled(ev, p, pos) /\ Chained(ev, p, pos, note_tbl)
  /\ Counted(ev, p, pos, npend) /\ TopInTime(ev, list, ctop, pos, npend)
DoneOK(p) ==
  /\ Placing(list, p, Len(ev)) /\ Timed(ev, p)
  /\ \A e \in 1..Len(ev) : ev[e].type # "ctrl" /\ ev[e].partner # NULL =>
       Couple(ev, p, ev[e].partner, e) \/ Couple(ev, p, e, ev[e].partner)
PairInv ==
  /\ stage \in {"collect", "sort"} => npend >= 0
  /\ stage \in {"pair", "done"} => Len(eseq) = 1
  /\ stage = "pair" => \E p : PairOK(p)
  /\ stage = "done" => \E p : DoneOK(p)

LEMMA PairTypes ==
  ASSUME TypeOK, Len(eseq) = 1
  PROVE  list \in Seq(Nat) /\ eseq = <<list>>
<1>1. 1 \in 1..Len(eseq)  BY DEF TypeOK
<1>2. list \in Seq(Nat)  BY <1>1, ElementOfSeq DEF TypeOK, list
<1>3. eseq = <<list>>  BY DEF TypeOK, list
<1>. QED  BY <1>2, <1>3

LEMMA BeginPairStep ==
  ASSUME TypeOK, CollectInv, PairInv, begin_pair
  PROVE  TypeOK' /\ PairInv' /\ stage' = "pair"
<1>1. /\ stage = "sort" /\ Len(eseq) = 1 /\ stage' = "pair" /\ pos' = 1 /\ ctop' = 1
      /\ note_tbl' = [n \in Note |-> NULL]
      /\ UNCHANGED <<ev, eseq, last_ep, sort_by_priority, npend>>
  BY DEF begin_pair
<1>2. note_tbl' \in [Note -> Nat] /\ \A n \in Note : note_tbl'[n] = NULL  BY <1>1 DEF NULL
<1>3. TypeOK'  BY <1>1, <1>2 DEF TypeOK
<1>4. PICK n \in Nat : n = Len(ev)  BY LenProperties DEF TypeOK
<1>5. list \in Seq(Nat) /\ 1 \in 1..1  BY <1>1, PairTypes
<1>6. Raw(ev) /\ Collected(ev, eseq, n) /\ \A e \in 1..n : ev[e] \in Event
  BY <1>1, <1>4, ElementOfSeq DEF CollectInv, TypeOK
<1>7. Single(eseq)  BY <1>4, <1>6, CollectedSingle DEF TypeOK
<1>8. /\ \A i \in 1..Len(list) : list[i] \in 1..n
      /\ \A i, j \in 1..Len(list) : list[i] = list[j] => i = j
      /\ \A e \in 1..n : \E i \in 1..Len(list) : list[i] = e
      /\ Sorted(ev, list)
  <2>1. \A i \in 1..Len(list) : list[i] \in 1..n
    BY <1>1, <1>5, <1>6 DEF Collected, Ranged, list
  <2>2. \A i, j \in 1..Len(list) : list[i] = list[j] => i = j
    BY <1>1, <1>5, <1>7 DEF Single, list
  <2>3. \A k \in 1..1 : k = 1  OBVIOUS
  <2>4. ASSUME NEW e \in 1..n  PROVE \E i \in 1..Len(list) : list[i] = e
    <3>1. PICK k \in 1..1 : \E i \in 1..Len(eseq[k]) : eseq[k][i] = e
      BY <1>1, <1>6 DEF Collected, Covers
    <3>. QED  BY <2>3, <3>1 DEF list
  <2>5. Sorted(ev, list)  BY <1>1, <1>5, <1>6 DEF Collected, Ranked, list
  <2>. QED  BY <2>1, <2>2, <2>4, <2>5
<1>9. PICK p : Placing(list, p, n)
  BY <1>4, <1>5, <1>8, PlacingExists
<1>p. /\ p \in [1..n -> 1..n] /\ Len(list) = n
      /\ \A i \in 1..n : list[i] \in 1..n /\ p[list[i]] = i
      /\ \A e \in 1..n : list[p[e]] = e
  BY <1>9 DEF Placing
<1>10. ASSUME NEW e \in 1..n, NEW f \in 1..n, p[e] < p[f]  PROVE Before(ev, e, f)
  <2>1. p[e] \in 1..n /\ p[f] \in 1..n  BY <1>p
  <2>2. Before(ev, list[p[e]], list[p[f]])  BY <1>8, <1>10, <1>p, <2>1 DEF Sorted
  <2>. QED  BY <1>p, <2>2
<1>11. Timed(ev, p)
  <2>1. ASSUME NEW e \in 1..n, NEW f \in 1..n, p[e] < p[f]  PROVE ev[e].time <= ev[f].time
    <3>1. ev[e].time \in Nat /\ ev[f].time \in Nat  BY <1>6 DEF Event
    <3>2. EV_LESS(ev[e], ev[f]) \/ ~EV_LESS(ev[f], ev[e])  BY <1>10, <2>1 DEF Before
    <3>. QED  BY <3>1, <3>2 DEF EV_LESS
  <2>. QED  BY <1>4, <2>1 DEF Timed
<1>12. ASSUME NEW e \in 1..n, Pitch(ev, e)  PROVE Couple(ev, p, e, e + 1)
  <2>0. e + 1 \in 1..n  BY <1>4, <1>12 DEF Pitch
  <2>1. Before(ev, e, e + 1)
    <3>1. ~EV_LESS(ev[e+1], ev[e])
      <4>1. ev[e].time \in Nat /\ ev[e+1].time \in Nat /\ ev[e].time <= ev[e+1].time
        BY <1>6, <1>12, <2>0 DEF Event, Pitch
      <4>2. ev[e].time = ev[e+1].time => EPRI(ev[e+1]) = 5 /\ EPRI(ev[e]) = 5
        BY <1>12 DEF EPRI, Pitch
      <4>. QED  BY <4>1, <4>2 DEF EV_LESS
    <3>2. e < e + 1  OBVIOUS
    <3>. QED  BY <3>1, <3>2 DEF Before
  <2>2. p[e] < p[e+1]
    <3>1. p[e] \in 1..n /\ p[e+1] \in 1..n  BY <1>p, <2>0
    <3>2. p[e] # p[e+1]
      <4>1. p[e] = p[e+1] => list[p[e]] = list[p[e+1]]  OBVIOUS
      <4>2. e # e + 1  OBVIOUS
      <4>. QED  BY <1>p, <2>0, <4>1, <4>2
    <3>3. ~(p[e+1] < p[e])
      <4>1. p[e+1] < p[e] => Before(ev, e + 1, e)  BY <1>10, <2>0
      <4>2. ~(Before(ev, e, e + 1) /\ Before(ev, e + 1, e))
        BY <1>6, <2>0, BeforeIsOrder DEF TypeOK
      <4>. QED  BY <2>1, <4>1, <4>2
    <3>. QED  BY <3>1, <3>2, <3>3
  <2>. QED  BY <1>4, <1>12, <2>0, <2>2 DEF Pitch, Couple
<1>13. Coupled(ev, p, 1)
  <2>1. ASSUME NEW e \in 1..n
        PROVE  /\ ev[e].type # "ctrl" => ev[e].note \in Note
               /\ ev[e].type = "off" /\ ev[e].partner = NULL => ev[e].irregular
               /\ ev[e].type = "off" /\ ev[e].partner # NULL => Couple(ev, p, ev[e].partner, e)
               /\ ev[e].type = "on" /\ ev[e].partner # NULL => Couple(ev, p, e, ev[e].partner)
    <3>1. /\ ev[e].type # "ctrl" => ev[e].note \in Note
          /\ ev[e].type = "off" /\ ev[e].partner = NULL => ev[e].irregular
          /\ ev[e].partner # NULL => Pitch(ev, e) \/ (e # 1 /\ Pitch(ev, e - 1))
      BY <1>4, <1>6 DEF Raw
    <3>2. CASE Pitch(ev, e)
      <4>1. ev[e].partner = e + 1 /\ ev[e].type = "on"  BY <3>2 DEF Pitch
      <4>. QED  BY <1>12, <3>1, <3>2, <4>1
    <3>3. CASE e # 1 /\ Pitch(ev, e - 1)
      <4>1. e - 1 \in 1..n /\ (e - 1) + 1 = e  BY <3>3
      <4>2. ev[e].partner = e - 1 /\ ev[e].type = "off"  BY <3>3, <4>1 DEF Pitch
      <4>3. Couple(ev, p, e - 1, e)  BY <1>12, <3>3, <4>1
      <4>. QED  BY <3>1, <4>2, <4>3
    <3>. QED  BY <3>1, <3>2, <3>3
  <2>. QED  BY <1>4, <2>1 DEF Coupled
<1>14. \A e \in 1..n : ~Pending(ev, p, 1, e)
  <2>1. ASSUME NEW e \in 1..n  PROVE ~(p[e] < 1)  BY <1>p
  <2>. QED  BY <2>1 DEF Pending
<1>15. Chained(ev, p, 1, note_tbl')
  <2>1. Tops(ev, p, 1, note_tbl')  BY <1>2 DEF Tops
  <2>2. BelowTop(ev, p, 1, note_tbl')  BY <1>4, <1>14 DEF BelowTop
  <2>3. Links(ev, p, 1)  BY <1>4, <1>14 DEF Links
  <2>4. NoneSkipped(ev, p, 1)  BY <1>4, <1>14 DEF NoneSkipped
  <2>. QED  BY <2>1, <2>2, <2>3, <2>4 DEF Chained
<1>16. TopInTime(ev, list, 1, 1, npend)  BY <1>4 DEF TopInTime
<1>17. PairOK(p)'
  <2>1. list' = list  BY <1>1 DEF list
  <2>2. Counted(ev, p, 1, npend)
    <3>1. PendingSet(ev, p, 1) = {}  BY <1>4, <1>14 DEF PendingSet
    <3>2. Cardinality(PendingSet(ev, p, 1)) = 0  BY <3>1, FS_EmptySet
    <3>3. npend >= 0 /\ npend \in Int  BY <1>1 DEF PairInv, TypeOK
    <3>. QED  BY <3>2, <3>3 DEF Counted
  <2>. QED  BY <1>1, <1>4, <1>9, <1>11, <1>13, <1>15, <1>16, <2>1, <2>2 DEF PairOK
<1>. QED  BY <1>1, <1>3, <1>17 DEF PairInv

(* What each of the three ways of pair_notes finds.                        *)
At(n, p) ==
  /\ n \in Nat /\ n = Len(ev) /\ PairOK(p) /\ pos \in 1..n /\ ctop \in 1..pos
  /\ ep \in 1..n /\ p[ep] = pos /\ ev[ep] \in Event /\ ep # NULL
  /\ SameOrder(p, p, n, pos, ep) /\ p \in [1..n -> 1..n]
  /\ \A e, f \in 1..n : p[e] = p[f] => e = f
  /\ list \in Seq(Nat) /\ eseq = <<list>> /\ Len(list) = n /\ Placing(list, p, n)

LEMMA PairContext ==
  ASSUME TypeOK, PairInv, stage = "pair", pos <= Len(list)
  PROVE  \E n, p : At(n, p)
<1>1. PICK n \in Nat : n = Len(ev)  BY LenProperties DEF TypeOK
<1>2. PICK p : PairOK(p)  BY DEF PairInv
<1>3. Placing(list, p, n) /\ Len(list) = n  BY <1>1, <1>2 DEF PairOK, Placing
<1>4. pos \in 1..n /\ ctop \in 1..pos
  BY <1>1, <1>2, <1>3 DEF TypeOK, PairOK, TopInTime
<1>5. list \in Seq(Nat) /\ eseq = <<list>>  BY PairTypes DEF PairInv
<1>6. ep = list[pos]  BY DEF ep
<1>7. /\ SameOrder(p, p, n, pos, ep) /\ ep \in 1..n /\ p[ep] = pos /\ p \in [1..n -> 1..n]
      /\ \A e, f \in 1..n : p[e] = p[f] => e = f
  <2>. DEFINE x == ep
            z == pos
            l == list
  <2>1. x = l[z] /\ z \in 1..n /\ Placing(l, p, n)  BY <1>3, <1>4, <1>6
  <2>. HIDE DEF x, z, l
  <2>2. SameOrder(p, p, n, z, x) /\ x \in 1..n /\ p[x] = z  BY <2>1, StaysPlacing
  <2>3. p \in [1..n -> 1..n] /\ \A e, f \in 1..n : p[e] = p[f] => e = f
    BY <2>1, StaysPlacing
  <2>. QED  BY <2>2, <2>3 DEF x, z
<1>8. ev[ep] \in Event /\ ep # NULL  BY <1>1, <1>7, ElementOfSeq DEF TypeOK, NULL
<1>9. At(n, p)  BY <1>1, <1>2, <1>3, <1>4, <1>5, <1>7, <1>8 DEF At
<1>. QED  BY <1>9

(* The insertion point stays in the time of the next event.                *)
LEMMA NextTopIs ==
  ASSUME NEW all, NEW l, NEW np, pos \in Nat \ {0}, ctop \in Nat \ {0}, pos <= Len(all),
         Len(l) = Len(all), Len(all) \in Nat, ctop <= pos
  PROVE  /\ NextTop(all, l, np) \in Nat \ {0}
         /\ TopInTime(all, l, NextTop(all, l, np), pos + 1, np)
<1>1. NextTop(all, l, np) \in {ctop, pos + 1}  BY DEF NextTop
<1>2. CASE NextTop(all, l, np) = pos + 1  BY <1>2 DEF TopInTime
<1>3. CASE NextTop(all, l, np) = ctop
  <2>1. ASSUME np # 0, pos + 1 <= Len(all)
        PROVE  all[l[ctop]].time = all[l[pos + 1]].time
    <3>1. pos < Len(l) /\ ctop # pos + 1  BY <2>1
    <3>. QED  BY <1>3, <2>1, <3>1 DEF NextTop
  <2>. QED  BY <1>3, <2>1 DEF TopInTime
<1>. QED  BY <1>1, <1>2, <1>3

LEMMA PendChanges ==
  ASSUME TypeOK, PairInv, stage = "pair", pos <= Len(list), pend_note
  PROVE  \E n, p : At(n, p) /\ PendChange(ev, ev', n, pos, ep, p, note_tbl, note_tbl')
<1>0. PICK n, p : At(n, p)  BY PairContext
<1>1. /\ n \in Nat /\ n = Len(ev) /\ PairOK(p) /\ pos \in 1..n /\ ctop \in 1..pos
      /\ ep \in 1..n /\ p[ep] = pos /\ ev[ep] \in Event /\ ep # NULL
      /\ SameOrder(p, p, n, pos, ep) /\ p \in [1..n -> 1..n]
      /\ \A e, f \in 1..n : p[e] = p[f] => e = f
      /\ list \in Seq(Nat) /\ eseq = <<list>> /\ Len(list) = n /\ Placing(list, p, n)
  BY <1>0 DEF At
<1>. DEFINE x == ep
            k == ev[x].note
            v == note_tbl[k]
<1>2. /\ ev[x].type = "on" /\ ev[x].partner = NULL
      /\ ev' = [ev EXCEPT ![x].partner = v]
      /\ note_tbl' = [note_tbl EXCEPT ![k] = x] /\ npend' = npend + 1
      /\ ctop' = NextTop(ev', list, npend') /\ eseq' = eseq /\ list' = list
  BY DEF pend_note, list
<1>. HIDE DEF x
<1>3. x \in 1..n /\ p[x] = pos /\ ev[x] \in Event  BY <1>1 DEF x
<1>4. k \in Note /\ v \in Nat
  <2>1. k \in Note  BY <1>1, <1>2, <1>3 DEF PairOK, Coupled
  <2>. QED  BY <2>1 DEF TypeOK
<1>. HIDE DEF k, v
<1>5. /\ ev' \in Seq(Event) /\ Len(ev') = n
      /\ \A e \in 1..n : ev'[e] = IF e = x THEN [ev[x] EXCEPT !.partner = v] ELSE ev[e]
  <2>1. [ev[x] EXCEPT !.partner = v] \in Event  BY <1>3, <1>4 DEF Event
  <2>2. ev' = [ev EXCEPT ![x] = [ev[x] EXCEPT !.partner = v]]  BY <1>2
  <2>. QED  BY <1>1, <1>3, <2>1, <2>2, ExceptSeq DEF TypeOK
<1>6. ASSUME NEW e \in 1..n
      PROVE  /\ ev'[e].type = ev[e].type /\ ev'[e].time = ev[e].time
             /\ ev'[e].note = ev[e].note /\ ev'[e].irregular = ev[e].irregular
             /\ ev'[e].partner = IF e = x THEN v ELSE ev[e].partner
  BY <1>3, <1>5 DEF Event
<1>7. Alike(ev, ev')  BY <1>1, <1>5, <1>6 DEF Alike, TypeOK
<1>8. /\ Coupled(ev, p, pos) /\ Chained(ev, p, pos, note_tbl) /\ Timed(ev, p)
      /\ Counted(ev, p, pos, npend)
  BY <1>1 DEF PairOK
<1>9. Retabled(note_tbl, note_tbl', ev[x].note, x)
  BY <1>2, <1>3, <1>4 DEF TypeOK, Retabled, k
<1>10. LinkedTo(ev, ev', n, x, note_tbl[ev[x].note])  BY <1>6 DEF LinkedTo, k, v
<1>11. SameOrder(p, p, n, pos, x)  BY <1>1 DEF x
<1>12. PendChange(ev, ev', n, pos, x, p, note_tbl, note_tbl')
  BY <1>1, <1>2, <1>3, <1>7, <1>8, <1>9, <1>10, <1>11 DEF PendChange
<1>. QED  BY <1>0, <1>12 DEF x

LEMMA PendStep ==
  ASSUME TypeOK, PairInv, stage = "pair", pos <= Len(list), pend_note,
         pos' = pos + 1, UNCHANGED <<last_ep, sort_by_priority, stage>>
  PROVE  TypeOK' /\ PairInv'
<1>0. PICK n, p : At(n, p) /\ PendChange(ev, ev', n, pos, ep, p, note_tbl, note_tbl')
  BY PendChanges
<1>1. /\ n \in Nat /\ n = Len(ev) /\ PairOK(p) /\ pos \in 1..n /\ ctop \in 1..pos
      /\ list \in Seq(Nat) /\ eseq = <<list>> /\ Len(list) = n /\ Placing(list, p, n)
  BY <1>0 DEF At
<1>. DEFINE x == ep
<1>3. PendChange(ev, ev', n, pos, x, p, note_tbl, note_tbl')  BY <1>0
<1>. HIDE DEF x
<1>2. npend' = npend + 1 /\ ctop' = NextTop(ev', list, npend') /\ eseq' = eseq /\ list' = list
  BY DEF pend_note, list
<1>5. /\ x \in 1..n /\ ev' \in Seq(Event) /\ Len(ev') = n
      /\ \A e \in 1..n : ev'[e].type = ev[e].type /\ ev'[e].time = ev[e].time
  BY <1>1, <1>3 DEF PendChange, Alike
<1>8. Timed(ev, p) /\ Counted(ev, p, pos, npend)  BY <1>1 DEF PairOK
<1>9. /\ Coupled(ev', p, pos + 1) /\ Chained(ev', p, pos + 1, note_tbl')
      /\ \A e \in 1..n : Pending(ev', p, pos + 1, e) <=> Pending(ev, p, pos, e) \/ e = x
  BY <1>3, PendPairs
<1>10. Counted(ev', p, pos + 1, npend')
  <2>1. npend \in Int /\ npend' = npend + 1  BY <1>2 DEF TypeOK
  <2>2. n \in Nat /\ n = Len(ev) /\ n = Len(ev') /\ x \in 1..n  BY <1>1, <1>5
  <2>3. Counted(ev', p, pos + 1, npend + 1)
    <3>1. Counted(ev, p, pos, npend)  BY <1>8
    <3>2. \A e \in 1..n : Pending(ev', p, pos + 1, e) <=> Pending(ev, p, pos, e) \/ e = x
      BY <1>9
    <3>. QED  BY <2>1, <2>2, <3>1, <3>2, CountMore
  <2>. QED  BY <2>1, <2>3
<1>11. Timed(ev', p)  BY <1>1, <1>5, <1>8 DEF Timed
<1>12. ctop' \in Nat \ {0} /\ TopInTime(ev', list, ctop', pos + 1, npend')
  <2>1. pos \in Nat \ {0} /\ ctop \in Nat \ {0} /\ pos <= n /\ ctop <= pos /\ n \in Nat
    BY <1>1
  <2>2. Len(list) = Len(ev') /\ Len(ev') = n  BY <1>1, <1>5
  <2>. QED  BY <1>2, <2>1, <2>2, NextTopIs
<1>13. note_tbl' \in [Note -> Nat]  BY <1>3 DEF PendChange, Retabled
<1>14. TypeOK'  BY <1>2, <1>5, <1>12, <1>13 DEF TypeOK
<1>15. PairOK(p)'  BY <1>1, <1>2, <1>5, <1>9, <1>10, <1>11, <1>12 DEF PairOK
<1>. QED  BY <1>1, <1>2, <1>14, <1>15 DEF PairInv

LEMMA SkipStep ==
  ASSUME TypeOK, PairInv, stage = "pair", pos <= Len(list), skip_event,
         pos' = pos + 1, UNCHANGED <<last_ep, sort_by_priority, stage>>
  PROVE  TypeOK' /\ PairInv'
<1>0. PICK n, p : At(n, p)  BY PairContext
<1>1. /\ n \in Nat /\ n = Len(ev) /\ PairOK(p) /\ pos \in 1..n /\ ctop \in 1..pos
      /\ ep \in 1..n /\ p[ep] = pos /\ ev[ep] \in Event /\ ep # NULL
      /\ SameOrder(p, p, n, pos, ep) /\ p \in [1..n -> 1..n]
      /\ \A e, f \in 1..n : p[e] = p[f] => e = f
      /\ list \in Seq(Nat) /\ eseq = <<list>> /\ Len(list) = n /\ Placing(list, p, n)
  BY <1>0 DEF At
<1>2. /\ ~(ev[ep].type = "on" /\ ev[ep].partner = NULL)
      /\ ctop' = NextTop(ev, list, npend)
      /\ UNCHANGED <<ev, eseq, note_tbl, npend>> /\ list' = list
  BY DEF skip_event, list
<1>3. /\ Coupled(ev, p, pos) /\ Chained(ev, p, pos, note_tbl) /\ Timed(ev, p)
      /\ Counted(ev, p, pos, npend)
  BY <1>1 DEF PairOK
<1>4. /\ \A e \in 1..n : Pending(ev, p, pos + 1, e) <=> Pending(ev, p, pos, e)
      /\ Coupled(ev, p, pos + 1) /\ Chained(ev, p, pos + 1, note_tbl)
  <2>1. ev \in Seq(Event)  BY DEF TypeOK
  <2>. DEFINE x == ep
  <2>2. x \in 1..n /\ p[x] = pos /\ ~(ev[x].type = "on" /\ ev[x].partner = NULL)  BY <1>1, <1>2
  <2>. HIDE DEF x
  <2>. QED  BY <1>1, <1>3, <2>1, <2>2, SkipPairs
<1>5. Counted(ev, p, pos + 1, npend)  BY <1>1, <1>3, <1>4, CountSame DEF TypeOK
<1>6. ctop' \in Nat \ {0} /\ TopInTime(ev, list, ctop', pos + 1, npend)
  BY <1>1, <1>2, NextTopIs DEF TypeOK
<1>7. TypeOK'  BY <1>2, <1>6 DEF TypeOK
<1>8. PairOK(p)'  BY <1>1, <1>2, <1>3, <1>4, <1>5, <1>6 DEF PairOK
<1>. QED  BY <1>1, <1>2, <1>7, <1>8 DEF PairInv

-----------------------------------------------------------------------------
LEMMA CountSome ==
  ASSUME NEW n \in Nat, NEW all, Len(all) = n, NEW p, NEW z, NEW np \in Int,
         Counted(all, p, z, np), NEW x \in 1..n, Pending(all, p, z, x)
  PROVE  np > 0
<1>. DEFINE S == PendingSet(all, p, z)
<1>1. IsFiniteSet(S) /\ Cardinality(S) \in Nat  BY PendingFinite
<1>2. S # {}  BY DEF PendingSet
<1>3. Cardinality(S) # 0  BY <1>1, <1>2, FS_EmptySet
<1>4. Cardinality(S) <= np  BY DEF Counted
<1>. HIDE DEF S
<1>. QED  BY <1>1, <1>3, <1>4

MovesInTime(all, n, l, p, p2, t, z, x) ==
  /\ n = Len(all) /\ n \in Nat /\ \A e \in 1..n : all[e].time \in Nat
  /\ Placing(l, p, n) /\ Timed(all, p) /\ z \in 1..n /\ t \in 1..z
  /\ x = l[z] /\ all[l[t]].time = all[x].time
  /\ p2 = MovedPlaces(p, n, t, z, x) /\ SameOrder(p, p2, n, z, x)

(* A note-off that moves to the insertion point stays in its time, and     *)
(* what is before the insertion point stays where it is.                   *)
LEMMA MovedInTime ==
  ASSUME NEW all, NEW n, NEW l, NEW p, NEW p2, NEW t, NEW z, NEW x,
         MovesInTime(all, n, l, p, p2, t, z, x)
  PROVE  /\ Timed(all, p2)
         /\ \A e \in 1..n : all[e].time < all[x].time /\ p[e] < z => p2[e] < p2[x]
<1>. USE DEF MovesInTime
<1>1. t \in 1..n  OBVIOUS
<1>2. PICK y : y = l[t]  OBVIOUS
<1>3. x \in 1..n /\ y \in 1..n /\ p[x] = z /\ p[y] = t /\ all[y].time = all[x].time
  BY <1>1, <1>2 DEF Placing
<1>4. \A e \in 1..n : p[e] \in 1..n  BY DEF Placing
<1>5. p2[x] = t /\ \A e \in 1..n : e # x =>
        p2[e] = IF t <= p[e] /\ p[e] < z THEN p[e] + 1 ELSE p[e]
  BY <1>3 DEF MovedPlaces
<1>6. \A e \in 1..n : t <= p[e] => all[x].time <= all[e].time
  <2>1. ASSUME NEW e \in 1..n, t <= p[e]  PROVE all[x].time <= all[e].time
    <3>1. CASE t < p[e]
      <4>1. all[y].time <= all[e].time  BY <1>3, <3>1 DEF Timed
      <4>. QED  BY <1>3, <4>1
    <3>2. CASE p[e] = t
      <4>1. e = y  BY <1>3, <3>2 DEF SameOrder
      <4>. QED  BY <1>3, <4>1
    <3>. QED  BY <1>4, <2>1, <3>1, <3>2
  <2>. QED  BY <2>1
<1>7. \A e \in 1..n : e # x /\ p[e] < t => p2[e] = p[e]  BY <1>4, <1>5
<1>8. \A e \in 1..n : e # x /\ ~(p[e] < t) => t < p2[e]
  <2>1. ASSUME NEW e \in 1..n, e # x, ~(p[e] < t)  PROVE t < p2[e]
    <3>1. p[e] # z  BY <1>3, <2>1 DEF SameOrder
    <3>2. p2[e] = IF t <= p[e] /\ p[e] < z THEN p[e] + 1 ELSE p[e]  BY <1>5, <2>1
    <3>3. p[e] \in 1..n  BY <1>4
    <3>. QED  BY <2>1, <3>1, <3>2, <3>3
  <2>. QED  BY <2>1
<1>9. ASSUME NEW e \in 1..n, NEW f \in 1..n, p2[e] < p2[f]
      PROVE  all[e].time <= all[f].time
  <2>1. CASE e # x /\ f # x
    <3>1. p[e] < p[f]  BY <1>9, <2>1 DEF SameOrder
    <3>. QED  BY <3>1 DEF Timed
  <2>2. CASE e = x /\ f # x
    <3>1. ~(p[f] < t)
      <4>1. p[f] < t => p2[f] < p2[x]  BY <1>5, <1>7, <2>2
      <4>2. p2[x] \in 1..n /\ p2[f] \in 1..n  BY <1>3 DEF SameOrder
      <4>. QED  BY <1>9, <2>2, <4>1, <4>2
    <3>2. p[f] \in 1..n  BY <1>4
    <3>. QED  BY <1>6, <2>2, <3>1, <3>2
  <2>3. CASE e # x /\ f = x
    <3>1. p[e] < t
      <4>1. ~(p[e] < t) => p2[x] < p2[e]  BY <1>5, <1>8, <2>3
      <4>2. p2[x] \in 1..n /\ p2[e] \in 1..n  BY <1>3 DEF SameOrder
      <4>. QED  BY <1>9, <2>3, <4>1, <4>2
    <3>2. p[e] \in 1..n  BY <1>4
    <3>3. p[e] < p[x]  BY <1>3, <3>1, <3>2
    <3>. QED  BY <2>3, <3>3 DEF Timed
  <2>4. CASE e = x /\ f = x  BY <2>4
  <2>. QED  BY <2>1, <2>2, <2>3, <2>4
<1>10. Timed(all, p2)  BY <1>9 DEF Timed
<1>11. ASSUME NEW e \in 1..n, all[e].time < all[x].time, p[e] < z  PROVE p2[e] < p2[x]
  <2>1. all[e].time \in Nat /\ all[x].time \in Nat /\ p[e] \in 1..n  BY <1>3, <1>4
  <2>2. ~(t <= p[e])
    <3>1. t <= p[e] => all[x].time <= all[e].time  BY <1>6
    <3>. QED  BY <1>11, <2>1, <3>1
  <2>3. p[e] < t  BY <2>1, <2>2
  <2>4. e # x  BY <1>11, <2>1
  <2>. QED  BY <1>5, <1>7, <2>3, <2>4
<1>. QED  BY <1>10, <1>11

(* The list after pair_note, and the places of its events.                 *)
LEMMA PairMoves ==
  ASSUME TypeOK, NEW n \in Nat, n = Len(ev), NEW p, Placing(list, p, n), Timed(ev, p),
         pos \in 1..n, ctop \in 1..pos, list \in Seq(Nat), eseq = <<list>>,
         NEW x, x = ep, p[x] = pos, x \in 1..n, NEW on \in 1..n, on # x, p[on] < pos,
         npend > 0, TopInTime(ev, list, ctop, pos, npend),
         eseq' = IF ev[x].time # ev[on].time /\ sort_by_priority THEN <<Moved(list)>> ELSE eseq
  PROVE  /\ eseq' \in Seq(Seq(Nat)) /\ Len(eseq') = 1 /\ eseq' = <<list'>>
         /\ \E p2 : /\ Placing(list', p2, n) /\ SameOrder(p, p2, n, pos, x)
                    /\ p2[on] < p2[x] /\ Timed(ev, p2)
<1>1. list' = eseq'[1]  BY DEF list
<1>2. x = list[pos]  BY DEF ep
<1>3. ASSUME NEW e \in 1..n  PROVE ev[e].time \in Nat
  <2>1. ev[e] \in Event  BY ElementOfSeq DEF TypeOK
  <2>. QED  BY <2>1 DEF Event
<1>4. CASE ev[x].time # ev[on].time /\ sort_by_priority
  <2>1. eseq' = <<Moved(list)>> /\ list' = Moved(list)  BY <1>1, <1>4
  <2>2. Moved(list) \in Seq(Nat)  BY <1>2, MovedIs DEF TypeOK
  <2>3. PICK p2 : p2 = MovedPlaces(p, n, ctop, pos, ep)  OBVIOUS
  <2>4. Placing(Moved(list), p2, n) /\ SameOrder(p, p2, n, pos, ep)
    BY <1>2, <2>3, MovedPlacing DEF TypeOK
  <2>5. ev[list[ctop]].time = ev[x].time
    <3>1. npend # 0 /\ pos <= Len(ev)  BY DEF TypeOK
    <3>. QED  BY <1>2, <3>1 DEF TopInTime
  <2>6. Timed(ev, p2) /\ \A e \in 1..n : ev[e].time < ev[x].time /\ p[e] < pos => p2[e] < p2[x]
    <3>1. MovesInTime(ev, n, list, p, p2, ctop, pos, x)
      BY <1>2, <1>3, <2>3, <2>4, <2>5 DEF MovesInTime
    <3>. QED  BY <3>1, MovedInTime
  <2>7. ev[on].time < ev[x].time
    <3>1. ev[on].time <= ev[x].time  BY DEF Timed
    <3>2. ev[on].time \in Nat /\ ev[x].time \in Nat  BY <1>3
    <3>. QED  BY <1>4, <3>1, <3>2
  <2>8. p2[on] < p2[x]  BY <2>6, <2>7
  <2>9. eseq' \in Seq(Seq(Nat)) /\ Len(eseq') = 1  BY <2>1, <2>2
  <2>. QED  BY <2>1, <2>4, <2>6, <2>8, <2>9
<1>5. CASE ~(ev[x].time # ev[on].time /\ sort_by_priority)
  <2>1. eseq' = eseq /\ list' = list  BY <1>1, <1>5 DEF list
  <2>2. SameOrder(p, p, n, pos, x)  BY <1>2, StaysPlacing
  <2>3. eseq' \in Seq(Seq(Nat)) /\ Len(eseq') = 1  BY <2>1
  <2>. QED  BY <2>1, <2>2, <2>3
<1>. QED  BY <1>4, <1>5

(* An isolated note-off takes its note-on and may move.                    *)
PairedAt(n, p, p2) ==
  /\ At(n, p) /\ Placing(list', p2, n) /\ Timed(ev, p2)
  /\ eseq' \in Seq(Seq(Nat)) /\ Len(eseq') = 1 /\ eseq' = <<list'>>
  /\ PairChange(ev, ev', n, pos, ep, p, p2, note_tbl, note_tbl', note_tbl[ev[ep].note])
LEMMA PairChanges ==
  ASSUME TypeOK, PairInv, stage = "pair", pos <= Len(list), pair_note
  PROVE  \E n, p, p2 : PairedAt(n, p, p2)
<1>0. PICK n, p : At(n, p)  BY PairContext
<1>1. /\ n \in Nat /\ n = Len(ev) /\ PairOK(p) /\ pos \in 1..n /\ ctop \in 1..pos
      /\ ep \in 1..n /\ p[ep] = pos /\ ev[ep] \in Event /\ ep # NULL
      /\ SameOrder(p, p, n, pos, ep) /\ p \in [1..n -> 1..n]
      /\ \A e, f \in 1..n : p[e] = p[f] => e = f
      /\ list \in Seq(Nat) /\ eseq = <<list>> /\ Len(list) = n /\ Placing(list, p, n)
  BY <1>0 DEF At
<1>. DEFINE x == ep
            k == ev[x].note
            on == note_tbl[k]
            v == ev[on].partner
            later == ev[x].time # ev[on].time
<1>2. /\ ev[x].type = "off" /\ ev[x].partner = NULL /\ on # NULL
      /\ ev' = [ev EXCEPT ![x].partner = on, ![x].irregular = IF later THEN FALSE ELSE @,
                          ![on].partner = x]
      /\ note_tbl' = [note_tbl EXCEPT ![k] = v] /\ npend' = npend - 1
      /\ eseq' = IF later /\ sort_by_priority THEN <<Moved(list)>> ELSE eseq
      /\ ctop' = NextTop(ev', eseq'[1], npend') /\ list' = eseq'[1]
  BY DEF pair_note, list, Paired, Unpended
<1>x. x = ep  OBVIOUS
<1>. HIDE DEF x
<1>3. x \in 1..n /\ p[x] = pos /\ ev[x] \in Event  BY <1>1 DEF x
<1>4. /\ Coupled(ev, p, pos) /\ Chained(ev, p, pos, note_tbl) /\ Timed(ev, p)
      /\ Counted(ev, p, pos, npend) /\ TopInTime(ev, list, ctop, pos, npend)
  BY <1>1 DEF PairOK
<1>5. k \in Note  BY <1>1, <1>2, <1>3, <1>4 DEF Coupled
<1>k. k = ev[x].note /\ on = note_tbl[k] /\ v = ev[on].partner
      /\ later = (ev[x].time # ev[on].time) /\ later \in BOOLEAN
  OBVIOUS
<1>. HIDE DEF k, on, v, later
<1>6. on \in 1..n /\ Pending(ev, p, pos, on) /\ ev[on].note = k
  BY <1>1, <1>2, <1>4, <1>5, <1>k DEF Chained, Tops
<1>7. ev[on] \in Event /\ v \in Nat
  <2>1. ev[on] \in Event  BY <1>1, <1>6, ElementOfSeq DEF TypeOK
  <2>. QED  BY <1>k, <2>1 DEF Event
<1>8. on # x /\ p[on] < pos  BY <1>2, <1>6 DEF Pending
<1>9. npend \in Int /\ npend > 0
  <2>1. npend \in Int  BY DEF TypeOK
  <2>. QED  BY <1>1, <1>4, <1>6, <2>1, CountSome
<1>10. /\ eseq' \in Seq(Seq(Nat)) /\ Len(eseq') = 1 /\ eseq' = <<list'>>
       /\ \E p2 : /\ Placing(list', p2, n) /\ SameOrder(p, p2, n, pos, x)
                  /\ p2[on] < p2[x] /\ Timed(ev, p2)
  <2>1. eseq' = IF ev[x].time # ev[on].time /\ sort_by_priority THEN <<Moved(list)>> ELSE eseq
    BY <1>2, <1>k
  <2>. QED  BY <1>1, <1>3, <1>4, <1>6, <1>8, <1>9, <1>x, <2>1, PairMoves
<1>11. PICK p2 : /\ Placing(list', p2, n) /\ SameOrder(p, p2, n, pos, x)
                 /\ p2[on] < p2[x] /\ Timed(ev, p2)
  BY <1>10
<1>12. PICK ex : ex = [ev[x] EXCEPT !.partner = on, !.irregular = IF later THEN FALSE ELSE @]
  OBVIOUS
<1>13. PICK eo : eo = [ev[on] EXCEPT !.partner = x]  OBVIOUS
<1>14. /\ ex \in Event /\ ex.type = ev[x].type /\ ex.time = ev[x].time /\ ex.note = ev[x].note
       /\ ex.irregular = (IF later THEN FALSE ELSE ev[x].irregular) /\ ex.partner = on
  <2>0. on \in Nat  BY <1>1, <1>6
  <2>1. CASE later
    <3>1. ex = [ev[x] EXCEPT !.partner = on, !.irregular = FALSE]  BY <1>12, <2>1
    <3>. QED  BY <1>3, <2>0, <2>1, <3>1 DEF Event
  <2>2. CASE ~later
    <3>1. ex = [ev[x] EXCEPT !.partner = on, !.irregular = ev[x].irregular]  BY <1>12, <2>2
    <3>. QED  BY <1>3, <2>0, <2>2, <3>1 DEF Event
  <2>. QED  BY <2>1, <2>2
<1>15. /\ eo \in Event /\ eo.type = ev[on].type /\ eo.time = ev[on].time
       /\ eo.note = ev[on].note /\ eo.irregular = ev[on].irregular /\ eo.partner = x
  BY <1>3, <1>7, <1>13 DEF Event
<1>16. /\ ev' \in Seq(Event) /\ Len(ev') = n
       /\ \A e \in 1..n : ev'[e] = IF e = x THEN ex ELSE IF e = on THEN eo ELSE ev[e]
  <2>1. PICK a : a = [ev EXCEPT ![x] = ex]  OBVIOUS
  <2>2. a \in Seq(Event) /\ Len(a) = n /\ \A e \in 1..n : a[e] = IF e = x THEN ex ELSE ev[e]
    BY <1>1, <1>3, <1>14, <2>1, ExceptSeq DEF TypeOK
  <2>3. a[on] = ev[on]  BY <1>6, <1>8, <2>2
  <2>4. ev' = [a EXCEPT ![on] = [ev[on] EXCEPT !.partner = x]]
    <3>1. ev' = [a EXCEPT ![on] = [a[on] EXCEPT !.partner = x]]
      BY <1>1, <1>2, <1>3, <1>6, <1>8, <1>12, <2>1, ZenonT(60) DEF TypeOK
    <3>. QED  BY <2>3, <3>1
  <2>5. ev' = [a EXCEPT ![on] = eo]  BY <1>13, <2>4
  <2>6. ev' \in Seq(Event) /\ Len(ev') = n /\ \A e \in 1..n : ev'[e] = IF e = on THEN eo ELSE a[e]
    BY <1>6, <1>15, <2>2, <2>5, ExceptSeq
  <2>. QED  BY <1>8, <2>2, <2>6
<1>17. ASSUME NEW e \in 1..n
       PROVE  /\ ev'[e].type = ev[e].type /\ ev'[e].time = ev[e].time
              /\ ev'[e].note = ev[e].note
              /\ ev'[e].irregular = IF e = x /\ later THEN FALSE ELSE ev[e].irregular
              /\ ev'[e].partner = IF e = on THEN x ELSE IF e = x THEN on ELSE ev[e].partner
  BY <1>8, <1>14, <1>15, <1>16
<1>18. Alike(ev, ev')  BY <1>1, <1>16, <1>17 DEF Alike, TypeOK
<1>19. CoupledTo(ev, ev', n, x, on)
  <2>1. ASSUME NEW e \in 1..n
        PROVE  ev'[e].irregular = IF e = x /\ ev[x].time # ev[on].time THEN FALSE
                                  ELSE ev[e].irregular
    BY <1>17, <1>k
  <2>. QED  BY <1>17, <2>1 DEF CoupledTo
<1>20. Retabled(note_tbl, note_tbl', ev[x].note, ev[on].partner)
  <2>1. note_tbl' = [note_tbl EXCEPT ![ev[x].note] = ev[on].partner] /\ ev[x].note \in Note
        /\ ev[on].partner \in Nat
    BY <1>2, <1>5, <1>7, <1>k
  <2>. QED  BY <2>1 DEF Retabled, TypeOK
<1>21. PairChange(ev, ev', n, pos, x, p, p2, note_tbl, note_tbl', on)
  <2>1. on = note_tbl[ev[x].note]  BY <1>k
  <2>. QED  BY <1>1, <1>2, <1>3, <1>4, <1>11, <1>18, <1>19, <1>20, <2>1 DEF PairChange
<1>22. on = note_tbl[ev[x].note]  BY <1>k
<1>23. PairChange(ev, ev', n, pos, ep, p, p2, note_tbl, note_tbl', note_tbl[ev[ep].note])
  BY <1>21, <1>22, <1>x
<1>24. PairedAt(n, p, p2)  BY <1>0, <1>10, <1>11, <1>23 DEF PairedAt
<1>. QED  BY <1>24

LEMMA PairNoteStep ==
  ASSUME TypeOK, PairInv, stage = "pair", pos <= Len(list), pair_note,
         pos' = pos + 1, UNCHANGED <<last_ep, sort_by_priority, stage>>
  PROVE  TypeOK' /\ PairInv'
<1>0. PICK n, p, p2 : PairedAt(n, p, p2)  BY PairChanges
<1>1. /\ n \in Nat /\ n = Len(ev) /\ PairOK(p) /\ pos \in 1..n /\ ctop \in 1..pos
  BY <1>0 DEF PairedAt, At
<1>. DEFINE x == ep
            on == note_tbl[ev[x].note]
<1>21. PairChange(ev, ev', n, pos, x, p, p2, note_tbl, note_tbl', on)  BY <1>0 DEF PairedAt
<1>. HIDE DEF x, on
<1>2. npend' = npend - 1 /\ ctop' = NextTop(ev', list', npend')  BY DEF pair_note, list
<1>4. Counted(ev, p, pos, npend)  BY <1>1 DEF PairOK
<1>9. npend \in Int  BY DEF TypeOK
<1>10. eseq' \in Seq(Seq(Nat)) /\ Len(eseq') = 1 /\ eseq' = <<list'>>  BY <1>0 DEF PairedAt
<1>11. Placing(list', p2, n) /\ Timed(ev, p2)  BY <1>0 DEF PairedAt
<1>16. /\ ev' \in Seq(Event) /\ Len(ev') = n
       /\ \A e \in 1..n : ev'[e].type = ev[e].type /\ ev'[e].time = ev[e].time
  BY <1>1, <1>21 DEF PairChange, Alike
<1>22. /\ Coupled(ev', p2, pos + 1) /\ Chained(ev', p2, pos + 1, note_tbl')
       /\ \A e \in 1..n : Pending(ev', p2, pos + 1, e) <=> Pending(ev, p, pos, e) /\ e # on
       /\ on \in 1..n /\ Pending(ev, p, pos, on)
  BY <1>21, PairPairs
<1>23. Counted(ev', p2, pos + 1, npend')
  <2>1. npend' = npend - 1 /\ n = Len(ev')  BY <1>2, <1>16
  <2>2. Counted(ev', p2, pos + 1, npend - 1)
    <3>1. n \in Nat /\ Len(ev) = n  BY <1>1
    <3>2. Counted(ev, p, pos, npend)  BY <1>4
    <3>. QED  BY <1>9, <1>22, <2>1, <3>1, <3>2, CountLess
  <2>. QED  BY <2>1, <2>2
<1>24. Timed(ev', p2)  BY <1>1, <1>11, <1>16 DEF Timed
<1>25. ctop' \in Nat \ {0} /\ TopInTime(ev', list', ctop', pos + 1, npend')
  <2>1. pos \in Nat \ {0} /\ ctop \in Nat \ {0} /\ pos <= n /\ ctop <= pos /\ n \in Nat
    BY <1>1
  <2>2. Len(list') = n  BY <1>11 DEF Placing
  <2>3. Len(list') = Len(ev') /\ Len(ev') = n  BY <1>16, <2>2
  <2>4. ctop' = NextTop(ev', list', npend')  BY <1>2
  <2>. QED  BY <2>1, <2>3, <2>4, NextTopIs
<1>26. TypeOK'
  <2>1. note_tbl' \in [Note -> Nat]  BY <1>21 DEF PairChange, Retabled
  <2>2. npend' \in Int /\ pos' \in Nat \ {0}  BY <1>1, <1>2, <1>9
  <2>. QED  BY <1>10, <1>16, <1>25, <2>1, <2>2 DEF TypeOK
<1>27. PairOK(p2)'
  <2>1. Placing(list', p2, Len(ev'))  BY <1>11, <1>16
  <2>. QED  BY <1>22, <1>23, <1>24, <1>25, <2>1 DEF PairOK
<1>. QED  BY <1>10, <1>26, <1>27 DEF PairInv

-----------------------------------------------------------------------------
(* The chain of the pending note-ons of a note, from the note table on.    *)
ChainStep(all, v, g, i) ==
  IF i = 0 THEN v ELSE IF g[i-1] = NULL THEN NULL ELSE all[g[i-1]].partner
Chain(all, v, n, g) == g = [i \in 0..n |-> ChainStep(all, v, g, i)]

LEMMA ChainOne ==
  ASSUME NEW all, NEW v, NEW n \in Nat, NEW g, Chain(all, v, n, g)
  PROVE  \E h : Chain(all, v, n + 1, h)
<1>. DEFINE h == [i \in 0..(n+1) |-> IF i = n + 1 THEN ChainStep(all, v, g, i) ELSE g[i]]
<1>1. \A i \in 0..n : h[i] = g[i] /\ g[i] = ChainStep(all, v, g, i)
  <2>1. \A i \in 0..n : i \in 0..(n+1) /\ i # n + 1  OBVIOUS
  <2>2. \A i \in 0..n : h[i] = g[i]  BY <2>1
  <2>. HIDE DEF h
  <2>. QED  BY <2>2 DEF Chain
<1>2. n + 1 \in 0..(n+1) /\ h[n+1] = ChainStep(all, v, g, n + 1)  OBVIOUS
<1>3. ASSUME NEW i \in 0..(n+1)  PROVE h[i] = ChainStep(all, v, h, i)
  <2>. HIDE DEF h
  <2>1. i = n + 1 \/ i \in 0..n  OBVIOUS
  <2>2. h[i] = ChainStep(all, v, g, i)  BY <1>1, <1>2, <2>1
  <2>3. i # 0 => i - 1 \in 0..n  OBVIOUS
  <2>. QED  BY <1>1, <2>2, <2>3 DEF ChainStep
<1>4. h = [i \in 0..(n+1) |-> ChainStep(all, v, h, i)]
  <2>1. h = [i \in 0..(n+1) |-> h[i]]  OBVIOUS
  <2>. HIDE DEF h
  <2>. QED  BY <1>3, <2>1
<1>. HIDE DEF h
<1>. QED  BY <1>4 DEF Chain

LEMMA ChainExists ==
  ASSUME NEW all, NEW v, NEW n \in Nat
  PROVE  \E g : Chain(all, v, n, g)
<1>. DEFINE T == {m \in 0..n : ~ \E g : Chain(all, v, m, g)}
<1>1. CASE T # {}
  <2>1. T \in SUBSET Nat  OBVIOUS
  <2>2. PICK m \in T : \A k \in T : m <= k
    <3>. HIDE DEF T
    <3>. QED  BY <1>1, <2>1, Least
  <2>3. CASE m = 0
    <3>. DEFINE g == [i \in 0..0 |-> v]
    <3>1. \A i \in 0..0 : i = 0  OBVIOUS
    <3>2. g = [i \in 0..0 |-> ChainStep(all, v, g, i)]  BY <3>1 DEF ChainStep
    <3>3. Chain(all, v, 0, g)  BY <3>2 DEF Chain
    <3>. QED  BY <2>3, <3>3
  <2>4. CASE m # 0
    <3>1. m - 1 \in Nat /\ m - 1 \in 0..n /\ (m - 1) + 1 = m  BY <2>4
    <3>2. m - 1 \notin T  BY <2>2, <3>1
    <3>3. PICK g : Chain(all, v, m - 1, g)  BY <3>1, <3>2
    <3>5. \E h : Chain(all, v, (m - 1) + 1, h)  BY <3>1, <3>3, ChainOne
    <3>. QED  BY <3>1, <3>5
  <2>. QED  BY <2>3, <2>4
<1>2. CASE T = {}
  <2>1. n \in 0..n  OBVIOUS
  <2>2. n \notin T  BY <1>2
  <2>. QED  BY <2>1, <2>2
<1>. QED  BY <1>1, <1>2

ChainOf(all, k, tbl, n, g) ==
  /\ g[0] = tbl[k]
  /\ \A i \in 1..n : g[i] = IF g[i-1] = NULL THEN NULL ELSE all[g[i-1]].partner
LEMMA PendingNotesIs ==
  ASSUME NEW n \in Nat, n = Len(ev), NEW k \in Note
  PROVE  \E g : /\ PendingNotes(k) = {g[i] : i \in 0..n} \ {NULL}
                /\ ChainOf(ev, k, note_tbl, n, g)
<1>. DEFINE g == CHOOSE g : g = [i \in 0..Len(ev) |-> ChainStep(ev, note_tbl[k], g, i)]
<1>1. PICK h : Chain(ev, note_tbl[k], n, h)  BY ChainExists
<1>2. h = [i \in 0..Len(ev) |-> ChainStep(ev, note_tbl[k], h, i)]  BY <1>1 DEF Chain
<1>3. g = [i \in 0..Len(ev) |-> ChainStep(ev, note_tbl[k], g, i)]  BY <1>2
<1>4. PendingNotes(k) = {g[i] : i \in 0..Len(ev)} \ {NULL}
  BY Zenon DEF PendingNotes, ChainStep
<1>. HIDE DEF g
<1>5. \A i \in 0..n : g[i] = ChainStep(ev, note_tbl[k], g, i)  BY <1>3
<1>6. 0 \in 0..n /\ \A i \in 1..n : i \in 0..n /\ i # 0  OBVIOUS
<1>7. g[0] = note_tbl[k]  BY <1>5, <1>6 DEF ChainStep
<1>8. \A i \in 1..n : g[i] = IF g[i-1] = NULL THEN NULL ELSE ev[g[i-1]].partner
  BY <1>5, <1>6 DEF ChainStep
<1>. QED  BY <1>4, <1>7, <1>8 DEF ChainOf

(* The chain holds the pending note-ons of the note and no others.         *)
LEMMA ChainHolds ==
  ASSUME NEW all, NEW n \in Nat, n = Len(all), NEW p \in [1..n -> 1..n],
         \A e, f \in 1..n : p[e] = p[f] => e = f, NEW z, NEW tbl, Chained(all, p, z, tbl),
         NEW k \in Note, NEW g, ChainOf(all, k, tbl, n, g)
  PROVE  {g[i] : i \in 0..n} \ {NULL} = {e \in 1..n : Pending(all, p, z, e) /\ all[e].note = k}
<1>. USE DEF ChainOf
<1>. DEFINE In(i) == g[i] # NULL => /\ g[i] \in 1..n /\ Pending(all, p, z, g[i])
                                    /\ all[g[i]].note = k
<1>1. ASSUME NEW j \in 0..n  PROVE In(j)
  <2>. DEFINE T == {i \in 0..n : ~In(i)}
  <2>1. ASSUME T # {}  PROVE FALSE
    <3>1. T \in SUBSET Nat  OBVIOUS
    <3>2. PICK m \in T : \A l \in T : m <= l
      <4>. HIDE DEF T
      <4>. QED  BY <2>1, <3>1, Least
    <3>3. m \in 0..n /\ ~In(m)  OBVIOUS
    <3>4. m # 0
      <4>1. In(0)  BY DEF Chained, Tops
      <4>. HIDE DEF In
      <4>. QED  BY <3>3, <4>1
    <3>5. m - 1 \in 0..n /\ m \in 1..n /\ ~(m <= m - 1)  BY <3>3, <3>4
    <3>6. In(m - 1)
      <4>1. m - 1 \notin T
        <5>. HIDE DEF T
        <5>. QED  BY <3>2, <3>5
      <4>. HIDE DEF In
      <4>. QED  BY <3>5, <4>1
    <3>7. g[m] # NULL => g[m-1] # NULL /\ g[m] = all[g[m-1]].partner  BY <3>5
    <3>8. In(m)
      <4>1. ASSUME g[m] # NULL
            PROVE  g[m] \in 1..n /\ Pending(all, p, z, g[m]) /\ all[g[m]].note = k
        <5>1. PICK e : e = g[m-1]  OBVIOUS
        <5>2. e \in 1..n /\ Pending(all, p, z, e) /\ all[e].note = k /\ all[e].partner # NULL
          BY <3>6, <3>7, <4>1, <5>1
        <5>3. /\ all[e].partner \in 1..n /\ Pending(all, p, z, all[e].partner)
              /\ all[all[e].partner].note = all[e].note
          BY <5>2 DEF Chained, Links
        <5>. QED  BY <3>7, <4>1, <5>1, <5>2, <5>3
      <4>. QED  BY <4>1
    <3>. HIDE DEF In
    <3>. QED  BY <3>3, <3>8
  <2>. HIDE DEF In
  <2>. QED  BY <2>1
<1>2. ASSUME NEW e \in 1..n, Pending(all, p, z, e), all[e].note = k,
             \A i \in 0..n : g[i] # e
      PROVE  FALSE
  <2>. DEFINE Above(i) == g[i] # NULL /\ p[e] < p[g[i]] /\ p[g[i]] <= n - i
              T == {i \in 0..n : ~Above(i)}
  <2>0. \A x \in 1..n : p[x] \in 1..n  OBVIOUS
  <2>1. ASSUME T # {}  PROVE FALSE
    <3>1. T \in SUBSET Nat  OBVIOUS
    <3>2. PICK m \in T : \A l \in T : m <= l
      <4>. HIDE DEF T
      <4>. QED  BY <2>1, <3>1, Least
    <3>3. m \in 0..n /\ ~Above(m)  OBVIOUS
    <3>4. m # 0
      <4>1. 0 \in 0..n  OBVIOUS
      <4>2. tbl[k] # NULL /\ p[e] <= p[tbl[k]]  BY <1>2 DEF Chained, BelowTop
      <4>3. g[0] \in 1..n /\ g[0] # e  BY <1>1, <1>2, <4>1, <4>2
      <4>4. p[e] # p[g[0]]  BY <4>3
      <4>5. p[g[0]] \in 1..n /\ p[e] \in 1..n /\ p[e] <= p[g[0]]  BY <2>0, <4>2, <4>3
      <4>6. g[0] # NULL /\ p[e] < p[g[0]] /\ p[g[0]] <= n - 0  BY <4>2, <4>4, <4>5
      <4>. QED  BY <3>3, <4>6
    <3>5. m - 1 \in 0..n /\ m \in 1..n /\ ~(m <= m - 1)  BY <3>3, <3>4
    <3>6. Above(m - 1)
      <4>1. m - 1 \notin T
        <5>. HIDE DEF T
        <5>. QED  BY <3>2, <3>5
      <4>. HIDE DEF Above
      <4>. QED  BY <3>5, <4>1
    <3>7. PICK x : x = g[m-1]  OBVIOUS
    <3>8. x \in 1..n /\ Pending(all, p, z, x) /\ all[x].note = k
      BY <1>1, <3>5, <3>6, <3>7
    <3>9. x # NULL /\ p[e] < p[x] /\ p[x] <= n - (m - 1)  BY <3>6, <3>7
    <3>10. g[m] = all[x].partner  BY <3>5, <3>7, <3>9
    <3>11. all[x].partner # NULL /\ p[e] <= p[all[x].partner]
      BY <1>2, <3>8, <3>9 DEF Chained, NoneSkipped
    <3>12. all[x].partner \in 1..n /\ p[all[x].partner] < p[x]
      BY <3>8, <3>11 DEF Chained, Links
    <3>13. g[m] \in 1..n /\ p[g[m]] < p[x] /\ p[e] <= p[g[m]] /\ g[m] # NULL
      BY <3>10, <3>11, <3>12
    <3>14. g[m] # e  BY <1>2, <3>5
    <3>15. p[e] # p[g[m]]  BY <3>13, <3>14
    <3>16. p[g[m]] \in 1..n /\ p[e] \in 1..n /\ p[x] \in 1..n  BY <2>0, <3>8, <3>13
    <3>17. p[e] < p[g[m]] /\ p[g[m]] <= n - m
      <4>. DEFINE a == p[e]
                  b == p[g[m]]
                  c == p[x]
      <4>1. a \in 1..n /\ b \in 1..n /\ c \in 1..n  BY <3>16
      <4>2. b < c /\ c <= n - (m - 1) /\ a <= b /\ a # b  BY <3>9, <3>13, <3>15
      <4>3. m \in Nat /\ n \in Nat  BY <3>3
      <4>. HIDE DEF a, b, c
      <4>4. a < b /\ b <= n - m  BY <4>1, <4>2, <4>3
      <4>. QED  BY <4>4 DEF a, b
    <3>. QED  BY <3>3, <3>13, <3>17
  <2>2. Above(n)
    <3>1. n \in 0..n /\ n \notin T
      <4>. HIDE DEF T
      <4>. QED  BY <2>1
    <3>. HIDE DEF Above
    <3>. QED  BY <3>1
  <2>3. n \in 0..n  OBVIOUS
  <2>4. g[n] \in 1..n  BY <1>1, <2>2, <2>3
  <2>5. p[g[n]] \in 1..n  BY <2>0, <2>4
  <2>. QED  BY <2>2, <2>5
<1>3. ASSUME NEW e \in {g[i] : i \in 0..n} \ {NULL}
      PROVE  e \in 1..n /\ Pending(all, p, z, e) /\ all[e].note = k
  <2>1. PICK i \in 0..n : e = g[i]  OBVIOUS
  <2>2. In(i)  BY <1>1
  <2>. QED  BY <2>1, <2>2
<1>. HIDE DEF In
<1>4. ASSUME NEW e \in 1..n, Pending(all, p, z, e), all[e].note = k
      PROVE  e \in {g[i] : i \in 0..n} \ {NULL}
  <2>1. \E i \in 0..n : g[i] = e  BY <1>2, <1>4
  <2>2. e # NULL  BY DEF NULL
  <2>. QED  BY <2>1, <2>2
<1>. QED  BY <1>3, <1>4

EndedAt(n, p) ==
  /\ n \in Nat /\ n = Len(ev) /\ PairOK(p) /\ pos > n
  /\ list' = list /\ stage' = "done" /\ ev' \in Seq(Event) /\ Len(ev') = n
  /\ \A e \in 1..n :
       /\ ev'[e].type = ev[e].type /\ ev'[e].time = ev[e].time
       /\ ev'[e].note = ev[e].note /\ ev'[e].irregular = ev[e].irregular
       /\ ev'[e].partner = IF Pending(ev, p, pos, e) THEN NULL ELSE ev[e].partner
LEMMA EndChanges ==
  ASSUME TypeOK, PairInv, end_pair
  PROVE  \E n, p : EndedAt(n, p)
<1>1. /\ stage = "pair" /\ pos > Len(list) /\ stage' = "done"
      /\ ev' = [i \in DOMAIN ev |-> IF \E n \in Note : i \in PendingNotes(n)
                                    THEN [ev[i] EXCEPT !.partner = NULL] ELSE ev[i]]
      /\ UNCHANGED <<eseq, last_ep, sort_by_priority, pos, ctop, note_tbl, npend>>
  BY DEF end_pair, pairVars
<1>2. PICK n \in Nat : n = Len(ev) /\ DOMAIN ev = 1..n  BY LenProperties DEF TypeOK
<1>3. PICK p : PairOK(p)  BY <1>1 DEF PairInv
<1>4. /\ Placing(list, p, n) /\ Timed(ev, p) /\ Coupled(ev, p, pos)
      /\ Chained(ev, p, pos, note_tbl)
  BY <1>2, <1>3 DEF PairOK
<1>5. p \in [1..n -> 1..n] /\ \A e, f \in 1..n : p[e] = p[f] => e = f
  <2>1. p \in [1..n -> 1..n] /\ \A e \in 1..n : list[p[e]] = e  BY <1>4 DEF Placing
  <2>2. ASSUME NEW e \in 1..n, NEW f \in 1..n, p[e] = p[f]  PROVE e = f
    <3>1. list[p[e]] = list[p[f]]  BY <2>2
    <3>. QED  BY <2>1, <3>1
  <2>. QED  BY <2>1, <2>2
<1>6. ASSUME NEW k \in Note
      PROVE  PendingNotes(k) = {e \in 1..n : Pending(ev, p, pos, e) /\ ev[e].note = k}
  <2>1. PICK g : /\ PendingNotes(k) = {g[i] : i \in 0..n} \ {NULL}
                 /\ ChainOf(ev, k, note_tbl, n, g)
    BY <1>2, PendingNotesIs
  <2>2. {g[i] : i \in 0..n} \ {NULL} = {e \in 1..n : Pending(ev, p, pos, e) /\ ev[e].note = k}
    BY <1>2, <1>4, <1>5, <2>1, ChainHolds
  <2>. QED  BY <2>1, <2>2
<1>7. ASSUME NEW e \in 1..n
      PROVE  (\E k \in Note : e \in PendingNotes(k)) <=> Pending(ev, p, pos, e)
  <2>1. Pending(ev, p, pos, e) => ev[e].note \in Note  BY <1>2, <1>4 DEF Coupled, Pending
  <2>. QED  BY <1>6, <2>1
<1>8. ASSUME NEW e \in 1..n
      PROVE  ev'[e] = IF Pending(ev, p, pos, e) THEN [ev[e] EXCEPT !.partner = NULL] ELSE ev[e]
  BY <1>1, <1>2, <1>7
<1>9. \A e \in 1..n : ev[e] \in Event  BY <1>2, ElementOfSeq DEF TypeOK
<1>10. ASSUME NEW e \in 1..n
       PROVE  /\ ev'[e] \in Event /\ ev'[e].type = ev[e].type /\ ev'[e].time = ev[e].time
              /\ ev'[e].note = ev[e].note /\ ev'[e].irregular = ev[e].irregular
              /\ ev'[e].partner = IF Pending(ev, p, pos, e) THEN NULL ELSE ev[e].partner
  <2>1. CASE Pending(ev, p, pos, e)
    <3>1. ev'[e] = [ev[e] EXCEPT !.partner = NULL]  BY <1>8, <2>1
    <3>2. ev[e] \in Event  BY <1>9
    <3>. QED  BY <2>1, <3>1, <3>2 DEF Event, NULL
  <2>2. CASE ~Pending(ev, p, pos, e)
    <3>1. ev'[e] = ev[e]  BY <1>8, <2>2
    <3>. QED  BY <1>9, <2>2, <3>1
  <2>. QED  BY <2>1, <2>2
<1>11. ev' \in Seq(Event) /\ Len(ev') = n
  <2>1. DOMAIN ev' = 1..n  BY <1>1, <1>2
  <2>2. ev' = [i \in 1..n |-> ev'[i]]  BY <1>1, <1>2
  <2>3. ev' \in [1..n -> Event]  BY <1>10, <2>1, <2>2
  <2>. QED  BY <2>3, LenProperties
<1>12. list' = list  BY <1>1 DEF list
<1>13. pos > n  BY <1>1, <1>4 DEF Placing
<1>14. EndedAt(n, p)  BY <1>1, <1>2, <1>3, <1>10, <1>11, <1>12, <1>13 DEF EndedAt
<1>. QED  BY <1>14

LEMMA EndPairStep ==
  ASSUME TypeOK, PairInv, end_pair
  PROVE  TypeOK' /\ PairInv' /\ stage' = "done"
<1>1. /\ stage = "pair" /\ stage' = "done"
      /\ UNCHANGED <<eseq, last_ep, sort_by_priority, pos, ctop, note_tbl, npend>>
  BY DEF end_pair, pairVars
<1>2. PICK n, p : EndedAt(n, p)  BY EndChanges
<1>3. n = Len(ev) /\ PairOK(p)  BY <1>2 DEF EndedAt
<1>4. /\ Placing(list, p, n) /\ Timed(ev, p) /\ Coupled(ev, p, pos)
  BY <1>3 DEF PairOK
<1>9. \A e \in 1..n : ev[e] \in Event  BY <1>3, ElementOfSeq DEF TypeOK
<1>10. ASSUME NEW e \in 1..n
       PROVE  /\ ev'[e].type = ev[e].type /\ ev'[e].time = ev[e].time
              /\ ev'[e].note = ev[e].note /\ ev'[e].irregular = ev[e].irregular
              /\ ev'[e].partner = IF Pending(ev, p, pos, e) THEN NULL ELSE ev[e].partner
  BY <1>2 DEF EndedAt
<1>11. ev' \in Seq(Event) /\ Len(ev') = n /\ list' = list  BY <1>2 DEF EndedAt
<1>12. ASSUME NEW f, NEW e, Couple(ev, p, f, e)
       PROVE  Couple(ev', p, f, e)
  <2>1. f \in 1..n /\ e \in 1..n  BY <1>3, <1>12 DEF Couple
  <2>2. ~Pending(ev, p, pos, e) /\ ~Pending(ev, p, pos, f)
    BY <1>12, <2>1 DEF Couple, Pending, NULL
  <2>. QED  BY <1>10, <1>11, <1>12, <2>1, <2>2 DEF Couple
<1>13. ASSUME NEW e \in 1..n, ev'[e].type # "ctrl", ev'[e].partner # NULL
       PROVE  Couple(ev', p, ev'[e].partner, e) \/ Couple(ev', p, e, ev'[e].partner)
  <2>1. ~Pending(ev, p, pos, e) /\ ev'[e].partner = ev[e].partner /\ ev[e].type # "ctrl"
    BY <1>10, <1>13
  <2>2. ev[e].type \in {"on", "off"}  BY <1>9, <2>1 DEF Event
  <2>3. Couple(ev, p, ev[e].partner, e) \/ Couple(ev, p, e, ev[e].partner)
    BY <1>3, <1>4, <1>13, <2>1, <2>2 DEF Coupled
  <2>. QED  BY <1>12, <2>1, <2>3
<1>14. Timed(ev', p)  BY <1>3, <1>4, <1>10, <1>11 DEF Timed
<1>16. DoneOK(p)'  BY <1>4, <1>11, <1>13, <1>14 DEF DoneOK
<1>17. TypeOK'  BY <1>1, <1>11 DEF TypeOK
<1>18. Len(eseq') = 1  BY <1>1 DEF PairInv
<1>. QED  BY <1>1, <1>16, <1>17, <1>18 DEF PairInv

-----------------------------------------------------------------------------
(* npend is not initialized; the theorems are about the programs in which  *)
(* the memory it is read from is not negative.                             *)
NonNegative == Uninitialized \subseteq Nat

EventInv == TypeOK /\ CollectInv /\ PairInv

LEMMA EventInit ==
  ASSUME NonNegative, Init
  PROVE  EventInv
<1>1. TypeOK
  <2>1. sort_by_priority \in BOOLEAN /\ npend \in Int  BY OptionAssumption DEF Init
  <2>2. note_tbl \in [Note -> Nat]  BY DEF Init, NULL
  <2>. QED  BY <2>1, <2>2 DEF Init, TypeOK, NULL
<1>2. CollectInv
  <2>1. Len(ev) = 0 /\ Len(eseq) = 0 /\ eseq = <<>>  BY DEF Init
  <2>2. 1..0 = {}  OBVIOUS
  <2>3. Raw(ev)  BY <2>1, <2>2 DEF Raw
  <2>4. Collected(ev, eseq, Len(ev))
    BY <2>1, <2>2 DEF Collected, Ranged, Covers, Ranked, Apart
  <2>5. AtEnd(eseq, Len(ev), last_ep)  BY <2>1 DEF AtEnd
  <2>. QED  BY <2>3, <2>4, <2>5 DEF CollectInv
<1>3. PairInv
  <2>1. stage = "collect" /\ npend \in Nat  BY DEF Init, NonNegative
  <2>. QED  BY <2>1 DEF PairInv
<1>. QED  BY <1>1, <1>2, <1>3 DEF EventInv

LEMMA EventStep ==
  ASSUME EventInv, [Next]_vars
  PROVE  EventInv'
<1>. USE DEF EventInv
<1>1. CASE do_ctrl \/ do_note_on \/ do_note_off
  <2>1. TypeOK' /\ CollectInv' /\ stage' = "collect"  BY <1>1, OneEventStep
  <2>2. npend' = npend /\ stage = "collect"
    BY <1>1 DEF do_ctrl, do_note_on, do_note_off, insert_evlist, pairVars
  <2>3. PairInv'  BY <2>1, <2>2 DEF PairInv
  <2>. QED  BY <2>1, <2>3
<1>2. CASE do_pitch
  <2>1. TypeOK' /\ CollectInv' /\ stage' = "collect"  BY <1>2, PitchStep
  <2>2. npend' = npend /\ stage = "collect"  BY <1>2 DEF do_pitch, pairVars
  <2>3. PairInv'  BY <2>1, <2>2 DEF PairInv
  <2>. QED  BY <2>1, <2>3
<1>3. CASE begin_sort \/ sort_event
  <2>1. TypeOK' /\ CollectInv' /\ stage' = "sort"  BY <1>3, SortStep
  <2>2. npend' = npend /\ stage \in {"collect", "sort"}
    BY <1>3 DEF begin_sort, sort_event, pairVars
  <2>3. PairInv'  BY <2>1, <2>2 DEF PairInv
  <2>. QED  BY <2>1, <2>3
<1>4. CASE begin_pair
  <2>1. TypeOK' /\ PairInv' /\ stage' = "pair"  BY <1>4, BeginPairStep
  <2>. QED  BY <2>1 DEF CollectInv
<1>5. CASE pair_notes
  <2>1. /\ stage = "pair" /\ pos <= Len(list) /\ pos' = pos + 1
        /\ UNCHANGED <<last_ep, sort_by_priority, stage>>
        /\ pend_note \/ pair_note \/ skip_event
    BY <1>5 DEF pair_notes
  <2>2. TypeOK' /\ PairInv'  BY <2>1, PendStep, PairNoteStep, SkipStep
  <2>3. stage' = "pair"  BY <2>1
  <2>. QED  BY <2>2, <2>3 DEF CollectInv
<1>6. CASE end_pair
  <2>1. TypeOK' /\ PairInv' /\ stage' = "done"  BY <1>6, EndPairStep
  <2>. QED  BY <2>1 DEF CollectInv
<1>7. CASE UNCHANGED vars
  <2>1. /\ ev' = ev /\ eseq' = eseq /\ last_ep' = last_ep /\ stage' = stage
        /\ sort_by_priority' = sort_by_priority /\ pos' = pos /\ ctop' = ctop
        /\ note_tbl' = note_tbl /\ npend' = npend
    BY <1>7 DEF vars, pairVars
  <2>2. TypeOK'  BY <2>1 DEF TypeOK
  <2>3. CollectInv'
    <3>1. Collected(ev', eseq', Len(ev')) <=> Collected(ev, eseq, Len(ev))  BY <2>1
    <3>2. Collected(ev, eseq, Len(ev)) => Collected(ev, eseq, Len(ev))'
      BY <2>1, <3>1, CollectedNext
    <3>. QED  BY <2>1, <3>2 DEF CollectInv
  <2>4. list' = list  BY <2>1 DEF list
  <2>5. ASSUME NEW p  PROVE (PairOK(p) => PairOK(p)') /\ (DoneOK(p) => DoneOK(p)')
    BY <2>1, <2>4 DEF PairOK, DoneOK
  <2>6. PairInv'  BY <2>1, <2>5 DEF PairInv
  <2>. QED  BY <2>2, <2>3, <2>6
<1>8. CASE terminated  BY <1>7, <1>8 DEF terminated
<1>. QED  BY <1>1, <1>2, <1>3, <1>4, <1>5, <1>6, <1>7, <1>8 DEF Next

LEMMA EventInvariant ==
  ASSUME NonNegative
  PROVE  Spec => []EventInv
<1>1. Init => EventInv  BY EventInit
<1>2. EventInv /\ [Next]_vars => EventInv'  BY EventStep
<1>. QED  BY <1>1, <1>2, PTL DEF Spec

-----------------------------------------------------------------------------
LEMMA PlacingPlaced ==
  ASSUME TypeOK, NEW p, Placing(list, p, Len(ev)), Len(eseq) = 1
  PROVE  Kept
<1>1. PICK n \in Nat : n = Len(ev)  BY LenProperties DEF TypeOK
<1>2. list \in Seq(Nat) /\ eseq = <<list>>  BY PairTypes
<1>3. /\ p \in [1..n -> 1..n] /\ Len(list) = n
      /\ \A i \in 1..n : list[i] \in 1..n /\ p[list[i]] = i
      /\ \A e \in 1..n : list[p[e]] = e
  BY <1>1 DEF Placing
<1>4. Len(eseq) = 1 /\ eseq[1] = list /\ \A k \in 1..1 : k = 1  BY <1>2
<1>5. Ranged(eseq, n)  BY <1>3, <1>4 DEF Ranged
<1>6. Single(eseq)
  <2>1. ASSUME NEW i \in 1..n, NEW j \in 1..n, list[i] = list[j]  PROVE i = j
    <3>1. p[list[i]] = p[list[j]]  BY <2>1
    <3>. QED  BY <1>3, <3>1
  <2>2. ASSUME NEW k \in 1..1, NEW l \in 1..1, NEW i \in 1..Len(eseq[k]),
               NEW j \in 1..Len(eseq[l]), eseq[k][i] = eseq[l][j]
        PROVE  k = l /\ i = j
    <3>1. k = 1 /\ l = 1  OBVIOUS
    <3>2. i \in 1..n /\ j \in 1..n /\ list[i] = list[j]  BY <1>3, <1>4, <2>2, <3>1
    <3>. QED  BY <2>1, <3>1, <3>2
  <2>. QED  BY <1>4, <2>2 DEF Single
<1>7. Covers(eseq, n)
  <2>1. ASSUME NEW e \in 1..n  PROVE \E i \in 1..Len(eseq[1]) : eseq[1][i] = e
    <3>1. p[e] \in 1..n  BY <1>3
    <3>. QED  BY <1>3, <1>4, <3>1
  <2>2. 1 \in 1..1  OBVIOUS
  <2>. QED  BY <1>4, <2>1, <2>2 DEF Covers
<1>. QED  BY <1>1, <1>5, <1>6, <1>7, KeptPlaced DEF Placed, TypeOK

(* Whatever order the events are output in, the merge sort orders them by  *)
(* time and priority, leaves equal ones in the order of output, and no     *)
(* event is lost or listed twice, not by the pairing either.               *)
THEOREM SortIsStable ==
  ASSUME NonNegative
  PROVE  Spec => []SortedStably
<1>1. EventInv => SortedStably
  <2>. SUFFICES ASSUME EventInv  PROVE SortedStably  OBVIOUS
  <2>. USE DEF EventInv
  <2>1. CASE stage \in {"collect", "sort"}
    <3>1. Collected(ev, eseq, Len(ev))  BY <2>1 DEF CollectInv
    <3>. QED  BY <3>1, CollectedSortedStably DEF TypeOK
  <2>2. CASE stage \in {"pair", "done"}
    <3>1. \E p : Placing(list, p, Len(ev))  BY <2>2 DEF PairInv, PairOK, DoneOK
    <3>2. Kept  BY <2>2, <3>1, PlacingPlaced DEF PairInv
    <3>3. stage \notin {"collect", "sort"}  BY <2>2
    <3>. QED  BY <3>2, <3>3 DEF SortedStably
  <2>. QED  BY <2>1, <2>2 DEF TypeOK
<1>. QED  BY <1>1, EventInvariant, PTL

(* Pairing leaves the events in the order of time: a note-off that moves   *)
(* to ctop finds it in its own time, because npend counts every pending    *)
(* note-on and so is not 0 when one is found.                              *)
THEOREM TimeIsKept ==
  ASSUME NonNegative
  PROVE  Spec => []TimeOrder
<1>1. EventInv => TimeOrder
  <2>. SUFFICES ASSUME EventInv, stage \in {"pair", "done"},
                       NEW i \in DOMAIN list, NEW j \in DOMAIN list, i < j
                PROVE  ev[list[i]].time <= ev[list[j]].time
    BY DEF TimeOrder
  <2>. USE DEF EventInv
  <2>1. PICK n \in Nat : n = Len(ev)  BY LenProperties DEF TypeOK
  <2>2. PICK p : Placing(list, p, n) /\ Timed(ev, p)  BY <2>1 DEF PairInv, PairOK, DoneOK
  <2>3. list \in Seq(Nat)  BY PairTypes DEF PairInv
  <2>4. i \in 1..n /\ j \in 1..n  BY <2>2, <2>3, LenProperties DEF Placing
  <2>5. list[i] \in 1..n /\ list[j] \in 1..n /\ p[list[i]] < p[list[j]]
    BY <2>2, <2>4 DEF Placing
  <2>. QED  BY <2>1, <2>2, <2>5 DEF Timed
<1>. QED  BY <1>1, EventInvariant, PTL

(* When pairing ends, partners are a note-on and a later note-off of one   *)
(* note that refer to each other, and the links that held the chains of    *)
(* pending notes together are gone: PendingNotes finds every one of them.  *)
THEOREM PartnersMatch ==
  ASSUME NonNegative
  PROVE  Spec => []Partners
<1>1. EventInv => Partners
  <2>. SUFFICES ASSUME EventInv, stage = "done"  PROVE Partners  BY DEF Partners
  <2>. USE DEF EventInv
  <2>1. PICK n \in Nat : n = Len(ev) /\ DOMAIN ev = 1..n  BY LenProperties DEF TypeOK
  <2>2. PICK p : DoneOK(p)  BY DEF PairInv
  <2>3. Placing(list, p, n)  BY <2>1, <2>2 DEF DoneOK
  <2>4. list \in Seq(Nat)  BY PairTypes DEF PairInv
  <2>5. DOMAIN list = 1..n  BY <2>3, <2>4, LenProperties DEF Placing
  <2>6. ASSUME NEW e \in 1..n, ev[e].type # "ctrl", ev[e].partner # NULL
        PROVE  Couple(ev, p, ev[e].partner, e) \/ Couple(ev, p, e, ev[e].partner)
    BY <2>1, <2>2, <2>6 DEF DoneOK
  <2>7. ASSUME NEW e \in DOMAIN ev, ev[e].type # "ctrl", ev[e].partner # NULL
        PROVE  LET f == ev[e].partner
               IN ev[f].partner = e /\ ev[f].note = ev[e].note /\ ev[f].type # ev[e].type
    <3>1. CASE Couple(ev, p, ev[e].partner, e)  BY <3>1 DEF Couple
    <3>2. CASE Couple(ev, p, e, ev[e].partner)  BY <3>2 DEF Couple
    <3>. QED  BY <2>1, <2>6, <2>7, <3>1, <3>2
  <2>8. ASSUME NEW i \in DOMAIN list, ev[list[i]].type = "off", ev[list[i]].partner # NULL
        PROVE  /\ \E j \in 1..(i-1) : list[j] = ev[list[i]].partner
               /\ ev[list[i]].irregular <=>
                    ev[list[i]].time = ev[ev[list[i]].partner].time
    <3>1. PICK e : e = list[i]  OBVIOUS
    <3>2. PICK f : f = ev[e].partner  OBVIOUS
    <3>3. i \in 1..n /\ e \in 1..n /\ p[e] = i  BY <2>3, <2>5, <2>8, <3>1 DEF Placing
    <3>4. ev[e].type = "off" /\ ev[e].partner # NULL  BY <2>8, <3>1
    <3>5. Couple(ev, p, f, e)
      <4>1. Couple(ev, p, f, e) \/ Couple(ev, p, e, f)  BY <2>6, <3>2, <3>3, <3>4
      <4>. QED  BY <3>4, <4>1 DEF Couple
    <3>6. f \in 1..n /\ p[f] < p[e] /\ (ev[e].irregular <=> ev[f].time = ev[e].time)
      BY <2>1, <3>5 DEF Couple
    <3>7. p[f] \in 1..n /\ list[p[f]] = f  BY <2>3, <3>6 DEF Placing
    <3>8. p[f] \in 1..(i-1)  BY <3>3, <3>6, <3>7
    <3>9. \E j \in 1..(i-1) : list[j] = f  BY <3>7, <3>8
    <3>. QED  BY <3>1, <3>2, <3>6, <3>9
  <2>. QED  BY <2>7, <2>8 DEF Partners
<1>. QED  BY <1>1, EventInvariant, PTL

-----------------------------------------------------------------------------
(* Pairs that nest.  What pairing made a pair of: f and e, unless they     *)
(* were output together.                                                   *)
Spans(all, f, e) ==
  /\ f \in 1..Len(all) /\ e \in 1..Len(all) /\ e # f + 1 /\ f # e + 1
  /\ all[f].type = "on" /\ all[e].type = "off" /\ all[f].partner = e
Lone(all, p, z, e) == all[e].type = "off" /\ all[e].partner = NULL /\ p[e] < z

(* The spans end before z, do not cross, and have no pending or isolated   *)
(* event within them.                                                      *)
Ended(all, p, z) == \A f, e \in 1..Len(all) : Spans(all, f, e) => p[e] < z
NotCrossed(all, p) ==
  \A f, e, g, h \in 1..Len(all) :
    Spans(all, f, e) /\ Spans(all, g, h) /\ all[f].note = all[g].note /\ p[f] < p[g] =>
      p[h] < p[e] \/ p[e] < p[g] \/ all[g].time = all[e].time
NoneWithin(all, p, z) ==
  \A q, f, e \in 1..Len(all) :
    (Pending(all, p, z, q) \/ Lone(all, p, z, q)) /\ Spans(all, f, e)
      /\ all[q].note = all[f].note =>
      p[q] < p[f] \/ p[e] < p[q]
(* A note-off that moved lies before the insertion point, while an earlier *)
(* note-on of its note is pending.                                         *)
BeforeTop(all, p, z, t) ==
  \A q, f, e \in 1..Len(all) :
    Pending(all, p, z, q) /\ Spans(all, f, e) /\ all[q].note = all[f].note
      /\ sort_by_priority /\ p[q] < p[f] /\ all[f].time # all[e].time => p[e] < t
(* An isolated note-off lies before the pending note-ons.                  *)
LoneFirst(all, p, z) ==
  \A x, q \in 1..Len(all) :
    Lone(all, p, z, x) /\ Pending(all, p, z, q) /\ all[x].note = all[q].note => p[x] < p[q]
Nested(all, p, z, t) ==
  /\ Ended(all, p, z) /\ NotCrossed(all, p) /\ NoneWithin(all, p, z)
  /\ BeforeTop(all, p, z, t) /\ LoneFirst(all, p, z)

NestInv ==
  /\ stage = "pair" => \A p : PairOK(p) => Nested(ev, p, pos, ctop)
  /\ stage = "done" => \A p : DoneOK(p) =>
       /\ NotCrossed(ev, p) /\ NoneWithin(ev, p, Len(ev) + 1) /\ LoneFirst(ev, p, Len(ev) + 1)

LEMMA OnePlacing ==
  ASSUME NEW n, NEW l, NEW p, NEW q, Placing(l, p, n), Placing(l, q, n)
  PROVE  p = q
<1>1. \A e \in 1..n : q[e] \in 1..n /\ l[q[e]] = e
  BY DEF Placing
<1>2. \A e \in 1..n : p[e] = q[e]
  BY <1>1 DEF Placing
<1>. QED  BY <1>2 DEF Placing

(* An event is skipped: it has a partner, or is an isolated note-off.      *)
SkipNest(all, n, z, x, p, tbl) ==
  /\ n = Len(all) /\ n \in Nat /\ z \in 1..n /\ x \in 1..n /\ p[x] = z
  /\ p \in [1..n -> 1..n] /\ \A e, f \in 1..n : p[e] = p[f] => e = f
  /\ Chained(all, p, z, tbl)
  /\ \A e \in 1..n : Pending(all, p, z + 1, e) <=> Pending(all, p, z, e)
  /\ all[x].type = "off" /\ all[x].partner = NULL => all[x].note \in Note /\ tbl[all[x].note] = NULL
  /\ \A e \in 1..n : Pending(all, p, z, e) => all[e].note \in Note

LEMMA SkipNested ==
  ASSUME NEW all, NEW n, NEW z, NEW x, NEW p, NEW tbl, NEW t \in Nat, NEW t2 \in Nat,
         SkipNest(all, n, z, x, p, tbl), Nested(all, p, z, t), t <= t2
  PROVE  Nested(all, p, z + 1, t2)
<1>1. /\ n = Len(all) /\ n \in Nat /\ z \in 1..n /\ x \in 1..n /\ p[x] = z
      /\ p \in [1..n -> 1..n] /\ \A e, f \in 1..n : p[e] = p[f] => e = f
      /\ \A e \in 1..n : Pending(all, p, z + 1, e) <=> Pending(all, p, z, e)
  BY DEF SkipNest
<1>2. \A e \in 1..n : p[e] < z + 1 <=> p[e] < z \/ e = x
  BY <1>1
<1>3. \A e \in 1..n : Lone(all, p, z + 1, e) => Lone(all, p, z, e) \/ e = x
  BY <1>2 DEF Lone
<1>4. ASSUME Lone(all, p, z + 1, x), NEW q \in 1..n, Pending(all, p, z, q)
      PROVE  all[q].note # all[x].note
  <2>1. BelowTop(all, p, z, tbl) /\ all[x].note \in Note /\ tbl[all[x].note] = NULL
    BY <1>4 DEF SkipNest, Chained, Lone
  <2> QED BY <1>1, <1>4, <2>1 DEF BelowTop
<1>5. \A f, e \in 1..n : Spans(all, f, e) => p[e] < z /\ p[e] < z + 1
  BY <1>1, <1>2 DEF Nested, Ended
<1>6. Ended(all, p, z + 1)
  BY <1>1, <1>5 DEF Ended
<1>7. NoneWithin(all, p, z + 1)
  <2> SUFFICES ASSUME NEW q \in 1..n, NEW f \in 1..n, NEW e \in 1..n, Spans(all, f, e),
                      Pending(all, p, z + 1, q) \/ Lone(all, p, z + 1, q),
                      all[q].note = all[f].note
               PROVE  p[q] < p[f] \/ p[e] < p[q]
    BY <1>1 DEF NoneWithin
  <2>1. CASE q = x
    BY <1>1, <1>5, <2>1
  <2>2. CASE Pending(all, p, z, q) \/ Lone(all, p, z, q)
    BY <1>1, <2>2 DEF Nested, NoneWithin
  <2> QED BY <1>1, <1>3, <2>1, <2>2
<1>8. BeforeTop(all, p, z + 1, t2)
  <2>1. BeforeTop(all, p, z, t)
    BY DEF Nested
  <2> SUFFICES ASSUME NEW q \in 1..n, NEW f \in 1..n, NEW e \in 1..n, Spans(all, f, e),
                      Pending(all, p, z, q), sort_by_priority, p[q] < p[f],
                      all[q].note = all[f].note, all[f].time # all[e].time
               PROVE  p[e] < t2
    BY <1>1 DEF BeforeTop
  <2>2. p[e] < t
    BY <1>1, <2>1 DEF BeforeTop
  <2>3. p[e] \in Int
    BY <1>1
  <2> QED BY <2>2, <2>3
<1>9. LoneFirst(all, p, z + 1)
  <2> SUFFICES ASSUME NEW y \in 1..n, NEW q \in 1..n, Lone(all, p, z + 1, y),
                      Pending(all, p, z, q), all[y].note = all[q].note
               PROVE  p[y] < p[q]
    BY <1>1 DEF LoneFirst
  <2>1. Lone(all, p, z, y)
    BY <1>3, <1>4
  <2> QED BY <1>1, <2>1 DEF Nested, LoneFirst
<1>. QED BY <1>6, <1>7, <1>8, <1>9 DEF Nested

(* What is pending, isolated and a span after a step, when the other       *)
(* events keep their order: a note-on x is pending now.                    *)
PendNest(all, all2, n, z, x, p) ==
  /\ n = Len(all) /\ n = Len(all2) /\ n \in Nat /\ z \in 1..n /\ x \in 1..n /\ p[x] = z
  /\ p \in [1..n -> 1..n] /\ \A e, f \in 1..n : p[e] = p[f] => e = f
  /\ \A e \in 1..n : all2[e].type = all[e].type /\ all2[e].note = all[e].note
  /\ \A e \in 1..n : all2[e].time = all[e].time
  /\ \A e \in 1..n : e # x => all2[e].partner = all[e].partner
  /\ all[x].type = "on" /\ all[x].partner = NULL
  /\ all2[x].partner # NULL => all2[all2[x].partner].type = "on"
  /\ \A f, e \in 1..n : Spans(all, f, e) => p[f] < p[e]
  /\ \A e \in 1..n : Pending(all2, p, z + 1, e) <=> Pending(all, p, z, e) \/ e = x

LEMMA PendNested ==
  ASSUME NEW all, NEW all2, NEW n, NEW z, NEW x, NEW p, NEW t \in Nat, NEW t2 \in Nat,
         PendNest(all, all2, n, z, x, p), Nested(all, p, z, t), t <= t2
  PROVE  Nested(all2, p, z + 1, t2)
<1>1. /\ n = Len(all) /\ n = Len(all2) /\ n \in Nat /\ z \in 1..n /\ x \in 1..n /\ p[x] = z
      /\ p \in [1..n -> 1..n] /\ \A e, f \in 1..n : p[e] = p[f] => e = f
      /\ \A e \in 1..n : Pending(all2, p, z + 1, e) <=> Pending(all, p, z, e) \/ e = x
      /\ \A e \in 1..n : all2[e].type = all[e].type /\ all2[e].note = all[e].note
      /\ \A e \in 1..n : all2[e].time = all[e].time
      /\ \A e \in 1..n : e # x => all2[e].partner = all[e].partner
      /\ all[x].type = "on" /\ all[x].partner = NULL
      /\ all2[x].partner # NULL => all2[all2[x].partner].type = "on"
      /\ \A f, e \in 1..n : Spans(all, f, e) => p[f] < p[e]
  BY DEF PendNest
<1>2. \A e \in 1..n : p[e] < z + 1 <=> p[e] < z \/ e = x
  BY <1>1
<1>3. \A e \in 1..n : Lone(all2, p, z + 1, e) => Lone(all, p, z, e)
  BY <1>1, <1>2 DEF Lone
<1>4. ASSUME NEW f \in 1..n, NEW e \in 1..n, Spans(all2, f, e)
      PROVE  Spans(all, f, e)
  <2>1. f # x
    <3>1. all2[f].partner = e /\ all2[e].type = "off" /\ e # NULL
      BY <1>1, <1>4 DEF Spans, NULL
    <3> QED BY <1>1, <3>1
  <2> QED BY <1>1, <1>4, <2>1 DEF Spans
<1>5. \A f, e \in 1..n : Spans(all, f, e) => p[e] < z /\ p[e] < z + 1
  BY <1>1, <1>2 DEF Nested, Ended
<1>6. Ended(all2, p, z + 1)
  BY <1>1, <1>4, <1>5 DEF Ended
<1>7. NotCrossed(all2, p)
  <2> SUFFICES ASSUME NEW f \in 1..n, NEW e \in 1..n, NEW g \in 1..n, NEW h \in 1..n,
                      Spans(all, f, e), Spans(all, g, h), all[f].note = all[g].note, p[f] < p[g]
               PROVE  p[h] < p[e] \/ p[e] < p[g] \/ all[g].time = all[e].time
    BY <1>1, <1>4 DEF NotCrossed
  <2> QED BY <1>1 DEF Nested, NotCrossed
<1>8. NoneWithin(all2, p, z + 1)
  <2> SUFFICES ASSUME NEW q \in 1..n, NEW f \in 1..n, NEW e \in 1..n, Spans(all, f, e),
                      Pending(all, p, z, q) \/ q = x \/ Lone(all, p, z, q),
                      all[q].note = all[f].note
               PROVE  p[q] < p[f] \/ p[e] < p[q]
    BY <1>1, <1>3, <1>4 DEF NoneWithin
  <2>1. CASE q = x
    BY <1>1, <1>5, <2>1
  <2>2. CASE Pending(all, p, z, q) \/ Lone(all, p, z, q)
    BY <1>1, <2>2 DEF Nested, NoneWithin
  <2> QED BY <2>1, <2>2
<1>9. BeforeTop(all2, p, z + 1, t2)
  <2>1. BeforeTop(all, p, z, t)
    BY DEF Nested
  <2> SUFFICES ASSUME NEW q \in 1..n, NEW f \in 1..n, NEW e \in 1..n, Spans(all, f, e),
                      Pending(all, p, z, q) \/ q = x, sort_by_priority, p[q] < p[f],
                      all[q].note = all[f].note, all[f].time # all[e].time
               PROVE  p[e] < t2
    BY <1>1, <1>4 DEF BeforeTop
  <2>2. CASE Pending(all, p, z, q)
    <3>1. p[e] < t
      BY <1>1, <2>1, <2>2 DEF BeforeTop
    <3>2. p[e] \in Int
      BY <1>1
    <3> QED BY <3>1, <3>2
  <2>3. CASE q = x
    <3>1. z < p[f] /\ p[e] < z
      BY <1>1, <1>5, <2>3
    <3>2. p[f] < p[e] /\ p[f] \in Int /\ p[e] \in Int /\ z \in Int
      BY <1>1
    <3> QED BY <3>1, <3>2
  <2> QED BY <2>2, <2>3
<1>10. LoneFirst(all2, p, z + 1)
  <2> SUFFICES ASSUME NEW y \in 1..n, NEW q \in 1..n, Lone(all, p, z, y),
                      Pending(all, p, z, q) \/ q = x, all[y].note = all[q].note
               PROVE  p[y] < p[q]
    BY <1>1, <1>3 DEF LoneFirst
  <2>1. CASE Pending(all, p, z, q)
    BY <1>1, <2>1 DEF Nested, LoneFirst
  <2>2. CASE q = x
    BY <1>1, <2>2 DEF Lone
  <2> QED BY <2>1, <2>2
<1>. QED BY <1>6, <1>7, <1>8, <1>9, <1>10 DEF Nested

(* A note-off x becomes the partner of on, the latest pending note-on, and *)
(* stands then where the events from place s on follow.                    *)
PairPlaces(all, n, z, x, p, p2, s, t) ==
  /\ n = Len(all) /\ n \in Nat /\ z \in 1..n /\ x \in 1..n /\ p[x] = z
  /\ p \in [1..n -> 1..n] /\ \A e, f \in 1..n : p[e] = p[f] => e = f
  /\ p2 \in [1..n -> 1..n] /\ \A e, f \in (1..n) \ {x} : p2[e] < p2[f] <=> p[e] < p[f]
  /\ \A e \in 1..n : p2[e] < z + 1 <=> p[e] < z + 1
  /\ s \in 1..z /\ t \in 1..z
  /\ \A e \in (1..n) \ {x} : p2[e] < p2[x] <=> p[e] < s
  /\ \A e \in (1..n) \ {x} : p[e] < s => p2[e] = p[e]
  /\ \/ s = z
     \/ s = t /\ sort_by_priority
        /\ \A e \in 1..n : t <= p[e] /\ p[e] < z => all[e].time = all[x].time

PairNotes(all, all2, n, z, x, p, p2, on) ==
  /\ n = Len(all2) /\ on \in 1..n /\ on # x
  /\ \A e \in 1..n : all2[e].type = all[e].type /\ all2[e].note = all[e].note
  /\ \A e \in 1..n : all2[e].time = all[e].time
  /\ \A e \in 1..n : e # x /\ e # on => all2[e].partner = all[e].partner
  /\ all2[x].partner = on /\ all2[on].partner = x
  /\ all[x].type = "off" /\ all[x].partner = NULL /\ all[on].note = all[x].note
  /\ Pending(all, p, z, on)
  /\ \A q \in 1..n : Pending(all, p, z, q) /\ all[q].note = all[on].note => p[q] <= p[on]
  /\ \A e \in 1..n : Pending(all2, p2, z + 1, e) <=> Pending(all, p, z, e) /\ e # on
  /\ \A f, e \in 1..n : Spans(all, f, e) => p[f] < p[e] /\ e # x

LEMMA PairSpans ==
  ASSUME NEW all, NEW all2, NEW n, NEW z, NEW x, NEW p, NEW p2, NEW on, NEW s, NEW t,
         PairPlaces(all, n, z, x, p, p2, s, t), PairNotes(all, all2, n, z, x, p, p2, on)
  PROVE  /\ \A f, e \in 1..n : Spans(all2, f, e) => Spans(all, f, e) \/ (f = on /\ e = x)
         /\ \A f, e \in 1..n : Spans(all, f, e) => f # x /\ f # on /\ e # x /\ e # on
         /\ \A e \in 1..n : Lone(all2, p2, z + 1, e) => Lone(all, p, z, e) /\ e # x
         /\ \A q \in 1..n : Pending(all, p, z, q) => q # x /\ p[q] < z
<1>1. /\ n = Len(all) /\ n \in Nat /\ z \in 1..n /\ x \in 1..n /\ p[x] = z
      /\ p \in [1..n -> 1..n] /\ \A e, f \in 1..n : p[e] = p[f] => e = f
      /\ \A e \in 1..n : p2[e] < z + 1 <=> p[e] < z + 1
  BY DEF PairPlaces
<1>2. /\ n = Len(all2) /\ on \in 1..n /\ on # x
      /\ \A e \in 1..n : all2[e].type = all[e].type
      /\ \A e \in 1..n : e # x /\ e # on => all2[e].partner = all[e].partner
      /\ all2[x].partner = on /\ all2[on].partner = x /\ all[x].type = "off"
      /\ \A f, e \in 1..n : Spans(all, f, e) => e # x
  BY DEF PairNotes
<1>3. all[on].type = "on" /\ (all[on].partner = NULL \/ all[all[on].partner].type = "on")
  BY DEF PairNotes, Pending
<1>4. ASSUME NEW f \in 1..n, NEW e \in 1..n, Spans(all2, f, e)
      PROVE  Spans(all, f, e) \/ (f = on /\ e = x)
  BY <1>1, <1>2, <1>4 DEF Spans
<1>5. ASSUME NEW f \in 1..n, NEW e \in 1..n, Spans(all, f, e)
      PROVE  f # x /\ f # on /\ e # x /\ e # on
  <2>1. all[f].type = "on" /\ all[e].type = "off" /\ all[f].partner = e /\ e # NULL
    BY <1>5 DEF Spans, NULL
  <2> QED BY <1>2, <1>3, <1>5, <2>1
<1>6. ASSUME NEW e \in 1..n, Lone(all2, p2, z + 1, e)
      PROVE  Lone(all, p, z, e) /\ e # x
  <2>1. all2[e].type = "off" /\ all2[e].partner = NULL /\ p2[e] < z + 1
    BY <1>6 DEF Lone
  <2>2. e # x /\ e # on
    BY <1>1, <1>2, <1>3, <2>1 DEF NULL
  <2>3. p[e] < z + 1 /\ p[e] # z /\ p[e] \in Int /\ z \in Int
    BY <1>1, <2>1, <2>2
  <2> QED BY <1>2, <2>1, <2>2, <2>3 DEF Lone
<1>7. ASSUME NEW q \in 1..n, Pending(all, p, z, q)
      PROVE  q # x /\ p[q] < z
  BY <1>2, <1>7 DEF Pending
<1>. QED BY <1>4, <1>5, <1>6, <1>7

LEMMA PairNested ==
  ASSUME NEW all, NEW all2, NEW n, NEW z, NEW x, NEW p, NEW p2, NEW on, NEW s, NEW t,
         NEW t2 \in Nat,
         PairPlaces(all, n, z, x, p, p2, s, t), PairNotes(all, all2, n, z, x, p, p2, on),
         Nested(all, p, z, t), t <= t2,
         sort_by_priority /\ all[on].time # all[x].time
           /\ (\E q \in 1..n : Pending(all2, p2, z + 1, q)) => p2[x] < t2
  PROVE  Nested(all2, p2, z + 1, t2)
<1>1. /\ n = Len(all) /\ n \in Nat /\ z \in 1..n /\ x \in 1..n /\ p[x] = z
      /\ p \in [1..n -> 1..n] /\ \A e, f \in 1..n : p[e] = p[f] => e = f
      /\ p2 \in [1..n -> 1..n] /\ \A e, f \in (1..n) \ {x} : p2[e] < p2[f] <=> p[e] < p[f]
      /\ \A e \in 1..n : p2[e] < z + 1 <=> p[e] < z + 1
      /\ s \in 1..z /\ t \in 1..z
  BY DEF PairPlaces
<1>2. /\ \A e \in (1..n) \ {x} : p2[e] < p2[x] <=> p[e] < s
      /\ \A e \in (1..n) \ {x} : p[e] < s => p2[e] = p[e]
      /\ \/ s = z
         \/ s = t /\ sort_by_priority
            /\ \A e \in 1..n : t <= p[e] /\ p[e] < z => all[e].time = all[x].time
  BY DEF PairPlaces
<1>3. /\ n = Len(all2) /\ on \in 1..n /\ on # x
      /\ \A e \in 1..n : all2[e].type = all[e].type /\ all2[e].note = all[e].note
      /\ \A e \in 1..n : all2[e].time = all[e].time
      /\ all[on].note = all[x].note /\ Pending(all, p, z, on)
      /\ \A q \in 1..n : Pending(all, p, z, q) /\ all[q].note = all[on].note => p[q] <= p[on]
      /\ \A e \in 1..n : Pending(all2, p2, z + 1, e) <=> Pending(all, p, z, e) /\ e # on
      /\ \A f, e \in 1..n : Spans(all, f, e) => p[f] < p[e]
  BY DEF PairNotes
<1>4. /\ \A f, e \in 1..n : Spans(all2, f, e) => Spans(all, f, e) \/ (f = on /\ e = x)
      /\ \A f, e \in 1..n : Spans(all, f, e) => f # x /\ f # on /\ e # x /\ e # on
      /\ \A e \in 1..n : Lone(all2, p2, z + 1, e) => Lone(all, p, z, e) /\ e # x
      /\ \A q \in 1..n : Pending(all, p, z, q) => q # x /\ p[q] < z
  BY PairSpans
<1>5. /\ Ended(all, p, z) /\ NotCrossed(all, p) /\ NoneWithin(all, p, z)
      /\ BeforeTop(all, p, z, t) /\ LoneFirst(all, p, z)
  BY DEF Nested
<1>6. \A f, e \in 1..n : Spans(all, f, e) => p[e] < z
  BY <1>1, <1>5 DEF Ended
<1>i. /\ \A e \in 1..n : p[e] \in Int /\ p2[e] \in Int
      /\ z \in Int /\ s \in Int /\ t \in Int
  BY <1>1
<1>o. \A e, f \in (1..n) \ {x} : p2[e] < p2[f] <=> p[e] < p[f]
  BY <1>1
<1>7. Ended(all2, p2, z + 1)
  <2> SUFFICES ASSUME NEW f \in 1..n, NEW e \in 1..n, Spans(all, f, e) \/ e = x
               PROVE  p2[e] < z + 1
    BY <1>3, <1>4 DEF Ended
  <2>1. p[e] < z + 1
    <3>1. p[e] < z \/ p[e] = z
      BY <1>1, <1>6
    <3> QED BY <1>i, <3>1
  <2> QED BY <1>1, <2>1
<1>8. NotCrossed(all2, p2)
  <2> SUFFICES ASSUME NEW f \in 1..n, NEW e \in 1..n, NEW g \in 1..n, NEW h \in 1..n,
                      Spans(all2, f, e), Spans(all2, g, h), all[f].note = all[g].note,
                      p2[f] < p2[g]
               PROVE  p2[h] < p2[e] \/ p2[e] < p2[g] \/ all[g].time = all[e].time
    BY <1>3 DEF NotCrossed
  <2>1. CASE Spans(all, f, e) /\ Spans(all, g, h)
    <3>1. f # x /\ e # x /\ g # x /\ h # x
      BY <1>4, <2>1
    <3>2. p[f] < p[g]
      BY <1>1, <3>1
    <3>3. p[h] < p[e] \/ p[e] < p[g] \/ all[g].time = all[e].time
      BY <1>1, <1>5, <2>1, <3>2 DEF NotCrossed
    <3> QED BY <1>1, <3>1, <3>3
  <2>2. CASE f = on /\ e = x /\ Spans(all, g, h)
    <3>0. g # x /\ h # x /\ on # x /\ p[h] < z /\ p[g] < p[h]
      BY <1>3, <1>4, <1>6, <2>2
    <3>o. p2[on] < p2[g]
      BY <2>2
    <3>p. on \in (1..n) \ {x} /\ g \in (1..n) \ {x}
      BY <1>3, <3>0
    <3>q. p[on] < p[g]
      BY <1>o, <3>o, <3>p
    <3>1. g # x /\ h # x /\ p[on] < p[g] /\ p[h] < z /\ p[g] < p[h] /\ p[h] \in Int
          /\ p[g] \in Int /\ z \in Int /\ t \in Int
      BY <1>i, <3>0, <3>q
    <3>2. CASE p[h] < s
      BY <1>2, <2>2, <3>1, <3>2
    <3>3. CASE ~(p[h] < s)
      <4>1. s = t /\ sort_by_priority /\ all[h].time = all[x].time /\ ~(p[h] < t)
        BY <1>1, <1>2, <3>1, <3>3
      <4>2. all[g].time # all[h].time => p[h] < t
        BY <1>1, <1>3, <1>5, <2>2, <3>1, <4>1 DEF BeforeTop
      <4> QED BY <2>2, <4>1, <4>2
    <3> QED BY <3>2, <3>3
  <2>3. CASE Spans(all, f, e) /\ g = on /\ h = x
    <3>1. f # x /\ e # x /\ p[f] < p[on]
      BY <1>1, <1>3, <1>4, <2>3
    <3>2. p[on] < p[f] \/ p[e] < p[on]
      BY <1>1, <1>3, <1>5, <2>3 DEF NoneWithin
    <3>3. p[on] \in Int /\ p[f] \in Int
      BY <1>i, <1>3
    <3>4. p[e] < p[on]
      BY <3>1, <3>2, <3>3
    <3>5. on \in (1..n) \ {x} /\ e \in (1..n) \ {x}
      BY <1>3, <3>1
    <3>6. p2[e] < p2[on]
      BY <1>o, <3>4, <3>5
    <3> QED BY <2>3, <3>6
  <2>4. CASE f = on /\ g = on
    <3>1. p2[on] \in Int /\ p2[on] < p2[on]
      BY <1>i, <1>3, <2>4
    <3> QED BY <3>1
  <2> QED BY <1>4, <2>1, <2>2, <2>3, <2>4
<1>9. NoneWithin(all2, p2, z + 1)
  <2> SUFFICES ASSUME NEW q \in 1..n, NEW f \in 1..n, NEW e \in 1..n,
                      Spans(all, f, e) \/ (f = on /\ e = x), q # x,
                      (Pending(all, p, z, q) /\ q # on) \/ Lone(all, p, z, q),
                      all[q].note = all[f].note
               PROVE  p2[q] < p2[f] \/ p2[e] < p2[q]
    BY <1>3, <1>4 DEF NoneWithin
  <2>1. CASE Spans(all, f, e)
    <3>1. f # x /\ e # x
      BY <1>4, <2>1
    <3>2. p[q] < p[f] \/ p[e] < p[q]
      BY <1>1, <1>5, <2>1 DEF NoneWithin
    <3> QED BY <1>1, <3>1, <3>2
  <2>2. CASE f = on /\ e = x
    <3>1. p[q] < p[on]
      <4>1. CASE Pending(all, p, z, q) /\ q # on
        <5>1. p[q] <= p[on] /\ p[q] # p[on]
          BY <1>1, <1>3, <2>2, <4>1
        <5>2. p[q] \in Int /\ p[on] \in Int
          BY <1>i, <1>3
        <5> QED BY <5>1, <5>2
      <4>2. CASE Lone(all, p, z, q)
        BY <1>1, <1>3, <1>5, <2>2, <4>2 DEF LoneFirst
      <4> QED BY <4>1, <4>2
    <3> QED BY <1>1, <1>3, <2>2, <3>1
  <2> QED BY <2>1, <2>2
<1>10. BeforeTop(all2, p2, z + 1, t2)
  <2> SUFFICES ASSUME NEW q \in 1..n, NEW f \in 1..n, NEW e \in 1..n,
                      Spans(all, f, e) \/ (f = on /\ e = x),
                      Pending(all2, p2, z + 1, q), sort_by_priority, p2[q] < p2[f],
                      all[q].note = all[f].note, all[f].time # all[e].time
               PROVE  p2[e] < t2
    BY <1>3, <1>4 DEF BeforeTop
  <2>1. CASE Spans(all, f, e)
    <3>1. f # x /\ e # x /\ q # x /\ Pending(all, p, z, q)
      BY <1>3, <1>4, <2>1
    <3>2. p[q] < p[f]
      BY <1>1, <3>1
    <3>3. p[e] < t
      BY <1>1, <1>5, <2>1, <3>1, <3>2 DEF BeforeTop
    <3>4. p[e] < z /\ p[e] \in Int /\ t \in Int /\ z \in Int
      BY <1>1, <1>6, <2>1
    <3>5. p[e] < s
      BY <1>2, <3>3, <3>4
    <3>6. p2[e] = p[e]
      BY <1>2, <3>1, <3>5
    <3> QED BY <3>3, <3>4, <3>6
  <2>2. CASE f = on /\ e = x
    BY <2>2
  <2> QED BY <2>1, <2>2
<1>11. LoneFirst(all2, p2, z + 1)
  <2> SUFFICES ASSUME NEW y \in 1..n, NEW q \in 1..n, Lone(all, p, z, y), y # x,
                      Pending(all, p, z, q), all[y].note = all[q].note
               PROVE  p2[y] < p2[q]
    BY <1>3, <1>4 DEF LoneFirst
  <2>1. p[y] < p[q]
    BY <1>1, <1>5 DEF LoneFirst
  <2> QED BY <1>1, <1>4, <2>1
<1>. QED BY <1>7, <1>8, <1>9, <1>10, <1>11 DEF Nested

-----------------------------------------------------------------------------
(* The steps of pair_notes.                                                *)
LEMMA SpansCouple ==
  ASSUME NEW all, NEW p, NEW z, Coupled(all, p, z),
         NEW f, NEW e, Spans(all, f, e)
  PROVE  Couple(all, p, f, e)
<1>1. /\ f \in 1..Len(all) /\ all[f].type = "on" /\ all[f].partner = e
      /\ all[e].type = "off" /\ e # NULL
  BY DEF Spans, NULL
<1>2. Couple(all, p, f, e) \/ Pending(all, p, z, f)
  BY <1>1 DEF Coupled
<1>. QED BY <1>1, <1>2 DEF Pending

LEMMA NestedNext ==
  ASSUME NEW p, sort_by_priority' = sort_by_priority, Nested(ev', p, pos', ctop')
  PROVE  Nested(ev, p, pos, ctop)'
BY DEF Nested, BeforeTop

(* Any placing of the next list is the one that the step is known to give. *)
LEMMA NestNext ==
  ASSUME stage' = "pair", sort_by_priority' = sort_by_priority,
         NEW n, n = Len(ev'), NEW p, Placing(list', p, n),
         PairOK(p)' => Nested(ev', p, pos', ctop')
  PROVE  NestInv'
<1>1. ASSUME NEW q, PairOK(q)'
      PROVE  Nested(ev, q, pos, ctop)'
  <2>1. Placing(list', q, n)
    BY <1>1 DEF PairOK
  <2>2. q = p
    BY <2>1, OnePlacing
  <2>3. Nested(ev', p, pos', ctop')
    BY <1>1, <2>2
  <2> QED BY <2>2, <2>3, NestedNext
<1>2. stage' # "done"
  OBVIOUS
<1>. QED BY <1>1, <1>2 DEF NestInv

LEMMA TopGrows ==
  ASSUME NEW all, NEW l, NEW np, pos \in Nat, ctop \in 1..pos
  PROVE  NextTop(all, l, np) \in Nat /\ ctop <= NextTop(all, l, np)
BY DEF NextTop

LEMMA PendNestStep ==
  ASSUME TypeOK, PairInv, NestInv, stage = "pair", pos <= Len(list), pend_note,
         pos' = pos + 1, UNCHANGED <<last_ep, sort_by_priority, stage>>
  PROVE  NestInv'
<1>1. PICK n, p : At(n, p) /\ PendChange(ev, ev', n, pos, ep, p, note_tbl, note_tbl')
  BY PendChanges
<1>. DEFINE x == ep
<1>2. PendChange(ev, ev', n, pos, x, p, note_tbl, note_tbl')
  BY <1>1
<1>3. /\ n \in Nat /\ n = Len(ev) /\ PairOK(p) /\ pos \in 1..n /\ ctop \in 1..pos
      /\ x \in 1..n /\ p[x] = pos /\ p \in [1..n -> 1..n]
      /\ \A e, f \in 1..n : p[e] = p[f] => e = f
      /\ Placing(list, p, n)
  BY <1>1 DEF At
<1>. HIDE DEF x
<1>4. ctop' = NextTop(ev', list, npend') /\ list' = list
  BY DEF pend_note, list
<1>5. ctop \in Nat /\ ctop' \in Nat /\ ctop <= ctop'
  BY <1>3, <1>4, TopGrows
<1>6. Nested(ev, p, pos, ctop) /\ Coupled(ev, p, pos) /\ Chained(ev, p, pos, note_tbl)
  BY <1>3 DEF NestInv, PairOK
<1>7. /\ n = Len(ev') /\ ev[x].type = "on" /\ ev[x].partner = NULL
      /\ \A e \in 1..n : ev'[e].type = ev[e].type /\ ev'[e].note = ev[e].note
      /\ \A e \in 1..n : ev'[e].time = ev[e].time
      /\ \A e \in 1..n : ev'[e].partner = IF e = x THEN note_tbl[ev[x].note] ELSE ev[e].partner
  BY <1>2 DEF PendChange, Alike, LinkedTo
<1>8. ev'[x].partner # NULL => ev'[ev'[x].partner].type = "on"
  <2>1. ev[x].note \in Note
    BY <1>3, <1>6, <1>7 DEF Coupled
  <2>2. note_tbl[ev[x].note] # NULL =>
          note_tbl[ev[x].note] \in 1..n /\ Pending(ev, p, pos, note_tbl[ev[x].note])
    BY <1>3, <1>6, <2>1 DEF Chained, Tops
  <2>3. ev'[x].partner = note_tbl[ev[x].note]
    BY <1>3, <1>7
  <2> QED BY <1>7, <2>2, <2>3 DEF Pending
<1>9. \A f, e \in 1..n : Spans(ev, f, e) => p[f] < p[e]
  BY <1>6, SpansCouple DEF Couple
<1>10. \A e \in 1..n : Pending(ev', p, pos + 1, e) <=> Pending(ev, p, pos, e) \/ e = x
  BY <1>2, PendPairs
<1>11. PendNest(ev, ev', n, pos, x, p)
  BY <1>3, <1>7, <1>8, <1>9, <1>10 DEF PendNest
<1>12. Nested(ev', p, pos + 1, ctop')
  BY <1>5, <1>6, <1>11, PendNested
<1>. QED BY <1>3, <1>4, <1>7, <1>12, NestNext

LEMMA SkipNestStep ==
  ASSUME TypeOK, PairInv, NestInv, stage = "pair", pos <= Len(list), skip_event,
         pos' = pos + 1, UNCHANGED <<last_ep, sort_by_priority, stage>>
  PROVE  NestInv'
<1>1. PICK n, p : At(n, p)
  BY PairContext
<1>. DEFINE x == ep
<1>2. /\ n \in Nat /\ n = Len(ev) /\ PairOK(p) /\ pos \in 1..n /\ ctop \in 1..pos
      /\ x \in 1..n /\ p[x] = pos /\ p \in [1..n -> 1..n]
      /\ \A e, f \in 1..n : p[e] = p[f] => e = f
      /\ Placing(list, p, n)
  BY <1>1 DEF At
<1>3. /\ ctop' = NextTop(ev, list, npend) /\ list' = list /\ ev' = ev
      /\ \/ ev[x].type = "ctrl" \/ ev[x].partner # NULL
         \/ ev[x].type = "off" /\ note_tbl[ev[x].note] = NULL
  BY DEF skip_event, list
<1>. HIDE DEF x
<1>4. ctop \in Nat /\ ctop' \in Nat /\ ctop <= ctop'
  BY <1>2, <1>3, TopGrows
<1>5. Nested(ev, p, pos, ctop) /\ Coupled(ev, p, pos) /\ Chained(ev, p, pos, note_tbl)
  BY <1>2 DEF NestInv, PairOK
<1>6. \A e \in 1..n : Pending(ev, p, pos + 1, e) <=> Pending(ev, p, pos, e)
  <2>1. ev \in Seq(Event)
    BY DEF TypeOK
  <2>2. ~(ev[x].type = "on" /\ ev[x].partner = NULL)
    BY <1>3
  <2> QED BY <1>2, <1>5, <2>1, <2>2, SkipPairs
<1>7. ev[x].type = "off" /\ ev[x].partner = NULL =>
        ev[x].note \in Note /\ note_tbl[ev[x].note] = NULL
  BY <1>2, <1>3, <1>5 DEF Coupled
<1>8. \A e \in 1..n : Pending(ev, p, pos, e) => ev[e].note \in Note
  BY <1>2, <1>5 DEF Coupled, Pending
<1>9. SkipNest(ev, n, pos, x, p, note_tbl)
  BY <1>2, <1>5, <1>6, <1>7, <1>8 DEF SkipNest
<1>10. Nested(ev, p, pos + 1, ctop')
  BY <1>4, <1>5, <1>9, SkipNested
<1>. QED BY <1>2, <1>3, <1>10, NestNext

(* Where a note-off that found its note-on stands.                         *)
LEMMA MovedNest ==
  ASSUME NEW all, NEW n, NEW l, NEW p, NEW p2, NEW t, NEW z, NEW x,
         MovesInTime(all, n, l, p, p2, t, z, x), sort_by_priority
  PROVE  PairPlaces(all, n, z, x, p, p2, t, t) /\ p2[x] = t
<1>1. /\ n = Len(all) /\ n \in Nat /\ \A e \in 1..n : all[e].time \in Nat
      /\ Placing(l, p, n) /\ Timed(all, p) /\ z \in 1..n /\ t \in 1..z
      /\ x = l[z] /\ all[l[t]].time = all[x].time
      /\ p2 = MovedPlaces(p, n, t, z, x) /\ SameOrder(p, p2, n, z, x)
  BY DEF MovesInTime
<1>2. /\ p \in [1..n -> 1..n] /\ p2 \in [1..n -> 1..n]
      /\ \A e, f \in 1..n : p[e] = p[f] => e = f
      /\ \A e, f \in (1..n) \ {x} : p2[e] < p2[f] <=> p[e] < p[f]
      /\ \A e \in 1..n : p2[e] < z + 1 <=> p[e] < z + 1
  BY <1>1 DEF SameOrder
<1>3. x \in 1..n /\ p[x] = z /\ t \in 1..n /\ l[t] \in 1..n /\ p[l[t]] = t
  BY <1>1 DEF Placing
<1>4. p2[x] = t
  BY <1>1, <1>3 DEF MovedPlaces
<1>5. ASSUME NEW e \in (1..n) \ {x}
      PROVE  /\ p2[e] < p2[x] <=> p[e] < t
             /\ p[e] < t => p2[e] = p[e]
  <2>1. p2[e] = IF t <= p[e] /\ p[e] < z THEN p[e] + 1 ELSE p[e]
    BY <1>1, <1>5 DEF MovedPlaces
  <2>2. p[e] \in Int /\ t \in Int /\ z \in Int /\ p[e] # z /\ t <= z
    BY <1>1, <1>2, <1>3, <1>5
  <2> QED BY <1>4, <2>1, <2>2
<1>6. ASSUME NEW e \in 1..n, t <= p[e], p[e] < z
      PROVE  all[e].time = all[x].time
  <2>1. CASE p[e] = t
    <3>1. e = l[t]
      BY <1>2, <1>3, <2>1
    <3> QED BY <1>1, <3>1
  <2>2. CASE t < p[e]
    <3>1. all[l[t]].time <= all[e].time
      BY <1>1, <1>3, <2>2 DEF Timed
    <3>2. all[e].time <= all[x].time
      BY <1>1, <1>3, <1>6 DEF Timed
    <3>3. all[e].time \in Nat /\ all[x].time \in Nat
      BY <1>1, <1>3
    <3> QED BY <1>1, <3>1, <3>2, <3>3
  <2>3. p[e] \in Int /\ t \in Int
    <3>1. p \in [1..n -> 1..n] /\ t \in 1..z
      BY <1>1, <1>2
    <3> QED BY <3>1
  <2> QED BY <1>6, <2>1, <2>2, <2>3
<1>7. t \in 1..z
  BY <1>1
<1>. QED BY <1>1, <1>2, <1>3, <1>4, <1>5, <1>6, <1>7 DEF PairPlaces

LEMMA StaysNest ==
  ASSUME NEW all, NEW n \in Nat, n = Len(all), NEW p, NEW z \in 1..n, NEW x \in 1..n,
         SameOrder(p, p, n, z, x), p[x] = z, NEW t \in 1..z
  PROVE  PairPlaces(all, n, z, x, p, p, z, t)
<1>1. p \in [1..n -> 1..n] /\ \A e, f \in 1..n : p[e] = p[f] => e = f
  BY DEF SameOrder
<1>2. \A e \in (1..n) \ {x} : p[e] < p[x] <=> p[e] < z
  OBVIOUS
<1>3. z \in 1..z
  OBVIOUS
<1>. QED BY <1>1, <1>2, <1>3 DEF PairPlaces

LEMMA PairedPlaces ==
  ASSUME TypeOK, stage = "pair", pair_note, NEW n, NEW p, NEW p2, PairedAt(n, p, p2),
         NEW x, x = ep, NEW on, on = note_tbl[ev[x].note]
  PROVE  /\ \E s : PairPlaces(ev, n, pos, x, p, p2, s, ctop)
         /\ sort_by_priority /\ ev[on].time # ev[x].time =>
              p2[x] = ctop /\ list'[ctop] = x
<1>1. /\ n \in Nat /\ n = Len(ev) /\ PairOK(p) /\ pos \in 1..n /\ ctop \in 1..pos
      /\ x \in 1..n /\ p[x] = pos /\ SameOrder(p, p, n, pos, x)
      /\ list \in Seq(Nat) /\ Placing(list, p, n)
      /\ Placing(list', p2, n)
  BY DEF PairedAt, At
<1>2. /\ list' = eseq'[1]
      /\ eseq' = IF ev[x].time # ev[on].time /\ sort_by_priority THEN <<Moved(list)>> ELSE eseq
  BY DEF pair_note, list
<1>3. x = list[pos]
  BY DEF ep
<1>4. PairChange(ev, ev', n, pos, x, p, p2, note_tbl, note_tbl', on)
  BY DEF PairedAt
<1>5. CASE sort_by_priority /\ ev[on].time # ev[x].time
  <2>1. list' = Moved(list)
    BY <1>2, <1>5
  <2>2. PICK q : q = MovedPlaces(p, n, ctop, pos, ep)
    OBVIOUS
  <2>3. Placing(Moved(list), q, n) /\ SameOrder(p, q, n, pos, ep)
    BY <1>1, <1>3, <2>2, MovedPlacing DEF TypeOK
  <2>4. q = p2
    BY <1>1, <2>1, <2>3, OnePlacing
  <2>5. Timed(ev, p) /\ Counted(ev, p, pos, npend) /\ TopInTime(ev, list, ctop, pos, npend)
    BY <1>1 DEF PairOK
  <2>6. ev[list[ctop]].time = ev[x].time
    <3>1. on \in 1..n /\ Pending(ev, p, pos, on)
      BY <1>4, PairPairs
    <3>2. npend > 0 /\ npend \in Int
      BY <1>1, <2>5, <3>1, CountSome DEF TypeOK
    <3>3. npend # 0 /\ pos <= Len(ev)
      BY <1>1, <3>2
    <3> QED BY <1>3, <2>5, <3>3 DEF TopInTime
  <2>7. \A e \in 1..n : ev[e].time \in Nat
    <3>1. \A e \in 1..n : ev[e] \in Event
      BY <1>1, ElementOfSeq DEF TypeOK
    <3> QED BY <3>1 DEF Event
  <2>8. MovesInTime(ev, n, list, p, p2, ctop, pos, x)
    BY <1>1, <1>3, <2>2, <2>3, <2>4, <2>5, <2>6, <2>7 DEF MovesInTime
  <2>9. PairPlaces(ev, n, pos, x, p, p2, ctop, ctop) /\ p2[x] = ctop
    BY <1>5, <2>8, MovedNest
  <2>10. list'[ctop] = x
    BY <1>1, <2>9 DEF Placing
  <2> QED BY <2>9, <2>10
<1>6. CASE ~(sort_by_priority /\ ev[on].time # ev[x].time)
  <2>1. list' = list
    BY <1>2, <1>6 DEF list
  <2>2. p2 = p
    BY <1>1, <2>1, OnePlacing
  <2>3. PairPlaces(ev, n, pos, x, p, p2, pos, ctop)
    BY <1>1, <2>2, StaysNest
  <2> QED BY <1>6, <2>3
<1>. QED BY <1>5, <1>6

LEMMA PairedNotes ==
  ASSUME NEW n, NEW p, NEW p2, PairedAt(n, p, p2), NEW x, x = ep,
         NEW on, on = note_tbl[ev[x].note]
  PROVE  PairNotes(ev, ev', n, pos, x, p, p2, on)
<1>1. /\ n = Len(ev) /\ PairOK(p) /\ x \in 1..n
  BY DEF PairedAt, At
<1>2. PairChange(ev, ev', n, pos, x, p, p2, note_tbl, note_tbl', on)
  BY DEF PairedAt
<1>3. /\ Alike(ev, ev') /\ ev[x].type = "off" /\ ev[x].partner = NULL
      /\ CoupledTo(ev, ev', n, x, on) /\ on # NULL
  BY <1>2 DEF PairChange
<1>4. /\ n = Len(ev')
      /\ \A e \in 1..n : ev'[e].type = ev[e].type /\ ev'[e].note = ev[e].note
      /\ \A e \in 1..n : ev'[e].time = ev[e].time
  BY <1>1, <1>3 DEF Alike
<1>5. \A e \in 1..n : ev'[e].partner = IF e = on THEN x ELSE IF e = x THEN on ELSE ev[e].partner
  BY <1>3 DEF CoupledTo
<1>6. /\ \A e \in 1..n : Pending(ev', p2, pos + 1, e) <=> Pending(ev, p, pos, e) /\ e # on
      /\ on \in 1..n /\ Pending(ev, p, pos, on)
  BY <1>2, PairPairs
<1>7. on # x
  BY <1>3, <1>6 DEF Pending
<1>8. Coupled(ev, p, pos) /\ Tops(ev, p, pos, note_tbl) /\ BelowTop(ev, p, pos, note_tbl)
  BY <1>1 DEF PairOK, Chained
<1>9. ev[on].note = ev[x].note
  <2>1. ev[x].note \in Note
    BY <1>1, <1>3, <1>8 DEF Coupled
  <2> QED BY <1>3, <1>8, <2>1 DEF Tops
<1>10. \A q \in 1..n : Pending(ev, p, pos, q) /\ ev[q].note = ev[on].note => p[q] <= p[on]
  BY <1>1, <1>8, <1>9 DEF BelowTop
<1>11. ASSUME NEW f \in 1..n, NEW e \in 1..n, Spans(ev, f, e)
       PROVE  p[f] < p[e] /\ e # x
  <2>1. Couple(ev, p, f, e)
    BY <1>8, <1>11, SpansCouple
  <2>2. ev[e].partner = f /\ f # NULL
    BY <1>11, <2>1 DEF Couple, NULL
  <2> QED BY <1>3, <2>1, <2>2 DEF Couple
<1>. QED BY <1>3, <1>4, <1>5, <1>6, <1>7, <1>9, <1>10, <1>11, <1>1 DEF PairNotes

LEMMA PairNestStep ==
  ASSUME TypeOK, PairInv, NestInv, stage = "pair", pos <= Len(list), pair_note,
         TypeOK', pos' = pos + 1, UNCHANGED <<last_ep, sort_by_priority, stage>>
  PROVE  NestInv'
<1>1. PICK n, p, p2 : PairedAt(n, p, p2)
  BY PairChanges
<1>2. PICK x : x = ep
  OBVIOUS
<1>3. PICK on : on = note_tbl[ev[x].note]
  OBVIOUS
<1>4. PICK s : PairPlaces(ev, n, pos, x, p, p2, s, ctop)
  BY <1>1, <1>2, <1>3, PairedPlaces
<1>5. PairNotes(ev, ev', n, pos, x, p, p2, on)
  BY <1>1, <1>2, <1>3, PairedNotes
<1>6. /\ n \in Nat /\ n = Len(ev) /\ PairOK(p) /\ pos \in 1..n /\ ctop \in 1..pos
      /\ x \in 1..n /\ Placing(list', p2, n)
  BY <1>1, <1>2 DEF PairedAt, At
<1>7. Nested(ev, p, pos, ctop)
  BY <1>6 DEF NestInv
<1>8. ctop' = NextTop(ev', list', npend')
  BY DEF pair_note, list
<1>9. ctop \in Nat /\ ctop' \in Nat /\ ctop <= ctop'
  BY <1>6, <1>8, TopGrows
<1>10. n = Len(ev') /\ ev'[x].type = "off"
  BY <1>5, <1>6 DEF PairNotes
<1>11. ASSUME PairOK(p2)', sort_by_priority, ev[on].time # ev[x].time,
              NEW q \in 1..n, Pending(ev', p2, pos + 1, q)
       PROVE  p2[x] < ctop'
  <2>1. p2[x] = ctop /\ list'[ctop] = x
    BY <1>1, <1>2, <1>3, <1>11, PairedPlaces
  <2>2. npend' # 0
    <3>1. Counted(ev', p2, pos + 1, npend')
      BY <1>11 DEF PairOK
    <3>2. npend' \in Int
      BY DEF TypeOK
    <3>3. npend' > 0
      BY <1>6, <1>10, <1>11, <3>1, <3>2, CountSome
    <3> QED BY <3>3
  <2>3. ~ev'[x].irregular
    <3>1. CoupledTo(ev, ev', n, x, on)
      BY <1>1, <1>2, <1>3 DEF PairedAt, PairChange
    <3> QED BY <1>6, <1>11, <3>1 DEF CoupledTo
  <2>4. ctop' = pos + 1
    BY <1>8, <1>10, <2>1, <2>2, <2>3 DEF NextTop
  <2> QED BY <1>6, <2>1, <2>4
<1>12. ASSUME PairOK(p2)'
       PROVE  Nested(ev', p2, pos + 1, ctop')
  <2>1. sort_by_priority /\ ev[on].time # ev[x].time
           /\ (\E q \in 1..n : Pending(ev', p2, pos + 1, q)) => p2[x] < ctop'
    BY <1>11, <1>12
  <2> QED BY <1>4, <1>5, <1>7, <1>9, <2>1, PairNested
<1>. QED BY <1>6, <1>10, <1>12, NestNext

-----------------------------------------------------------------------------
(* Before and after pair_notes.                                            *)
LEMMA RawSpans ==
  ASSUME NEW all, Len(all) \in Nat, Raw(all), NEW f, NEW e
  PROVE  ~Spans(all, f, e)
<1> SUFFICES ASSUME Spans(all, f, e)
             PROVE  FALSE
  OBVIOUS
<1>1. /\ f \in 1..Len(all) /\ e # f + 1 /\ all[f].type = "on" /\ all[f].partner = e /\ e # NULL
  BY DEF Spans, NULL
<1>2. Pitch(all, f) \/ (f # 1 /\ Pitch(all, f - 1))
  BY <1>1 DEF Raw
<1>3. CASE Pitch(all, f)
  BY <1>1, <1>3 DEF Pitch
<1>4. CASE f # 1 /\ Pitch(all, f - 1)
  <2>1. (f - 1) + 1 = f
    BY <1>1
  <2>2. all[f].type = "off"
    BY <1>4, <2>1 DEF Pitch
  <2> QED BY <1>1, <2>2
<1>. QED BY <1>2, <1>3, <1>4

LEMMA BeginNestStep ==
  ASSUME TypeOK, CollectInv, begin_pair
  PROVE  NestInv'
<1>1. /\ stage = "sort" /\ stage' = "pair" /\ pos' = 1 /\ ev' = ev
      /\ sort_by_priority' = sort_by_priority
  BY DEF begin_pair
<1>2. Len(ev) \in Nat /\ Raw(ev)
  BY <1>1, LenProperties DEF TypeOK, CollectInv
<1>3. \A f, e : ~Spans(ev', f, e)
  BY <1>1, <1>2, RawSpans
<1>4. ASSUME NEW p, PairOK(p)'
      PROVE  Nested(ev, p, pos, ctop)'
  <2>1. p \in [1..Len(ev') -> 1..Len(ev')]
    BY <1>4 DEF PairOK, Placing
  <2>2. \A e \in 1..Len(ev') : ~(p[e] < pos')
    BY <1>1, <2>1
  <2>3. \A e \in 1..Len(ev') : ~Pending(ev', p, pos', e) /\ ~Lone(ev', p, pos', e)
    BY <2>2 DEF Pending, Lone
  <2>4. Ended(ev', p, pos') /\ NotCrossed(ev', p)
    BY <1>3 DEF Ended, NotCrossed
  <2>5. NoneWithin(ev', p, pos') /\ BeforeTop(ev', p, pos', ctop') /\ LoneFirst(ev', p, pos')
    BY <2>3 DEF NoneWithin, BeforeTop, LoneFirst
  <2>6. Nested(ev', p, pos', ctop')
    BY <2>4, <2>5 DEF Nested
  <2> QED BY <1>1, <2>6, NestedNext
<1>5. stage' # "done"
  BY <1>1
<1>. QED BY <1>4, <1>5 DEF NestInv

(* What end_pair leaves without a partner was pending, or isolated.        *)
LEMMA EndNestStep ==
  ASSUME TypeOK, PairInv, NestInv, end_pair
  PROVE  NestInv'
<1>1. PICK n, p : EndedAt(n, p)
  BY EndChanges
<1>2. /\ n \in Nat /\ n = Len(ev) /\ PairOK(p) /\ pos > n /\ list' = list /\ stage' = "done"
      /\ Len(ev') = n
  BY <1>1 DEF EndedAt
<1>3. /\ \A e \in 1..n : ev'[e].type = ev[e].type /\ ev'[e].note = ev[e].note
      /\ \A e \in 1..n : ev'[e].time = ev[e].time
      /\ \A e \in 1..n : ev'[e].partner = IF Pending(ev, p, pos, e) THEN NULL ELSE ev[e].partner
  BY <1>1 DEF EndedAt
<1>4. Nested(ev, p, pos, ctop) /\ Placing(list, p, n)
  <2>1. stage = "pair"
    BY DEF end_pair
  <2> QED BY <1>2, <2>1 DEF NestInv, PairOK
<1>5. NotCrossed(ev, p) /\ NoneWithin(ev, p, pos) /\ LoneFirst(ev, p, pos)
  BY <1>4 DEF Nested
<1>6. \A e \in 1..n : p[e] < pos
  <2>1. pos \in Int /\ p \in [1..n -> 1..n]
    BY <1>4 DEF TypeOK, Placing
  <2> QED BY <1>2, <2>1
<1>7. ASSUME NEW q, DoneOK(q)'
      PROVE  /\ NotCrossed(ev', q) /\ NoneWithin(ev', q, Len(ev') + 1)
             /\ LoneFirst(ev', q, Len(ev') + 1)
  <2>1. q = p
    <3>1. Placing(list, q, n)
      BY <1>2, <1>7 DEF DoneOK
    <3> QED BY <1>4, <3>1, OnePlacing
  <2>2. ASSUME NEW f \in 1..n, NEW e \in 1..n, Spans(ev', f, e)
        PROVE  Spans(ev, f, e)
    <3>1. ev'[f].partner = e /\ e # NULL
      BY <2>2 DEF Spans, NULL
    <3>2. ev[f].partner = e
      BY <1>3, <3>1
    <3> QED BY <1>2, <1>3, <2>2, <3>2 DEF Spans
  <2>3. ASSUME NEW e \in 1..n, Pending(ev', p, n + 1, e)
        PROVE  Pending(ev, p, pos, e)
    <3>1. ev'[e].type = "on" /\ (ev'[e].partner = NULL \/ ev'[ev'[e].partner].type = "on")
      BY <2>3 DEF Pending
    <3>2. ev'[e].partner = NULL
      <4>1. SUFFICES ASSUME ev'[e].partner # NULL
                     PROVE  FALSE
        OBVIOUS
      <4>2. Couple(ev', p, ev'[e].partner, e) \/ Couple(ev', p, e, ev'[e].partner)
        BY <1>2, <1>7, <2>1, <3>1, <4>1 DEF DoneOK
      <4> QED BY <3>1, <4>1, <4>2 DEF Couple
    <3>3. Pending(ev, p, pos, e) \/ ev[e].partner = NULL
      BY <1>3, <3>2
    <3> QED BY <1>3, <1>6, <3>1, <3>3 DEF Pending
  <2>4. ASSUME NEW e \in 1..n, Lone(ev', p, n + 1, e)
        PROVE  Lone(ev, p, pos, e)
    <3>1. ev[e].type = "off" /\ ev'[e].partner = NULL
      BY <1>3, <2>4 DEF Lone
    <3>2. ~Pending(ev, p, pos, e)
      BY <3>1 DEF Pending
    <3> QED BY <1>3, <1>6, <3>1, <3>2 DEF Lone
  <2>5. NotCrossed(ev', p)
    BY <1>2, <1>3, <1>5, <2>2 DEF NotCrossed
  <2>6. NoneWithin(ev', p, n + 1)
    BY <1>2, <1>3, <1>5, <2>2, <2>3, <2>4 DEF NoneWithin
  <2>7. LoneFirst(ev', p, n + 1)
    BY <1>2, <1>3, <1>5, <2>3, <2>4 DEF LoneFirst
  <2> QED BY <1>2, <2>1, <2>5, <2>6, <2>7
<1>. QED BY <1>2, <1>7 DEF NestInv

LEMMA NestStep ==
  ASSUME EventInv, EventInv', NestInv, [Next]_vars
  PROVE  NestInv'
<1>. USE DEF EventInv
<1>1. CASE do_ctrl \/ do_note_on \/ do_note_off \/ do_pitch \/ begin_sort \/ sort_event
  <2>1. stage' \in {"collect", "sort"}
    BY <1>1 DEF do_ctrl, do_note_on, do_note_off, do_pitch, begin_sort, sort_event, insert_evlist
  <2> QED BY <2>1 DEF NestInv
<1>2. CASE begin_pair
  BY <1>2, BeginNestStep
<1>3. CASE pair_notes
  <2>1. /\ stage = "pair" /\ pos <= Len(list) /\ pos' = pos + 1
        /\ UNCHANGED <<last_ep, sort_by_priority, stage>>
        /\ pend_note \/ pair_note \/ skip_event
    BY <1>3 DEF pair_notes
  <2> QED BY <2>1, PendNestStep, PairNestStep, SkipNestStep
<1>4. CASE end_pair
  BY <1>4, EndNestStep
<1>5. CASE UNCHANGED vars
  <2>1. /\ ev' = ev /\ eseq' = eseq /\ stage' = stage
        /\ sort_by_priority' = sort_by_priority /\ pos' = pos /\ ctop' = ctop
        /\ note_tbl' = note_tbl /\ npend' = npend
    BY <1>5 DEF vars, pairVars
  <2>2. list' = list
    BY <2>1 DEF list
  <2>3. ASSUME NEW p
        PROVE  (PairOK(p)' => PairOK(p)) /\ (DoneOK(p)' => DoneOK(p))
    BY <2>1, <2>2 DEF PairOK, DoneOK
  <2>4. ASSUME NEW p, Nested(ev, p, pos, ctop)
        PROVE  Nested(ev, p, pos, ctop)'
    BY <2>1, <2>4, NestedNext
  <2> QED BY <2>1, <2>3, <2>4 DEF NestInv
<1>6. CASE terminated
  BY <1>5, <1>6 DEF terminated
<1>. QED BY <1>1, <1>2, <1>3, <1>4, <1>5, <1>6 DEF Next

-----------------------------------------------------------------------------
(* A note-off ends the latest sounding note: the pairs of a note that      *)
(* note_on and note_off output separately do not cross and hold no         *)
(* isolated event, although pairing moves note-offs while it runs; those   *)
(* it moves stay before the insertion point, and so never pass a note-on   *)
(* of another time.                                                        *)
THEOREM PairsNest ==
  ASSUME NonNegative
  PROVE  Spec => []NestedPairs
<1>1. Init => NestInv
  BY DEF Init, NestInv
<1>2. EventInv /\ EventInv' /\ NestInv /\ [Next]_vars => NestInv'
  BY NestStep
<1>3. EventInv /\ NestInv => NestedPairs
  <2> SUFFICES ASSUME EventInv, NestInv, stage = "done"
               PROVE  NestedPairs
    BY DEF NestedPairs
  <2>. USE DEF EventInv
  <2>1. PICK n \in Nat : n = Len(ev)
    BY LenProperties DEF TypeOK
  <2>2. PICK p : DoneOK(p)
    BY DEF PairInv
  <2>3. /\ NotCrossed(ev, p) /\ NoneWithin(ev, p, n + 1) /\ LoneFirst(ev, p, n + 1)
    BY <2>1, <2>2 DEF NestInv
  <2>4. list \in Seq(Nat) /\ Placing(list, p, n)
    BY <2>1, <2>2, PairTypes DEF PairInv, DoneOK
  <2>5. DOMAIN list = 1..n
    BY <2>4, LenProperties DEF Placing
  <2>6. \A i \in 1..n : list[i] \in 1..n /\ p[list[i]] = i /\ i < n + 1
    BY <2>4 DEF Placing
  <2>7. ASSUME NEW k, NEW i \in 1..n, NEW j \in 1..n, Span(i, j, k)
        PROVE  Spans(ev, list[i], list[j]) /\ ev[list[i]].note = k
    <3>1. PICK f, e : f = list[i] /\ e = list[j]
      OBVIOUS
    <3>2. f \in 1..n /\ e \in 1..n /\ e # NULL
      BY <2>6, <3>1 DEF NULL
    <3>3. ev[f].type = "on" /\ ev[f].note = k /\ ev[f].partner = e
          /\ ev[f].partner \notin {f - 1, f + 1} \ {NULL}
      BY <2>7, <3>1 DEF Span, Separate
    <3>4. Couple(ev, p, e, f) \/ Couple(ev, p, f, e)
      BY <2>1, <2>2, <3>2, <3>3 DEF DoneOK
    <3>5. ev[e].type = "off"
      BY <3>3, <3>4 DEF Couple
    <3>6. e # f + 1 /\ f # e + 1
      BY <3>2, <3>3
    <3> QED BY <2>1, <3>1, <3>2, <3>3, <3>5, <3>6 DEF Spans
  <2>8. ASSUME NEW k, NEW i \in 1..n, Isolated(i, k)
        PROVE  /\ ev[list[i]].note = k
               /\ ev[list[i]].type = "on" => Pending(ev, p, n + 1, list[i])
               /\ ev[list[i]].type = "off" => Lone(ev, p, n + 1, list[i])
               /\ ev[list[i]].type \in {"on", "off"}
    <3>1. ev[list[i]] \in Event
      BY <2>1, <2>6, ElementOfSeq DEF TypeOK
    <3>2. ev[list[i]].type \in {"on", "off"}
      BY <2>8, <3>1 DEF Isolated, Separate, Event
    <3> QED BY <2>6, <2>8, <3>2 DEF Isolated, Separate, Pending, Lone
  <2>9. ASSUME NEW k \in Note, NEW i \in 1..n, NEW j \in 1..n, NEW g \in 1..n, NEW h \in 1..n,
               Span(i, j, k), Span(g, h, k), i < g
        PROVE  h < j \/ j < g \/ ev[list[g]].time = ev[list[j]].time
    <3>1. /\ Spans(ev, list[i], list[j]) /\ Spans(ev, list[g], list[h])
          /\ ev[list[i]].note = ev[list[g]].note
      BY <2>7, <2>9
    <3>2. PICK d, e, f, x : d = list[i] /\ e = list[j] /\ f = list[g] /\ x = list[h]
      OBVIOUS
    <3>3. /\ d \in 1..n /\ e \in 1..n /\ f \in 1..n /\ x \in 1..n
          /\ p[d] = i /\ p[e] = j /\ p[f] = g /\ p[x] = h
      BY <2>6, <3>2
    <3>4. Spans(ev, d, e) /\ Spans(ev, f, x) /\ ev[d].note = ev[f].note /\ p[d] < p[f]
      BY <2>9, <3>1, <3>2, <3>3
    <3>5. p[x] < p[e] \/ p[e] < p[f] \/ ev[f].time = ev[e].time
      <4>1. NotCrossed(ev, p) /\ Len(ev) = n
        BY <2>1, <2>3
      <4>2. d \in 1..n /\ e \in 1..n /\ f \in 1..n /\ x \in 1..n
        BY <3>3
      <4> QED BY <3>4, <4>1, <4>2 DEF NotCrossed
    <3> QED BY <3>2, <3>3, <3>5
  <2>10. ASSUME NEW k \in Note, NEW i \in 1..n, NEW j \in 1..n, NEW g \in 1..n,
                Span(i, j, k), Isolated(g, k)
         PROVE  g < i \/ j < g
    <3>1. Spans(ev, list[i], list[j]) /\ ev[list[g]].note = ev[list[i]].note
      BY <2>7, <2>8, <2>10
    <3>2. Pending(ev, p, n + 1, list[g]) \/ Lone(ev, p, n + 1, list[g])
      BY <2>8, <2>10
    <3> QED BY <2>1, <2>3, <2>6, <3>1, <3>2 DEF NoneWithin
  <2>11. ASSUME NEW k \in Note, NEW i \in 1..n, NEW j \in 1..n, Isolated(i, k), Isolated(j, k),
                i < j, ev[list[i]].type = "on", ev[list[j]].type = "off"
         PROVE  FALSE
    <3>1. /\ Pending(ev, p, n + 1, list[i]) /\ Lone(ev, p, n + 1, list[j])
          /\ ev[list[j]].note = ev[list[i]].note
      BY <2>8, <2>11
    <3>2. j < i
      BY <2>1, <2>3, <2>6, <3>1 DEF LoneFirst
    <3> QED BY <2>11, <3>2
  <2> QED BY <2>5, <2>9, <2>10, <2>11 DEF NestedPairs
<1>4. Init => EventInv
  BY EventInit
<1>5. EventInv /\ [Next]_vars => EventInv'
  BY EventStep
<1>. QED BY <1>1, <1>2, <1>3, <1>4, <1>5, PTL DEF Spec
=============================================================================
