---------------------------- MODULE StackProofs ----------------------------
(***************************************************************************)
(* Proofs that a break of comp/parse.c finds the loop to leave (LoopsLeft) *)
(* and that a thread that sleeps in wait or alt is found by the one that   *)
(* wakes it (SleepersFound): the order of the elements on the push-back    *)
(* stacks, and which thread, or which temporary thread of it, serves a     *)
(* WaitStatus.                                                             *)
(***************************************************************************)
EXTENDS ThreadsProofs, WellFoundedInduction

-----------------------------------------------------------------------------
(* Induction.  The theorems of the library take a predicate as a parameter *)
(* and cannot be instantiated here; that finite sets are well-founded can  *)
(* be, and is enough: a least counterexample is a minimal set.             *)
LEMMA MinimalSet ==
  ASSUME NEW S, IsFiniteSet(S), NEW F \in SUBSET (SUBSET S), F # {}
  PROVE  \E X \in F : \A Y \in F : Y \subseteq X => Y = X
<1>. DEFINE R == StrictSubsetOrdering(S)
<1>1. IsWellFoundedOn(R, FiniteSubsetsOf(S))  BY FS_StrictSubsetOrderingWellFounded
<1>2. FiniteSubsetsOf(S) = SUBSET S  BY FS_FiniteSubsetsOfFinite
<1>3. IsWellFoundedOn(R, SUBSET S)  BY <1>1, <1>2
<1>. HIDE DEF R
<1>4. PICK X \in F : \A Y \in F : ~(<<Y, X>> \in R)  BY <1>3, WFMin
<1>5. ASSUME NEW Y \in F, Y \subseteq X, Y # X  PROVE FALSE
  <2>1. <<Y, X>> \in R  BY <1>5 DEF R, StrictSubsetOrdering
  <2>. QED  BY <1>4, <2>1
<1>. QED  BY <1>5

LEMMA Least ==
  ASSUME NEW N \in Nat, NEW T \in SUBSET (0..N), T # {}
  PROVE  \E m \in T : \A k \in T : m <= k
<1>. DEFINE F == {0..n : n \in T}
<1>1. IsFiniteSet(0..N)  BY FS_Interval
<1>2. F \in SUBSET (SUBSET (0..N)) /\ F # {}
  <2>1. ASSUME NEW X \in F  PROVE X \in SUBSET (0..N)  OBVIOUS
  <2>2. PICK n \in T : TRUE  OBVIOUS
  <2>3. 0..n \in F  OBVIOUS
  <2>. QED  BY <2>1, <2>3
<1>3. PICK X \in F : \A Y \in F : Y \subseteq X => Y = X
  <2>. HIDE DEF F
  <2>. DEFINE S == 0..N
  <2>1. IsFiniteSet(S) /\ F \in SUBSET (SUBSET S) /\ F # {}  BY <1>1, <1>2
  <2>. HIDE DEF S
  <2>. QED  BY <2>1, MinimalSet
<1>4. PICK m \in T : X = 0..m  OBVIOUS
<1>5. ASSUME NEW k \in T  PROVE m <= k
  <2>1. k \in Nat /\ m \in Nat /\ 0..k \in F  OBVIOUS
  <2>2. CASE k < m
    <3>1. 0..k \subseteq X  BY <1>4, <2>1, <2>2
    <3>2. 0..k = 0..m  BY <1>3, <1>4, <2>1, <3>1
    <3>3. m \in 0..k  BY <2>1, <3>2
    <3>. QED  BY <2>1, <2>2, <3>3
  <2>3. CASE ~(k < m)  BY <2>1, <2>3
  <2>. QED  BY <2>2, <2>3
<1>. QED  BY <1>5

-----------------------------------------------------------------------------
(* The ancestors of a thread.  Up is a recursive function; it exists       *)
(* because each of its initial parts does.                                 *)
Depth == Cardinality(Thread)
UpIn(par, h) ==
  LET up[n \in 0..Depth] ==
        IF n = 0 THEN h ELSE IF up[n-1] = NoThread THEN NoThread ELSE par[up[n-1]]
  IN up
Climbs(up, par, h) ==
  /\ up[0] = h
  /\ \A n \in 1..Depth : up[n] = IF up[n-1] = NoThread THEN NoThread ELSE par[up[n-1]]

LEMMA DepthNat == Depth \in Nat /\ Depth > 0
<1>1. Depth \in Nat /\ (Depth = 0 <=> Thread = {})
  BY ThreadAssumption, FS_CardinalityType, FS_EmptySet DEF Depth
<1>. QED  BY <1>1, ThreadAssumption

LEMMA UpExists ==
  ASSUME NEW par, NEW h
  PROVE  Climbs(UpIn(par, h), par, h)
<1>. DEFINE C == Depth
            Step(f, n) == IF n = 0 THEN h
                          ELSE IF f[n-1] = NoThread THEN NoThread ELSE par[f[n-1]]
            Exists(N) == \E f : f = [n \in 0..N |-> Step(f, n)]
<1>1. C \in Nat /\ C > 0  BY DepthNat
<1>. HIDE DEF C
<1>2. \A N \in 0..C : Exists(N)
  <2>. DEFINE Bad == {N \in 0..C : ~Exists(N)}
  <2>1. SUFFICES ASSUME Bad # {}  PROVE FALSE  OBVIOUS
  <2>2. Bad \in SUBSET (0..C)  OBVIOUS
  <2>3. PICK N \in Bad : \A k \in Bad : N <= k
    <3>. HIDE DEF Bad
    <3>. QED  BY <1>1, <2>1, <2>2, Least
  <2>4. CASE N = 0
    <3>. DEFINE f == [n \in 0..0 |-> h]
    <3>1. f = [n \in 0..0 |-> Step(f, n)]  OBVIOUS
    <3>. QED  BY <2>4, <3>1
  <2>5. CASE N # 0
    <3>1. N - 1 \in 0..C /\ N - 1 \notin Bad
      <4>1. N \in 0..C  BY <2>2
      <4>. HIDE DEF Bad
      <4>. QED  BY <1>1, <2>3, <2>5, <4>1
    <3>2. PICK f : f = [n \in 0..(N-1) |-> Step(f, n)]  BY <3>1
    <3>. DEFINE g == [n \in 0..N |-> IF n = N THEN Step(f, N) ELSE f[n]]
    <3>3. \A n \in 0..N : g[n] = Step(g, n)
      <4>1. ASSUME NEW n \in 0..N  PROVE g[n] = Step(g, n)
        <5>1. CASE n = 0  BY <2>5, <3>1, <3>2, <5>1
        <5>2. CASE n # 0
          <6>1. n - 1 \in 0..(N-1) /\ n - 1 \in 0..N /\ n - 1 # N  BY <1>1, <5>2
          <6>2. g[n-1] = f[n-1]  BY <6>1
          <6>3. Step(g, n) = Step(f, n)  BY <6>2
          <6>4. CASE n = N  BY <6>3, <6>4
          <6>5. CASE n # N
            <7>1. n \in 0..(N-1)  BY <1>1, <6>5
            <7>2. g[n] = f[n]  BY <6>5
            <7>. QED  BY <3>2, <6>3, <7>1, <7>2
          <6>. QED  BY <6>4, <6>5
        <5>. QED  BY <5>1, <5>2
      <4>. QED  BY <4>1
    <3>4. g = [n \in 0..N |-> Step(g, n)]  BY <3>3
    <3>. QED  BY <3>4
  <2>. QED  BY <2>4, <2>5
<1>3. Exists(C)  BY <1>1, <1>2
<1>4. UpIn(par, h) = CHOOSE up : up = [n \in 0..C |-> Step(up, n)]  BY DEF UpIn, C
<1>. DEFINE up == UpIn(par, h)
<1>5. up = [n \in 0..C |-> Step(up, n)]  BY <1>3, <1>4
<1>. HIDE DEF up
<1>6. up[0] = h  BY <1>1, <1>5
<1>7. ASSUME NEW n \in 1..C
      PROVE  up[n] = IF up[n-1] = NoThread THEN NoThread ELSE par[up[n-1]]
  <2>1. n \in 0..C /\ n # 0  BY <1>1
  <2>2. up[n] = Step(up, n)  BY <1>5, <2>1
  <2>. QED  BY <2>1, <2>2
<1>. QED  BY <1>6, <1>7 DEF Climbs, up, C

LEMMA UpDef ==
  ASSUME NEW h
  PROVE  Climbs(Up(h), parent, h) /\ Climbs(Up(h)', parent', h)
<1>1. Up(h) = UpIn(parent, h)  BY DEF Up, UpIn, Depth
<1>2. Up(h)' = UpIn(parent', h)  BY DEF Up, UpIn, Depth
<1>. QED  BY <1>1, <1>2, UpExists

LEMMA UpLive ==
  ASSUME TypeInv, TreeInv, NEW h \in live
  PROVE  \A n \in 0..Depth : Up(h)[n] \in live \cup {NoThread}
<1>. DEFINE up == Up(h)
            Bad == {n \in 0..Depth : up[n] \notin live \cup {NoThread}}
<1>1. Climbs(up, parent, h)  BY UpDef
<1>. HIDE DEF up
<1>2. SUFFICES ASSUME Bad # {}  PROVE FALSE  BY DEF up
<1>3. Bad \in SUBSET (0..Depth)  OBVIOUS
<1>4. PICK N \in Bad : \A k \in Bad : N <= k
  <2>. HIDE DEF Bad
  <2>. QED  BY DepthNat, <1>2, <1>3, Least
<1>5. N \in 1..Depth /\ N - 1 \in 0..Depth /\ N - 1 \notin Bad
  <2>1. N \in 0..Depth /\ N # 0  BY <1>1, <1>4 DEF Climbs
  <2>2. N - 1 \notin Bad
    <3>1. ~(N <= N - 1)  BY DepthNat, <2>1
    <3>. HIDE DEF Bad
    <3>. QED  BY <1>4, <3>1
  <2>. QED  BY DepthNat, <2>1, <2>2
<1>6. up[N-1] \in live \cup {NoThread}  BY <1>5
<1>7. up[N] = IF up[N-1] = NoThread THEN NoThread ELSE parent[up[N-1]]
  BY <1>1, <1>5 DEF Climbs
<1>8. up[N] \in live \cup {NoThread}
  BY <1>6, <1>7 DEF TreeInv, Shape
<1>. QED  BY <1>4, <1>8

LEMMA UpNone ==
  ASSUME NEW up, NEW par, NEW h, Climbs(up, par, h),
         NEW m \in 0..Depth, up[m] = NoThread
  PROVE  \A n \in m..Depth : up[n] = NoThread
<1>. DEFINE Bad == {n \in m..Depth : up[n] # NoThread}
<1>1. SUFFICES ASSUME Bad # {}  PROVE FALSE  OBVIOUS
<1>2. Bad \in SUBSET (0..Depth)  BY DepthNat
<1>3. PICK N \in Bad : \A k \in Bad : N <= k
  <2>. HIDE DEF Bad
  <2>. QED  BY DepthNat, <1>1, <1>2, Least
<1>4. N \in m..Depth /\ N # m  BY <1>3
<1>5. N \in 1..Depth /\ N - 1 \in m..Depth /\ ~(N <= N - 1)  BY DepthNat, <1>4
<1>6. N - 1 \notin Bad
  <2>. HIDE DEF Bad
  <2>. QED  BY <1>3, <1>5
<1>7. up[N-1] = NoThread  BY <1>5, <1>6
<1>8. up[N] = NoThread  BY <1>5, <1>7 DEF Climbs
<1>. QED  BY <1>3, <1>8

(* How far h is below the thread it receives for.                          *)
Below(h, w, n) ==
  /\ n \in 0..Depth /\ w = Up(h)[n] /\ w # NoThread /\ Receives(w)
  /\ \A m \in 0..(n-1) : ~Receives(Up(h)[m])

LEMMA BelowSome ==
  ASSUME NEW h, NEW w
  PROVE  WaitsAs(h, w) <=> \E n : Below(h, w, n)
BY DEF WaitsAs, Below, Depth

(* Whoever is between a thread and the one it receives for waits for the   *)
(* group below.                                                            *)
Running_(h) == h \in live /\ ~Exiting(h) /\ h # del

LEMMA ChainSuspended ==
  ASSUME TypeInv, TreeInv, NEW h, Running_(h), NEW w, NEW n, Below(h, w, n)
  PROVE  /\ n \in Nat /\ n <= Depth
         /\ \A m \in 0..n : Running_(Up(h)[m])
         /\ \A m \in 0..(n-1) : /\ Suspending(Up(h)[m])
                                /\ parent[Up(h)[m]] = Up(h)[m+1]
<1>. DEFINE up == Up(h)
            Bad == {m \in 0..n : ~Running_(up[m])}
<1>1. Climbs(up, parent, h)  BY UpDef
<1>2. /\ n \in Nat /\ n <= Depth /\ n \in 0..Depth
      /\ \A m \in 0..(n-1) : ~Receives(up[m])
  BY DepthNat DEF Below
<1>. HIDE DEF up
<1>3. ASSUME NEW m \in 0..(n-1), Running_(up[m])
      PROVE  /\ Suspending(up[m]) /\ parent[up[m]] = up[m+1] /\ Running_(up[m+1])
  <2>1. m + 1 \in 1..Depth /\ (m + 1) - 1 = m  BY DepthNat, <1>2
  <2>2. up[m] \in live /\ up[m] \in Thread /\ up[m] # NoThread /\ ~Exiting(up[m]) /\ up[m] # del
    BY <1>3, ThreadAssumption DEF Running_, TypeInv, TypeOK
  <2>3. Suspending(up[m])
    BY <1>2, <2>2 DEF Receives, Suspending
  <2>4. up[m+1] = parent[up[m]]  BY <1>1, <2>1, <2>2 DEF Climbs
  <2>5. parent[up[m]] \in live /\ parent[up[m]] \in Thread /\ parent[up[m]] # NoThread
    BY <2>2, <2>3, ThreadAssumption
    DEF TreeInv, Shape, TypeInv, TypeOK, GroupHasParent, Suspending
  <2>6. Top(parent[up[m]]) = "BODY"  BY <2>2, <2>3 DEF TreeInv, Groups
  <2>7. ~Exiting(parent[up[m]]) /\ parent[up[m]] # del
    BY <2>5, <2>6 DEF TreeInv, Exits, Deleted
  <2>. QED  BY <2>3, <2>4, <2>5, <2>7 DEF Running_
<1>4. Bad = {}
  <2>1. SUFFICES ASSUME Bad # {}  PROVE FALSE  OBVIOUS
  <2>2. Bad \in SUBSET (0..n)  OBVIOUS
  <2>3. PICK N \in Bad : \A k \in Bad : N <= k
    <3>. HIDE DEF Bad
    <3>. QED  BY <1>2, <2>1, <2>2, Least
  <2>4. up[0] = h  BY <1>1 DEF Climbs
  <2>5. N \in 0..n /\ N # 0  BY <2>3, <2>4
  <2>6. N - 1 \in 0..(n-1) /\ N - 1 \in 0..n /\ ~(N <= N - 1) /\ (N - 1) + 1 = N
    BY <1>2, <2>5
  <2>7. N - 1 \notin Bad
    <3>. HIDE DEF Bad
    <3>. QED  BY <2>3, <2>6
  <2>8. Running_(up[N-1])  BY <2>6, <2>7
  <2>9. Running_(up[N])  BY <1>3, <2>6, <2>8
  <2>. QED  BY <2>3, <2>9
<1>5. \A m \in 0..n : Running_(up[m])  BY <1>4
<1>6. \A m \in 0..(n-1) : Running_(up[m])
  <2>1. \A m \in 0..(n-1) : m \in 0..n  BY <1>2
  <2>. QED  BY <1>5, <2>1
<1>. QED  BY <1>2, <1>3, <1>5, <1>6 DEF up

LEMMA LowerChain ==
  ASSUME TypeInv, TreeInv, NEW h, Running_(h), NEW g, Running_(g), NEW w,
         NEW n, Below(h, w, n), NEW m, Below(g, w, m), n <= m, ~Suspended(h)
  PROVE  h = g
<1>. DEFINE a == Up(h)
            b == Up(g)
            Bad == {i \in 0..n : a[n-i] # b[m-i]}
<1>1. /\ n \in Nat /\ n <= Depth
      /\ \A i \in 0..(n-1) : Suspending(a[i]) /\ parent[a[i]] = a[i+1]
  BY ChainSuspended
<1>2. /\ m \in Nat /\ m <= Depth
      /\ \A i \in 0..(m-1) : Suspending(b[i]) /\ parent[b[i]] = b[i+1]
  BY ChainSuspended
<1>3. Climbs(a, parent, h) /\ Climbs(b, parent, g)  BY UpDef
<1>4. a[n] = w /\ b[m] = w  BY DEF Below
<1>. HIDE DEF a, b
<1>5. Bad = {}
  <2>1. SUFFICES ASSUME Bad # {}  PROVE FALSE  OBVIOUS
  <2>2. Bad \in SUBSET (0..n)  OBVIOUS
  <2>3. PICK N \in Bad : \A k \in Bad : N <= k
    <3>. HIDE DEF Bad
    <3>. QED  BY <1>1, <2>1, <2>2, Least
  <2>4. N \in 0..n /\ N # 0
    <3>1. n - 0 = n /\ m - 0 = m  BY <1>1, <1>2
    <3>. QED  BY <1>4, <2>3, <3>1
  <2>5. N - 1 \in 0..n /\ ~(N <= N - 1)  BY <1>1, <2>4
  <2>6. N - 1 \notin Bad
    <3>. HIDE DEF Bad
    <3>. QED  BY <2>3, <2>5
  <2>7. a[n-(N-1)] = b[m-(N-1)]  BY <2>5, <2>6
  <2>8. /\ n - N \in 0..(n-1) /\ (n - N) + 1 = n - (N-1)
        /\ m - N \in 0..(m-1) /\ (m - N) + 1 = m - (N-1)
    BY <1>1, <1>2, <2>4
  <2>9. parent[a[n-N]] = parent[b[m-N]] /\ Suspending(a[n-N]) /\ Suspending(b[m-N])
    BY <1>1, <1>2, <2>7, <2>8
  <2>10. a[n-N] \in Thread /\ b[m-N] \in Thread  BY <2>9 DEF Suspending, TypeInv, TypeOK
  <2>11. a[n-N] = b[m-N]  BY <2>9, <2>10 DEF TreeInv, Groups
  <2>. QED  BY <2>3, <2>11
<1>6. a[n-n] = b[m-n]
  <2>1. n \in 0..n  BY <1>1
  <2>. QED  BY <1>5, <2>1
<1>7. n - n = 0 /\ m - n \in Nat  BY <1>1, <1>2
<1>8. h = b[m-n]  BY <1>3, <1>6, <1>7 DEF Climbs
<1>9. CASE m - n = 0  BY <1>3, <1>8, <1>9 DEF Climbs
<1>10. CASE m - n # 0
  <2>1. (m - n) - 1 \in 0..(m-1) /\ ((m - n) - 1) + 1 = m - n  BY <1>1, <1>2, <1>7, <1>10
  <2>2. Suspending(b[(m-n)-1]) /\ parent[b[(m-n)-1]] = h  BY <1>2, <1>8, <2>1
  <2>3. b[(m-n)-1] \in Thread  BY <2>2 DEF Suspending, TypeInv, TypeOK
  <2>. QED  BY <2>2, <2>3 DEF Suspended
<1>. QED  BY <1>9, <1>10

(* Of the threads that receive for the same thread all but one wait for a  *)
(* group.                                                                  *)
LEMMA OneActive ==
  ASSUME TypeInv, TreeInv, NEW h, NEW g, Awakable(h), Awakable(g),
         NEW w, WaitsAs(h, w), WaitsAs(g, w)
  PROVE  h = g
<1>1. PICK n : Below(h, w, n)  BY BelowSome
<1>2. PICK m : Below(g, w, m)  BY BelowSome
<1>3. Running_(h) /\ Running_(g)  BY DEF Running_, Awakable
<1>4. n \in Nat /\ m \in Nat  BY <1>1, <1>2, DepthNat DEF Below
<1>5. CASE n <= m  BY <1>1, <1>2, <1>3, <1>5, LowerChain DEF Awakable
<1>6. CASE m <= n  BY <1>1, <1>2, <1>3, <1>6, LowerChain DEF Awakable
<1>. QED  BY <1>4, <1>5, <1>6

LEMMA WaitsChild ==
  ASSUME TypeInv, TreeInv, NEW h \in live, NEW w, WaitsAs(h, w)
  PROVE  /\ w \in live
         /\ w # h => \E k \in live : parent[k] = w
<1>. DEFINE up == Up(h)
<1>1. PICK n \in 0..Depth : w = up[n] /\ w # NoThread  BY DEF WaitsAs, Depth
<1>2. Climbs(up, parent, h)  BY UpDef
<1>3. \A m \in 0..Depth : up[m] \in live \cup {NoThread}  BY UpLive
<1>. HIDE DEF up
<1>4. w \in live  BY <1>1, <1>3
<1>5. ASSUME w # h  PROVE \E k \in live : parent[k] = w
  <2>1. n \in 1..Depth /\ n - 1 \in 0..Depth  BY <1>1, <1>2, <1>5, DepthNat DEF Climbs
  <2>2. up[n-1] # NoThread /\ parent[up[n-1]] = w  BY <1>1, <1>2, <2>1 DEF Climbs
  <2>. QED  BY <1>3, <2>1, <2>2
<1>. QED  BY <1>4, <1>5

(* A thread goes on receiving for the same thread as long as its ancestors *)
(* are what they were.                                                     *)
LEMMA WaitsKept ==
  ASSUME NEW K, NEW h \in K, NEW w, WaitsAs(h, w), NoThread \notin K,
         \A k \in K : /\ parent[k] \in K \cup {NoThread} /\ parent'[k] = parent[k]
                      /\ Receives(k)' <=> Receives(k)
  PROVE  WaitsAs(h, w)'
<1>1. PICK a, b : /\ a = Up(h) /\ b = Up(h)'
                  /\ Climbs(a, parent, h) /\ Climbs(b, parent', h)
  BY UpDef
<1>. DEFINE Bad == {n \in 0..Depth : ~(b[n] = a[n] /\ a[n] \in K \cup {NoThread})}
<1>2. PICK n : Below(h, w, n)  BY BelowSome
<1>3. n \in 0..Depth /\ w = a[n] /\ w # NoThread /\ Receives(w)
      /\ \A m \in 0..(n-1) : ~Receives(a[m])
  BY <1>1, <1>2 DEF Below
<1>4. Bad = {}
  <2>1. SUFFICES ASSUME Bad # {}  PROVE FALSE  OBVIOUS
  <2>2. Bad \in SUBSET (0..Depth)  OBVIOUS
  <2>3. PICK N \in Bad : \A k \in Bad : N <= k
    <3>. HIDE DEF Bad
    <3>. QED  BY DepthNat, <2>1, <2>2, Least
  <2>4. N \in 0..Depth /\ N # 0  BY <1>1, <2>3 DEF Climbs
  <2>5. N \in 1..Depth /\ N - 1 \in 0..Depth /\ ~(N <= N - 1)  BY DepthNat, <2>4
  <2>6. N - 1 \notin Bad
    <3>. HIDE DEF Bad
    <3>. QED  BY <2>3, <2>5
  <2>7. b[N-1] = a[N-1] /\ a[N-1] \in K \cup {NoThread}  BY <2>5, <2>6
  <2>8. b[N] = a[N] /\ a[N] \in K \cup {NoThread}  BY <1>1, <2>5, <2>7 DEF Climbs
  <2>. QED  BY <2>3, <2>8
<1>5. \A m \in 0..Depth : b[m] = a[m] /\ a[m] \in K \cup {NoThread}  BY <1>4
<1>6. ASSUME NEW m \in 0..(n-1)  PROVE ~Receives(b[m])'
  <2>1. m \in 0..Depth /\ n \in m..Depth  BY <1>3, DepthNat
  <2>2. a[m] # NoThread  BY <1>1, <1>3, <2>1, UpNone
  <2>3. b[m] = a[m] /\ a[m] \in K  BY <1>5, <2>1, <2>2
  <2>. QED  BY <1>3, <2>3
<1>7. Receives(w)'  BY <1>3, <1>5
<1>8. b[n] = w  BY <1>3, <1>5
<1>. QED  BY <1>1, <1>3, <1>6, <1>7, <1>8 DEF WaitsAs, Depth

-----------------------------------------------------------------------------
(* Stacks: the tokens they hold, how many of them are alt loops, and that  *)
(* a wait is nowhere but on top.                                           *)
Rest(s) == SubSeq(s, 2, Len(s))
AltPlaces(s) == {i \in 1..Len(s) : s[i].type = "EALT"}
Alts(s) == Cardinality(AltPlaces(s))
OneAlt(e) == IF e.type = "EALT" THEN 1 ELSE 0
WaitOnTop(s) == \A i \in 2..Len(s) : s[i].type # "EWAIT"

LEMMA AltPlacesFinite ==
  ASSUME NEW s \in Seq(Item)
  PROVE  IsFiniteSet(AltPlaces(s)) /\ Alts(s) \in Nat
<1>1. Len(s) \in Nat /\ IsFiniteSet(1..Len(s))  BY LenProperties, FS_Interval
<1>2. IsFiniteSet(AltPlaces(s))  BY <1>1, FS_Subset DEF AltPlaces
<1>. QED  BY <1>2, FS_CardinalityType DEF Alts

LEMMA LoopsAlts ==
  ASSUME TypeOK, NEW h \in Thread
  PROVE  Loops(h) = Alts(pb[h])
<1>1. DOMAIN pb[h] = 1..Len(pb[h])  BY LenProperties DEF TypeOK
<1>. QED  BY <1>1 DEF Loops, Alts, AltPlaces

LEMMA RestItems ==
  ASSUME NEW s \in Seq(Item), s # <<>>
  PROVE  /\ Rest(s) \in Seq(Item) /\ Head(s) \in Item
         /\ ToSet(s) = {Head(s)} \cup ToSet(Rest(s))
         /\ Alts(s) = Alts(Rest(s)) + OneAlt(Head(s))
         /\ WaitOnTop(s) => /\ WaitOnTop(Rest(s))
                            /\ \A e \in ToSet(Rest(s)) : e.type # "EWAIT"
                            /\ Rest(s) # <<>> => Head(Rest(s)).type # "EWAIT"
<1>. DEFINE t == Rest(s)
            A == AltPlaces(s)
            B == AltPlaces(t)
            C == A \ {1}
<1>1. /\ Len(s) \in Nat /\ Len(s) > 0 /\ DOMAIN s = 1..Len(s) /\ Head(s) = s[1]
      /\ t \in Seq(Item) /\ Len(t) = Len(s) - 1 /\ Head(s) \in Item
      /\ \A i \in 1..Len(t) : t[i] = s[i+1]
  <2>1. t = Tail(s)  BY TailIsSubSeq DEF Rest
  <2>2. Len(s) \in Nat /\ Len(s) > 0 /\ DOMAIN s = 1..Len(s)  BY Places
  <2>. QED  BY <2>1, <2>2, HeadTailProperties
<1>2. DOMAIN t = 1..Len(t) /\ Len(t) \in Nat  BY <1>1, Places
<1>. HIDE DEF t
<1>3. \A i \in 2..Len(s) : i - 1 \in 1..Len(t) /\ t[i-1] = s[i]
  <2>1. ASSUME NEW i \in 2..Len(s)  PROVE i - 1 \in 1..Len(t) /\ t[i-1] = s[i]
    <3>1. i - 1 \in 1..Len(t) /\ (i - 1) + 1 = i  BY <1>1, <2>1
    <3>. QED  BY <1>1, <3>1
  <2>. QED  BY <2>1
<1>4. \A i \in 1..Len(t) : i + 1 \in 2..Len(s)  BY <1>1
<1>5. ToSet(s) = {Head(s)} \cup ToSet(t)
  <2>1. ASSUME NEW i \in 1..Len(s)  PROVE s[i] \in {Head(s)} \cup ToSet(t)
    <3>1. CASE i = 1  BY <1>1, <3>1
    <3>2. CASE i # 1
      <4>1. i \in 2..Len(s)  BY <1>1, <3>2
      <4>. QED  BY <1>2, <1>3, <4>1 DEF ToSet
    <3>. QED  BY <3>1, <3>2
  <2>2. Head(s) \in ToSet(s)
    <3>1. 1 \in 1..Len(s)  BY <1>1
    <3>. QED  BY <1>1, <3>1 DEF ToSet
  <2>3. ASSUME NEW i \in 1..Len(t)  PROVE t[i] \in ToSet(s)
    <3>1. i + 1 \in 1..Len(s)  BY <1>1
    <3>. QED  BY <1>1, <3>1 DEF ToSet
  <2>. QED  BY <1>1, <1>2, <2>1, <2>2, <2>3 DEF ToSet
<1>6. Cardinality(C) = Cardinality(B)
  <2>. DEFINE f == [i \in B |-> i + 1]
  <2>1. f \in Injection(B, C)
    <3>1. \A i \in B : i \in Nat /\ i + 1 \in C  BY <1>1 DEF AltPlaces
    <3>. QED  BY <3>1 DEF Injection, IsInjective
  <2>2. f \in Surjection(B, C)
    <3>1. ASSUME NEW j \in C  PROVE \E i \in B : f[i] = j
      <4>1. j \in 2..Len(s) /\ s[j].type = "EALT"  BY <1>1 DEF AltPlaces
      <4>2. j - 1 \in B /\ f[j-1] = j  BY <1>3, <4>1 DEF AltPlaces
      <4>. QED  BY <4>2
    <3>2. f \in [B -> C]  BY <2>1 DEF Injection
    <3>. QED  BY <3>1, <3>2 DEF Surjection
  <2>3. ExistsBijection(B, C)  BY <2>1, <2>2 DEF ExistsBijection, Bijection
  <2>4. IsFiniteSet(B)  BY <1>1, AltPlacesFinite
  <2>. QED  BY <2>3, <2>4, FS_Bijection
<1>7. Alts(s) = Alts(t) + OneAlt(Head(s))
  <2>1. IsFiniteSet(A)  BY AltPlacesFinite
  <2>2. Cardinality(C) = IF 1 \in A THEN Cardinality(A) - 1 ELSE Cardinality(A)
    BY <2>1, FS_RemoveElement
  <2>3. 1 \in A <=> Head(s).type = "EALT"  BY <1>1 DEF AltPlaces
  <2>4. Alts(s) \in Nat /\ Alts(t) \in Nat  BY <1>1, AltPlacesFinite
  <2>. QED  BY <1>6, <2>2, <2>3, <2>4 DEF Alts, OneAlt
<1>8. ASSUME WaitOnTop(s)
      PROVE  /\ \A i \in 1..Len(t) : t[i].type # "EWAIT"
             /\ WaitOnTop(t) /\ \A e \in ToSet(t) : e.type # "EWAIT"
             /\ t # <<>> => Head(t).type # "EWAIT"
  <2>1. \A i \in 1..Len(t) : t[i].type # "EWAIT"  BY <1>1, <1>4, <1>8 DEF WaitOnTop
  <2>2. WaitOnTop(t)
    <3>1. \A i \in 2..Len(t) : i \in 1..Len(t)  BY <1>2
    <3>. QED  BY <2>1, <3>1 DEF WaitOnTop
  <2>3. \A e \in ToSet(t) : e.type # "EWAIT"  BY <1>2, <2>1 DEF ToSet
  <2>4. ASSUME t # <<>>  PROVE Head(t).type # "EWAIT"
    <3>1. Head(t) = t[1]  OBVIOUS
    <3>2. 1 \in 1..Len(t)  BY <1>1, <1>2, <2>4, Places
    <3>. QED  BY <2>1, <3>1, <3>2
  <2>. QED  BY <2>1, <2>2, <2>3, <2>4
<1>. QED  BY <1>1, <1>5, <1>7, <1>8 DEF t

LEMMA PushItems ==
  ASSUME NEW s \in Seq(Item), NEW e \in Item
  PROVE  /\ <<e>> \o s \in Seq(Item) /\ <<e>> \o s # <<>> /\ Head(<<e>> \o s) = e
         /\ Rest(<<e>> \o s) = s
         /\ ToSet(<<e>> \o s) = {e} \cup ToSet(s)
         /\ Alts(<<e>> \o s) = Alts(s) + OneAlt(e)
         /\ WaitOnTop(s) /\ (s # <<>> => Head(s).type # "EWAIT") => WaitOnTop(<<e>> \o s)
<1>. DEFINE u == <<e>> \o s
<1>1. Len(s) \in Nat /\ <<e>> \in Seq(Item) /\ Len(<<e>>) = 1 /\ <<e>>[1] = e
  BY LenProperties
<1>2. /\ u \in Seq(Item) /\ Len(u) = Len(s) + 1
      /\ \A i \in 1..(Len(s) + 1) : u[i] = IF i <= 1 THEN <<e>>[i] ELSE s[i - 1]
  BY <1>1, ConcatProperties
<1>3. u[1] = e /\ \A i \in 2..(Len(s) + 1) : u[i] = s[i - 1]  BY <1>1, <1>2
<1>4. Head(u) = u[1]  OBVIOUS
<1>. HIDE DEF u
<1>5. u # <<>>  BY <1>1, <1>2, EmptySeq
<1>6. Rest(u) = s
  <2>1. /\ Rest(u) \in Seq(Item) /\ Len(Rest(u)) = Len(s)
        /\ \A i \in 1..Len(s) : Rest(u)[i] = u[i + 1]
    BY <1>1, <1>2, <1>5, TailIsSubSeq, HeadTailProperties DEF Rest
  <2>2. \A i \in 1..Len(s) : Rest(u)[i] = s[i]
    <3>1. \A i \in 1..Len(s) : i + 1 \in 2..(Len(s) + 1) /\ (i + 1) - 1 = i  BY <1>1
    <3>. QED  BY <1>3, <2>1, <3>1
  <2>. QED  BY <2>1, <2>2, SeqEqual
<1>7. Head(u) = e  BY <1>3, <1>4
<1>8. ToSet(u) = {e} \cup ToSet(s) /\ Alts(u) = Alts(s) + OneAlt(e)
  BY <1>2, <1>5, <1>6, <1>7, RestItems
<1>9. ASSUME WaitOnTop(s), s # <<>> => Head(s).type # "EWAIT"  PROVE WaitOnTop(u)
  <2>1. ASSUME NEW i \in 2..Len(u)  PROVE u[i].type # "EWAIT"
    <3>1. u[i] = s[i-1] /\ i - 1 \in 1..Len(s)  BY <1>1, <1>2, <1>3
    <3>2. CASE i - 1 = 1
      <4>1. Head(s) = s[1]  OBVIOUS
      <4>2. s # <<>>  BY <1>1, <3>1, EmptySeq
      <4>. QED  BY <1>9, <3>1, <3>2, <4>1, <4>2
    <3>3. CASE i - 1 # 1
      <4>1. i - 1 \in 2..Len(s)  BY <1>1, <3>1, <3>3
      <4>. QED  BY <1>9, <3>1, <4>1 DEF WaitOnTop
    <3>. QED  BY <3>2, <3>3
  <2>. QED  BY <2>1 DEF WaitOnTop
<1>. QED  BY <1>2, <1>5, <1>6, <1>7, <1>8, <1>9 DEF u

(* do_thread adds tokens above the EOF of a thread.                        *)
LEMMA AddItems ==
  ASSUME NEW s \in Seq(Item), WellFormed(s), NEW t \in Seq(Item), Len(t) = 4,
         \A i \in 1..4 : t[i].type \in {"BOT", "BODY", "EOT", "EOF"}
  PROVE  LET r == Front(s) \o t IN
         /\ r \in Seq(Item) /\ Alts(r) = Alts(s)
         /\ WaitOnTop(s) => WaitOnTop(r)
         /\ \A e \in ToSet(s) : e.type # "EOF" => e \in ToSet(r)
         /\ \A e \in ToSet(r) : e \in ToSet(s) \/ e.type \notin {"EWAIT", "EALT"}
<1>. DEFINE f == Front(s)
            r == f \o t
            n == Len(s) - 1
<1>1. Len(s) \in Nat /\ Len(s) > 0 /\ n \in Nat /\ Len(s) = n + 1 /\ DOMAIN s = 1..Len(s)
  BY Places DEF WellFormed
<1>2. f \in Seq(Item) /\ Len(f) = n /\ \A i \in 1..n : f[i] = s[i]
  <2>1. \A i \in 1..n : s[i] \in Item  BY <1>1, ElementOfSeq
  <2>. QED  BY <1>1, <2>1, SubSeqProperties DEF Front
<1>. HIDE DEF f, n
<1>3. /\ r \in Seq(Item) /\ Len(r) = n + 4
      /\ \A i \in 1..(n + 4) : r[i] = IF i <= n THEN f[i] ELSE t[i - n]
  <2>1. /\ r \in Seq(Item) /\ Len(r) = Len(f) + Len(t)
        /\ \A i \in 1..(Len(f) + Len(t)) : r[i] = IF i <= Len(f) THEN f[i] ELSE t[i - Len(f)]
    BY <1>2, ConcatProperties
  <2>. QED  BY <1>2, <2>1
<1>. HIDE DEF r
<1>4. DOMAIN r = 1..(n + 4)  BY <1>3, Places
<1>5. \A i \in 1..n : r[i] = s[i] /\ i \in 1..Len(s) /\ i \in 1..(n+4)  BY <1>1, <1>2, <1>3
<1>6. ASSUME NEW i \in 1..(n + 4), i \notin 1..n  PROVE r[i].type \notin {"EWAIT", "EALT"}
  <2>1. i - n \in 1..4 /\ ~(i <= n)  BY <1>1, <1>6
  <2>2. r[i] = t[i - n]  BY <1>3, <2>1
  <2>. QED  BY <2>1, <2>2
<1>7. ASSUME NEW i \in 1..Len(s), i \notin 1..n  PROVE s[i].type = "EOF"
  <2>1. i = Len(s)  BY <1>1, <1>7
  <2>. QED  BY <2>1 DEF WellFormed
<1>8. AltPlaces(r) = AltPlaces(s)  BY <1>3, <1>5, <1>6, <1>7 DEF AltPlaces
<1>9. Alts(r) = Alts(s)  BY <1>8 DEF Alts
<1>10. ASSUME WaitOnTop(s)  PROVE WaitOnTop(r)
  <2>1. ASSUME NEW i \in 2..Len(r)  PROVE r[i].type # "EWAIT"
    <3>1. i \in 1..(n + 4)  BY <1>1, <1>3
    <3>2. CASE i \in 1..n
      <4>1. i \in 2..Len(s)  BY <1>1, <3>2
      <4>. QED  BY <1>5, <1>10, <3>2, <4>1 DEF WaitOnTop
    <3>. QED  BY <1>6, <3>1, <3>2
  <2>. QED  BY <2>1 DEF WaitOnTop
<1>11. ASSUME NEW e \in ToSet(s), e.type # "EOF"  PROVE e \in ToSet(r)
  <2>1. PICK i \in 1..Len(s) : s[i] = e  BY <1>1 DEF ToSet
  <2>2. i \in 1..n  BY <1>7, <1>11, <2>1
  <2>. QED  BY <1>4, <1>5, <2>1, <2>2 DEF ToSet
<1>12. ASSUME NEW e \in ToSet(r)  PROVE e \in ToSet(s) \/ e.type \notin {"EWAIT", "EALT"}
  <2>1. PICK i \in 1..(n + 4) : r[i] = e  BY <1>4 DEF ToSet
  <2>2. CASE i \in 1..n  BY <1>1, <1>5, <2>1, <2>2 DEF ToSet
  <2>. QED  BY <1>6, <2>1, <2>2
<1>. QED  BY <1>3, <1>9, <1>10, <1>11, <1>12 DEF r, f

(* The entry of a channel for a thread is a WaitStatus.                    *)
LEMMA StatusTyped == TypeInv => \A c \in Channel, w \in Thread : ws[c][w] \in Status
<1>1. SUFFICES ASSUME TypeInv, NEW c \in Channel, NEW w \in Thread
               PROVE  ws[c][w] \in Status
  OBVIOUS
<1>2. ws \in [Channel -> [Thread -> Status]]  BY <1>1 DEF TypeInv, TypeOK
<1>3. ws[c] \in [Thread -> Status]  BY <1>2
<1>. QED  BY <1>3

(* Tokens that keep their types.                                           *)
LEMMA SameTypes ==
  ASSUME NEW s, NEW r, Len(r) = Len(s), \A i \in 1..Len(s) : r[i].type = s[i].type,
         Len(s) \in Nat
  PROVE  Alts(r) = Alts(s) /\ (WaitOnTop(s) => WaitOnTop(r))
<1>1. AltPlaces(r) = AltPlaces(s)  BY DEF AltPlaces
<1>2. \A i \in 2..Len(s) : i \in 1..Len(s)  OBVIOUS
<1>. QED  BY <1>1, <1>2 DEF Alts, WaitOnTop

-----------------------------------------------------------------------------
(* The loops.  loop_count of a thread that runs counts the alt loops on    *)
(* its stack and, in a group, those of its parent, which cannot leave one  *)
(* before the group ends.  A break in progress is over tokens only.        *)
CountOf(h) ==
  loop_count[h] = Alts(pb[h]) + (IF "SFLAG" \in flags[h] THEN loop_count[parent[h]] ELSE 0)
LoopsCounted == \A h \in live : Running_(h) => CountOf(h)
WaitsOnTop == \A h \in live : WaitOnTop(pb[h])
Breaks ==
  phase = "break" =>
    rtl # <<>> /\ level \in 1..loop_count[cur] /\ Top(cur) # "EWAIT"
StackInv == LoopsCounted /\ WaitsOnTop /\ Breaks

LEMMA CountKept ==
  ASSUME TypeInv, TypeInv', TreeInv, StackInv, live' \subseteq live,
         \A h \in live' : /\ parent'[h] = parent[h]
                          /\ "SFLAG" \in flags'[h] <=> "SFLAG" \in flags[h]
                          /\ Running_(h)' => Running_(h)
                          /\ WaitOnTop(pb[h]) => WaitOnTop(pb'[h])
                          /\ loop_count'[h] - Alts(pb'[h]) = loop_count[h] - Alts(pb[h]),
         \A h \in live : loop_count'[h] = loop_count[h] \/ ~Suspended(h)
  PROVE  LoopsCounted' /\ WaitsOnTop'
<1>1. /\ live \subseteq Thread /\ loop_count \in [Thread -> Int] /\ loop_count' \in [Thread -> Int]
      /\ pb \in [Thread -> Seq(Item)] /\ pb' \in [Thread -> Seq(Item)]
  BY DEF TypeInv, TypeOK
<1>2. ASSUME NEW h \in live', Running_(h)'  PROVE CountOf(h)'
  <2>1. h \in live /\ h \in Thread /\ Running_(h) /\ CountOf(h)
    BY <1>1, <1>2 DEF StackInv, LoopsCounted
  <2>2. /\ Alts(pb[h]) \in Int /\ Alts(pb'[h]) \in Int
        /\ loop_count[h] \in Int /\ loop_count'[h] \in Int
    BY <1>1, <2>1, AltPlacesFinite
  <2>3. loop_count'[h] - Alts(pb'[h]) = loop_count[h] - Alts(pb[h])  OBVIOUS
  <2>4. CASE "SFLAG" \in flags[h]
    <3>1. Suspending(h)  BY <2>1, <2>4 DEF Running_, Suspending
    <3>2. parent[h] \in live /\ Suspended(parent[h]) /\ parent[h] \in Thread
      <4>1. parent[h] \in Thread  BY <2>1, <2>4 DEF TypeInv, GroupHasParent
      <4>2. parent[h] # NoThread  BY <4>1, ThreadAssumption
      <4>3. parent[h] \in live  BY <2>1, <4>2 DEF TreeInv, Shape
      <4>. QED  BY <2>1, <3>1, <4>1, <4>3 DEF Suspended
    <3>3. loop_count'[parent[h]] = loop_count[parent[h]] /\ loop_count[parent[h]] \in Int
      BY <1>1, <3>2
    <3>4. loop_count[h] = Alts(pb[h]) + loop_count[parent[h]]  BY <2>1, <2>4 DEF CountOf
    <3>5. loop_count'[h] = Alts(pb'[h]) + loop_count[parent[h]]  BY <2>2, <2>3, <3>3, <3>4
    <3>6. parent'[h] = parent[h] /\ "SFLAG" \in flags'[h]  BY <2>4
    <3>. QED  BY <3>3, <3>5, <3>6 DEF CountOf
  <2>5. CASE "SFLAG" \notin flags[h]
    <3>1. loop_count[h] = Alts(pb[h])  BY <2>1, <2>2, <2>5 DEF CountOf
    <3>2. loop_count'[h] = Alts(pb'[h])  BY <2>2, <2>3, <3>1
    <3>3. "SFLAG" \notin flags'[h]  BY <2>5
    <3>. QED  BY <2>2, <3>2, <3>3 DEF CountOf
  <2>. QED  BY <2>4, <2>5
<1>3. LoopsCounted'  BY <1>2 DEF LoopsCounted
<1>4. WaitsOnTop'  BY DEF StackInv, WaitsOnTop
<1>. QED  BY <1>3, <1>4

(* Steps that leave the stacks alone.                                      *)
LEMMA QuietCount ==
  ASSUME TypeInv, TypeInv', TreeInv, StackInv,
         UNCHANGED <<live, parent, pb, loop_count>>,
         \A h \in live : /\ "SFLAG" \in flags'[h] <=> "SFLAG" \in flags[h]
                         /\ Running_(h)' => Running_(h)
  PROVE  LoopsCounted' /\ WaitsOnTop'
<1>1. live' \subseteq live /\ live \subseteq Thread  BY DEF TypeInv, TypeOK
<1>2. \A h \in live' : /\ parent'[h] = parent[h]
                       /\ "SFLAG" \in flags'[h] <=> "SFLAG" \in flags[h]
                       /\ Running_(h)' => Running_(h)
                       /\ WaitOnTop(pb[h]) => WaitOnTop(pb'[h])
                       /\ loop_count'[h] - Alts(pb'[h]) = loop_count[h] - Alts(pb[h])
  OBVIOUS
<1>. QED  BY <1>1, <1>2, CountKept

LEMMA FrameRunning ==
  ASSUME TypeInv, TreeFrame
  PROVE  /\ live' = live /\ parent' = parent
         /\ \A h \in live : /\ "SFLAG" \in flags'[h] <=> "SFLAG" \in flags[h]
                            /\ Running_(h)' <=> Running_(h)
BY DEF TreeFrame, Running_, Exiting, TypeInv, TypeOK

LEMMA QuietFrame ==
  ASSUME TypeInv, TypeInv', TreeInv, StackInv, TreeFrame, UNCHANGED <<pb, loop_count>>
  PROVE  LoopsCounted' /\ WaitsOnTop'
BY FrameRunning, QuietCount

(* Steps that change the stack of one thread.                              *)
LEMMA OneCount ==
  ASSUME TypeInv, TypeInv', TreeInv, StackInv, TreeFrame, NEW x \in live,
         \A h \in live \ {x} : pb'[h] = pb[h] /\ loop_count'[h] = loop_count[h],
         loop_count'[x] - Alts(pb'[x]) = loop_count[x] - Alts(pb[x]),
         WaitOnTop(pb'[x]), ~Suspended(x) \/ loop_count'[x] = loop_count[x]
  PROVE  LoopsCounted' /\ WaitsOnTop'
<1>1. live' \subseteq live  BY DEF TreeFrame
<1>2. ASSUME NEW h \in live'
      PROVE  /\ parent'[h] = parent[h]
             /\ "SFLAG" \in flags'[h] <=> "SFLAG" \in flags[h]
             /\ Running_(h)' => Running_(h)
             /\ WaitOnTop(pb[h]) => WaitOnTop(pb'[h])
             /\ loop_count'[h] - Alts(pb'[h]) = loop_count[h] - Alts(pb[h])
  <2>1. h \in live  BY <1>1
  <2>2. CASE h = x  BY <2>1, <2>2, FrameRunning
  <2>3. CASE h # x  BY <2>1, <2>3, FrameRunning
  <2>. QED  BY <2>2, <2>3
<1>3. \A h \in live : loop_count'[h] = loop_count[h] \/ ~Suspended(h)  OBVIOUS
<1>. QED  BY <1>1, <1>2, <1>3, CountKept

LEMMA PopCount ==
  ASSUME TypeInv, TypeInv', TreeInv, StackInv, TreeFrame, NEW x \in live, Pop(x), Awakable(x),
         \/ Top(x) # "EALT" /\ loop_count' = loop_count
         \/ Top(x) = "EALT" /\ loop_count' = [loop_count EXCEPT ![x] = @ - 1]
  PROVE  /\ LoopsCounted' /\ WaitsOnTop'
         /\ pb'[x] # <<>> => Head(pb'[x]).type # "EWAIT"
         /\ \A h \in live \ {x} : pb'[h] = pb[h] /\ loop_count'[h] = loop_count[h]
         /\ loop_count'[x] = loop_count[x] - OneAlt(Head(pb[x]))
<1>1. /\ live \subseteq Thread /\ loop_count \in [Thread -> Int] /\ pb \in [Thread -> Seq(Item)]
  BY DEF TypeInv, TypeOK
<1>2. pb' = [pb EXCEPT ![x] = Rest(@)]  BY DEF Pop, Rest
<1>3. (\A h \in live \ {x} : pb'[h] = pb[h]) /\ pb'[x] = Rest(pb[x])
  <2>. HIDE DEF Rest
  <2>. QED  BY <1>1, <1>2
<1>4. pb[x] \in Seq(Item) /\ pb[x] # <<>> /\ Top(x) = Head(pb[x]).type  BY TopOf
<1>5. /\ Rest(pb[x]) \in Seq(Item)
      /\ Alts(pb[x]) = Alts(Rest(pb[x])) + OneAlt(Head(pb[x]))
      /\ WaitOnTop(pb[x]) => /\ WaitOnTop(Rest(pb[x]))
                             /\ Rest(pb[x]) # <<>> => Head(Rest(pb[x])).type # "EWAIT"
  BY <1>4, RestItems
<1>6. /\ \A h \in live \ {x} : loop_count'[h] = loop_count[h]
      /\ loop_count'[x] = loop_count[x] - OneAlt(Head(pb[x]))
  BY <1>1, <1>4 DEF OneAlt
<1>7. Alts(pb[x]) \in Int /\ Alts(pb'[x]) \in Int /\ loop_count[x] \in Int
      /\ OneAlt(Head(pb[x])) \in Int
  BY <1>1, <1>3, <1>4, <1>5, AltPlacesFinite DEF OneAlt
<1>8. loop_count'[x] - Alts(pb'[x]) = loop_count[x] - Alts(pb[x])
  BY <1>3, <1>5, <1>6, <1>7
<1>9. WaitOnTop(pb[x])  BY DEF StackInv, WaitsOnTop
<1>10. WaitOnTop(pb'[x]) /\ (pb'[x] # <<>> => Head(pb'[x]).type # "EWAIT")
  BY <1>3, <1>5, <1>9
<1>11. ~Suspended(x)  BY DEF Awakable
<1>12. LoopsCounted' /\ WaitsOnTop'
  BY <1>3, <1>6, <1>8, <1>10, <1>11, OneCount
<1>. QED  BY <1>3, <1>6, <1>10, <1>12

LEMMA PushCount ==
  ASSUME TypeInv, TypeInv', TreeInv, StackInv, TreeFrame, rtl # <<>>, NEW e \in Item,
         Push(<<e>>), Top(cur) # "EWAIT",
         \/ e.type # "EALT" /\ loop_count' = loop_count
         \/ e.type = "EALT" /\ loop_count' = [loop_count EXCEPT ![cur] = @ + 1]
  PROVE  LoopsCounted' /\ WaitsOnTop'
<1>1. /\ live \subseteq Thread /\ loop_count \in [Thread -> Int] /\ pb \in [Thread -> Seq(Item)]
  BY DEF TypeInv, TypeOK
<1>2. PICK x \in live : x = cur /\ Awakable(x)  BY CurReady
<1>3. (\A h \in live \ {x} : pb'[h] = pb[h]) /\ pb'[x] = <<e>> \o pb[x]
  BY <1>1, <1>2 DEF Push
<1>4. pb[x] \in Seq(Item) /\ pb[x] # <<>> /\ Top(x) = Head(pb[x]).type  BY TopOf
<1>5. /\ <<e>> \o pb[x] \in Seq(Item)
      /\ Alts(<<e>> \o pb[x]) = Alts(pb[x]) + OneAlt(e)
      /\ WaitOnTop(pb[x]) => WaitOnTop(<<e>> \o pb[x])
  BY <1>2, <1>4, PushItems
<1>6. /\ \A h \in live \ {x} : loop_count'[h] = loop_count[h]
      /\ loop_count'[x] = loop_count[x] + OneAlt(e)
  BY <1>1, <1>2 DEF OneAlt
<1>7. Alts(pb[x]) \in Int /\ Alts(pb'[x]) \in Int /\ loop_count[x] \in Int /\ OneAlt(e) \in Int
  BY <1>1, <1>3, <1>4, <1>5, AltPlacesFinite DEF OneAlt
<1>8. loop_count'[x] - Alts(pb'[x]) = loop_count[x] - Alts(pb[x])
  BY <1>3, <1>5, <1>6, <1>7
<1>9. WaitOnTop(pb[x])  BY DEF StackInv, WaitsOnTop
<1>10. WaitOnTop(pb'[x])  BY <1>3, <1>5, <1>9
<1>11. ~Suspended(x)  BY <1>2 DEF Awakable
<1>. QED  BY <1>3, <1>6, <1>8, <1>10, <1>11, OneCount

LEMMA NoBreak == ASSUME phase' # "break" PROVE Breaks'
BY DEF Breaks

-----------------------------------------------------------------------------
(* The loops are counted right after each action.                          *)
LEMMA HaltStack ==
  ASSUME TypeInv, TypeInv', TreeInv, StackInv, NEW how \in {"error", "crash"}, Halt(how)
  PROVE  StackInv'
<1>1. UNCHANGED <<live, parent, named, flags, nchild, pb, loop_count, del, undefs>>
      /\ phase' # "break"
  BY DEF Halt, threadVars, stackVars
<1>2. TreeFrame  BY <1>1 DEF TreeFrame
<1>. QED  BY <1>1, <1>2, QuietFrame, NoBreak DEF StackInv

LEMMA QuietStack ==
  ASSUME TypeInv, TypeInv', TreeInv, StackInv,
         \/ do_pitch \/ do_reg \/ attach_effector \/ do_signal
         \/ begin_cleanup \/ do_undef \/ delete_dict \/ cleanup_idle_threads
  PROVE  StackInv'
<1>1. /\ UNCHANGED <<live, parent, flags, pb, loop_count>> /\ phase' # "break"
      /\ del' = del \/ del = NoThread
  BY DEF do_pitch, do_reg, attach_effector, do_signal, begin_cleanup, do_undef, delete_dict,
         cleanup_idle_threads, Command, Halt, threadVars, stackVars, chanVars, ctlVars
<1>2. NoThread \notin live  BY ThreadAssumption DEF TypeInv, TypeOK
<1>3. \A h \in live : /\ "SFLAG" \in flags'[h] <=> "SFLAG" \in flags[h]
                      /\ Running_(h)' => Running_(h)
  BY <1>1, <1>2 DEF Running_, Exiting
<1>. QED  BY <1>1, <1>3, QuietCount, NoBreak DEF StackInv

LEMMA StutterStack ==
  ASSUME TypeInv, TypeInv', TreeInv, StackInv, UNCHANGED vars
  PROVE  StackInv'
<1>1. UNCHANGED <<rtl, live, parent, named, flags, nchild, pb, loop_count, del, undefs, phase,
                  level>>
  BY DEF vars, threadVars, stackVars, ctlVars
<1>2. TreeFrame  BY <1>1 DEF TreeFrame
<1>3. LoopsCounted' /\ WaitsOnTop'  BY <1>1, <1>2, QuietFrame
<1>4. cur' = cur /\ Top(cur)' = Top(cur)  BY <1>1 DEF cur, Top
<1>5. Breaks'  BY <1>1, <1>4 DEF StackInv, Breaks
<1>. QED  BY <1>3, <1>5 DEF StackInv

LEMMA BreakStack ==
  ASSUME TypeInv, TypeInv', TreeInv, StackInv, do_break
  PROVE  StackInv'
<1>1. CASE Halt("error")  BY <1>1, HaltStack
<1>2. CASE ~Halt("error")
  <2>1. PICK n \in 0..loop_count[cur] :
          /\ level' = n /\ phase' = BreakPhase(n)
          /\ UNCHANGED <<rtl, threadVars, stackVars, del, undefs>>
    BY <1>2 DEF do_break
  <2>2. rtl # <<>> /\ Top(cur) = "BODY"  BY CommandTree DEF do_break
  <2>3. UNCHANGED <<rtl, live, parent, named, flags, nchild, pb, loop_count, del, undefs>>
    BY <2>1 DEF threadVars, stackVars
  <2>4. TreeFrame  BY <2>3 DEF TreeFrame
  <2>5. LoopsCounted' /\ WaitsOnTop'  BY <2>3, <2>4, QuietFrame
  <2>6. cur' = cur /\ Top(cur)' = Top(cur)  BY <2>3 DEF cur, Top
  <2>7. loop_count[cur] \in Int  BY <2>2, CurReady DEF TypeInv, TypeOK
  <2>8. phase' = "break" => level' \in 1..loop_count[cur]
    BY <2>1, <2>7 DEF BreakPhase
  <2>9. Breaks'  BY <2>2, <2>3, <2>6, <2>8 DEF Breaks
  <2>. QED  BY <2>5, <2>9 DEF StackInv
<1>. QED  BY <1>1, <1>2

LEMMA PopStack ==
  ASSUME TypeInv, TypeInv', TreeInv, StackInv,
         \/ begin_of_named_thread \/ end_of_named_thread \/ end_of_block
         \/ end_of_tokens \/ skip_token
  PROVE  StackInv'
<1>1. /\ rtl # <<>> /\ Top(cur) \notin {"EOF", "EALT"} /\ Pop(cur)
      /\ UNCHANGED <<rtl, live, parent, named, nchild, del, undefs, phase, level, loop_count>>
      /\ phase \in {"running", "break"}
  BY DEF begin_of_named_thread, end_of_named_thread, end_of_block, end_of_tokens,
         skip_token, Token, threadVars, ctlVars
<1>2. TreeFrame
  <2>1. CASE begin_of_named_thread
    <3>1. PICK f \in SUBSET {"CFLAG"} : flags' = [flags EXCEPT ![cur] = (@ \ {"CFLAG"}) \cup f]
      BY <2>1 DEF begin_of_named_thread
    <3>2. flags \in [Thread -> SUBSET Flag]  BY DEF TypeInv, TypeOK
    <3>. QED  BY <1>1, <3>1, <3>2 DEF TreeFrame
  <2>2. CASE ~begin_of_named_thread
    BY <2>2 DEF end_of_named_thread, end_of_block, end_of_tokens, skip_token, threadVars,
                ctlVars, TreeFrame
  <2>. QED  BY <2>1, <2>2
<1>3. PICK x \in live : x = cur /\ Awakable(x)  BY <1>1, CurReady
<1>4. /\ LoopsCounted' /\ WaitsOnTop'
      /\ pb'[x] # <<>> => Head(pb'[x]).type # "EWAIT"
  BY <1>1, <1>2, <1>3, PopCount
<1>5. cur' = x /\ Top(x)' # "EWAIT"  BY <1>1, <1>3, <1>4 DEF cur, Top
<1>6. Breaks'  BY <1>1, <1>3, <1>5 DEF StackInv, Breaks, Top
<1>. QED  BY <1>4, <1>6 DEF StackInv

LEMMA SyncStack ==
  ASSUME TypeInv, TypeInv', TreeInv, StackInv, do_sync \/ end_sync
  PROVE  StackInv'
<1>1. /\ rtl # <<>> /\ Top(cur) \in {"BODY", "ESYNC"} /\ phase = "running"
      /\ UNCHANGED <<live, parent, named, flags, nchild, del, undefs, phase, loop_count>>
  BY CommandTree, TokenTree DEF do_sync, end_sync, sync, threadVars, ctlVars
<1>2. TreeFrame /\ Breaks'  BY <1>1, NoBreak DEF TreeFrame
<1>3. CASE pb' = pb  BY <1>1, <1>2, <1>3, QuietFrame DEF StackInv
<1>4. CASE pb' = [pb EXCEPT ![cur] = <<Mark("ESYNC")>> \o @]
  <2>. DEFINE e == Mark("ESYNC")
  <2>1. e \in Item /\ e.type # "EALT"  BY MarkItem DEF Mark
  <2>2. Push(<<e>>)  BY <1>4 DEF Push
  <2>. HIDE DEF e
  <2>. QED  BY <1>1, <1>2, <2>1, <2>2, PushCount DEF StackInv
<1>5. CASE Pop(cur) /\ end_sync
  <2>1. PICK x \in live : x = cur /\ Awakable(x)  BY <1>1, CurReady
  <2>2. Top(x) # "EALT"  BY <1>1, <2>1
  <2>. QED  BY <1>1, <1>2, <1>5, <2>1, <2>2, PopCount DEF StackInv
<1>. QED  BY <1>3, <1>4, <1>5 DEF do_sync, end_sync

LEMMA WaitStack ==
  ASSUME TypeInv, TypeInv', TreeInv, StackInv, do_wait
  PROVE  StackInv'
<1>1. rtl # <<>> /\ phase = "running" /\ Top(cur) = "BODY"  BY CommandTree DEF do_wait
<1>2. CASE Halt("crash")  BY <1>2, HaltStack
<1>3. CASE ~Halt("crash")
  <2>1. PICK c \in Channel, w \in Thread, b \in Bind :
          /\ flags' = [flags EXCEPT ![w] = @ \cup {"WAITEX"}]
          /\ Push(<<Ewait(c, w, b)>>) /\ phase' # "break"
          /\ UNCHANGED <<live, parent, named, nchild, del, undefs, loop_count>>
    BY <1>1, <1>3 DEF do_wait
  <2>. DEFINE e == Ewait(c, w, b)
  <2>2. e \in Item /\ e.type # "EALT"  BY ProgramAssumption DEF Ewait, Item
  <2>3. TreeFrame  BY <2>1, FlagFrame
  <2>. HIDE DEF e
  <2>4. Push(<<e>>)  BY <2>1 DEF e
  <2>. QED  BY <1>1, <2>1, <2>2, <2>3, <2>4, PushCount, NoBreak DEF StackInv
<1>. QED  BY <1>2, <1>3

LEMMA EndWaitStack ==
  ASSUME TypeInv, TypeInv', TreeInv, StackInv, end_wait
  PROVE  StackInv'
<1>1. rtl # <<>> /\ Top(cur) = "EWAIT" /\ phase = "running"  BY TokenTree DEF end_wait
<1>2. CASE \E how \in {"error", "crash"} : Halt(how)  BY <1>2, HaltStack
<1>3. CASE ~ \E how \in {"error", "crash"} : Halt(how)
  <2>1. /\ Pop(cur)
        /\ UNCHANGED <<live, parent, named, flags, nchild, del, undefs, phase, loop_count>>
    BY <1>3 DEF end_wait, threadVars, ctlVars
  <2>2. PICK x \in live : x = cur /\ Awakable(x)  BY <1>1, CurReady
  <2>3. TreeFrame /\ Breaks'  BY <1>1, <2>1, NoBreak DEF TreeFrame
  <2>. QED  BY <1>1, <2>1, <2>2, <2>3, PopCount DEF StackInv
<1>. QED  BY <1>2, <1>3

LEMMA AltStack ==
  ASSUME TypeInv, TypeInv', TreeInv, StackInv, do_alt
  PROVE  StackInv'
<1>1. rtl # <<>> /\ phase = "running" /\ Top(cur) = "BODY"  BY CommandTree DEF do_alt
<1>2. CASE Halt("crash")  BY <1>2, HaltStack
<1>3. CASE ~Halt("crash")
  <2>1. PICK gs \in AltGuards, w \in Thread, d \in Default :
          /\ flags' = [flags EXCEPT ![w] = @ \cup {"WAITEX"}]
          /\ Push(<<Ealt(gs, w, d)>>) /\ phase' # "break"
          /\ loop_count' = [loop_count EXCEPT ![cur] = @ + 1]
          /\ UNCHANGED <<live, parent, named, nchild, del, undefs>>
    BY <1>1, <1>3 DEF do_alt, Block
  <2>. DEFINE e == Ealt(gs, w, d)
  <2>2. e \in Item /\ e.type = "EALT"
    <3>1. gs \in Seq([chnl : Channel \cup {Freed}, bind : BOOLEAN]) /\ d \in BOOLEAN
      BY GuardChannelSeq, ProgramAssumption
    <3>. QED  BY <3>1 DEF Ealt, Item
  <2>3. TreeFrame  BY <2>1, FlagFrame
  <2>. HIDE DEF e
  <2>4. Push(<<e>>)  BY <2>1 DEF e
  <2>. QED  BY <1>1, <2>1, <2>2, <2>3, <2>4, PushCount, NoBreak DEF StackInv
<1>. QED  BY <1>2, <1>3

LEMMA EndAltStack ==
  ASSUME TypeInv, TypeInv', TreeInv, StackInv, end_alt
  PROVE  StackInv'
<1>1. rtl # <<>> /\ Top(cur) = "EALT" /\ phase = "running"  BY TokenTree DEF end_alt
<1>2. CASE \E how \in {"error", "crash"} : Halt(how)  BY <1>2, HaltStack
<1>3. CASE ~ \E how \in {"error", "crash"} : Halt(how)
  <2>1. /\ UNCHANGED <<live, parent, named, flags, nchild, del, undefs, loop_count>>
        /\ phase' # "break"
        /\ Push(<<Mark("BODY")>>) \/ pb' = pb
    BY <1>1, <1>3 DEF end_alt, Block, threadVars, stackVars, ctlVars
  <2>2. TreeFrame /\ Breaks'  BY <2>1, NoBreak DEF TreeFrame
  <2>3. CASE pb' = pb  BY <2>1, <2>2, <2>3, QuietFrame DEF StackInv
  <2>4. CASE Push(<<Mark("BODY")>>)
    <3>. DEFINE e == Mark("BODY")
    <3>1. e \in Item /\ e.type # "EALT"  BY MarkItem DEF Mark
    <3>2. Push(<<e>>)  BY <2>4
    <3>. HIDE DEF e
    <3>. QED  BY <1>1, <2>1, <2>2, <3>1, <3>2, PushCount DEF StackInv
  <2>. QED  BY <2>1, <2>3, <2>4
<1>. QED  BY <1>2, <1>3

LEMMA BreakAltStack ==
  ASSUME TypeInv, TypeInv', TreeInv, StackInv, break_alt
  PROVE  StackInv'
<1>1. /\ rtl # <<>> /\ Top(cur) = "EALT" /\ phase = "break" /\ leave_alt(cur)
      /\ level' = level - 1 /\ phase' = IF level = 1 THEN "running" ELSE phase
      /\ UNCHANGED <<rtl, live, parent, named, flags, nchild, del, undefs>>
  BY DEF break_alt, threadVars
<1>2. PICK x \in live : x = cur /\ Awakable(x)  BY <1>1, CurReady
<1>3. /\ Pop(x) /\ loop_count' = [loop_count EXCEPT ![x] = @ - 1] /\ Top(x) = "EALT"
  BY <1>1, <1>2 DEF leave_alt
<1>4. TreeFrame  BY <1>1 DEF TreeFrame
<1>5. /\ LoopsCounted' /\ WaitsOnTop'
      /\ pb'[x] # <<>> => Head(pb'[x]).type # "EWAIT"
      /\ loop_count'[x] = loop_count[x] - 1
  <2>1. OneAlt(Head(pb[x])) = 1  BY <1>3, TopOf DEF OneAlt
  <2>. QED  BY <1>3, <1>4, <1>2, <2>1, PopCount
<1>6. cur' = x /\ Top(x)' # "EWAIT"  BY <1>1, <1>2, <1>5 DEF cur, Top
<1>7. level \in 1..loop_count[x] /\ loop_count[x] \in Int
  BY <1>1, <1>2 DEF StackInv, Breaks, TypeInv, TypeOK
<1>8. phase' = "break" => level' \in 1..loop_count'[x]  BY <1>1, <1>5, <1>7
<1>9. Breaks'  BY <1>1, <1>6, <1>8 DEF Breaks, Top
<1>. QED  BY <1>5, <1>9 DEF StackInv

LEMMA DeadLockStack ==
  ASSUME TypeInv, TypeInv', TreeInv, StackInv, check_dead_lock
  PROVE  StackInv'
<1>1. phase \in {"deadlock", "blocked"}  BY DEF check_dead_lock
<1>2. CASE Halt("error")  BY <1>2, HaltStack
<1>3. CASE \E c \in Channel, w \in Thread :
             /\ FirstBlocked(c, w) /\ ws[c][w].status # "WaitBlocked"
             /\ rtl' = <<ws[c][w].sleep_thd>> \o rtl /\ leave_alt(ws[c][w].sleep_thd)
             /\ UNCHANGED <<threadVars, ctlVars>>
  <2>1. PICK c \in Channel, w \in Thread :
             /\ FirstBlocked(c, w) /\ ws[c][w].status # "WaitBlocked"
             /\ rtl' = <<ws[c][w].sleep_thd>> \o rtl /\ leave_alt(ws[c][w].sleep_thd)
             /\ UNCHANGED <<threadVars, ctlVars>>
    BY <1>3
  <2>2. IsBlocked(c, w) /\ ws[c][w].status = "AltBlocked"
    BY <2>1 DEF FirstBlocked, IsBlocked
  <2>3. PICK x \in live \ Ready :
             /\ x = ws[c][w].sleep_thd /\ Refers(pb[x][1], c, w, ws[c][w].status)
             /\ Head(pb[x]) = pb[x][1]
    BY <2>2, SleeperOf
  <2>4. Top(x) = "EALT"  BY <2>2, <2>3, TopOf DEF Refers
  <2>5. Awakable(x)  BY <2>3, <2>4, BusyAwakable
  <2>6. TreeFrame /\ phase' # "break"  BY <1>1, <2>1 DEF TreeFrame, threadVars, ctlVars
  <2>7. Pop(x) /\ loop_count' = [loop_count EXCEPT ![x] = @ - 1]
    BY <2>1, <2>3 DEF leave_alt
  <2>. QED  BY <2>3, <2>4, <2>5, <2>6, <2>7, PopCount, NoBreak DEF StackInv
<1>4. CASE /\ phase' \in {"running", "done", "crash"}
           /\ UNCHANGED <<threadVars, stackVars, del, undefs>>
  <2>1. UNCHANGED <<live, parent, named, flags, nchild, pb, loop_count, del, undefs>>
    BY <1>4 DEF threadVars, stackVars
  <2>2. TreeFrame /\ Breaks'  BY <1>4, <2>1, NoBreak DEF TreeFrame
  <2>. QED  BY <2>1, <2>2, QuietFrame DEF StackInv
<1>. QED  BY <1>2, <1>3, <1>4 DEF check_dead_lock

LEMMA ThreadStack ==
  ASSUME TypeInv, TypeInv', TreeInv, StackInv, do_thread
  PROVE  StackInv'
<1>1. /\ rtl # <<>> /\ phase = "running"
      /\ UNCHANGED <<live, parent, named, flags, nchild, del, undefs, phase, loop_count>>
  BY CommandTree DEF do_thread, threadVars, ctlVars
<1>2. PICK x \in named, avoid \in BOOLEAN :
        pb' = [pb EXCEPT ![x] = Front(@) \o
                 <<Bot(reg_t[cur], avoid), Mark("BODY"), Mark("EOT"), Mark("EOF")>>]
  BY DEF do_thread
<1>. DEFINE t == <<Bot(reg_t[cur], avoid), Mark("BODY"), Mark("EOT"), Mark("EOF")>>
<1>3. x \in live /\ x \in Thread /\ live \subseteq Thread /\ pb \in [Thread -> Seq(Item)]
  BY DEF TreeInv, Names, TypeInv, TypeOK
<1>4. /\ t \in Seq(Item) /\ Len(t) = 4
      /\ \A i \in 1..4 : t[i].type \in {"BOT", "BODY", "EOT", "EOF"}
  <2>1. reg_t[cur] \in Nat  BY <1>1, CurReady DEF TypeInv, TypeOK
  <2>2. Bot(reg_t[cur], avoid) \in Item  BY <2>1 DEF Bot, Item
  <2>3. t \in Seq(Item) /\ Len(t) = 4  BY <2>2, MarkItem
  <2>4. /\ t[1].type = "BOT" /\ t[2].type = "BODY" /\ t[3].type = "EOT" /\ t[4].type = "EOF"
    BY DEF Bot, Mark
  <2>5. \A i \in 1..4 : i = 1 \/ i = 2 \/ i = 3 \/ i = 4  OBVIOUS
  <2>. HIDE DEF t
  <2>. QED  BY <2>3, <2>4, <2>5
<1>5. /\ \A h \in live \ {x} : pb'[h] = pb[h]
      /\ pb'[x] = Front(pb[x]) \o t
  BY <1>2, <1>3
<1>. HIDE DEF t
<1>. DEFINE s == pb[x]
<1>6. s \in Seq(Item) /\ WellFormed(s) /\ WaitOnTop(s)
  BY <1>3, TopOf DEF StackInv, WaitsOnTop
<1>. HIDE DEF s
<1>7. pb'[x] = Front(s) \o t  BY <1>5 DEF s
<1>8. Alts(pb'[x]) = Alts(s) /\ WaitOnTop(pb'[x])
  BY <1>4, <1>6, <1>7, AddItems
<1>9. Alts(pb'[x]) = Alts(pb[x])  BY <1>8 DEF s
<1>10. TreeFrame /\ Breaks'  BY <1>1, NoBreak DEF TreeFrame
<1>. QED  BY <1>1, <1>3, <1>5, <1>8, <1>9, <1>10, OneCount DEF StackInv

LEMMA DestroyTypes ==
  ASSUME TypeInv, TypeInv', destroy_channel, ~Halt("error"), NEW h \in Thread
  PROVE  /\ Len(pb'[h]) = Len(pb[h]) /\ Len(pb[h]) \in Nat
         /\ \A i \in 1..Len(pb[h]) : pb'[h][i].type = pb[h][i].type
<1>1. PICK c \in ToSet(all_chnls) :
        pb' = [g \in Thread |-> [i \in DOMAIN pb[g] |->
                   IF pb[g][i].type = "EALT"
                   THEN [pb[g][i] EXCEPT !.guards = [k \in DOMAIN @ |->
                          IF @[k].chnl = c THEN [@[k] EXCEPT !.chnl = Freed] ELSE @[k]]]
                   ELSE pb[g][i]]]
  BY Zenon DEF destroy_channel
<1>. DEFINE free(e) == IF e.chnl = c THEN [e EXCEPT !.chnl = Freed] ELSE e
            gs(item) == [k \in DOMAIN item.guards |-> free(item.guards[k])]
            New(item) == IF item.type = "EALT" THEN [item EXCEPT !.guards = gs(item)]
                         ELSE item
            s == pb[h]
            r == pb'[h]
<1>2. r = [i \in DOMAIN s |-> New(s[i])]  BY <1>1
<1>3. s \in Seq(Item) /\ r \in Seq(Item)  BY DEF TypeInv, TypeOK
<1>4. ASSUME NEW item \in Item  PROVE New(item).type = item.type
  <2>. HIDE DEF gs
  <2>1. CASE item.type = "EALT"
    <3>1. item \in [type : {"EALT"},
                    guards : Seq([chnl : Channel \cup {Freed}, bind : BOOLEAN]),
                    wait_thd : Thread, default : BOOLEAN]
      BY <2>1 DEF Item
    <3>. QED  BY <2>1, <3>1
  <2>. QED  BY <2>1
<1>. HIDE DEF s, r, New
<1>5. DOMAIN s = 1..Len(s) /\ Len(s) \in Nat /\ DOMAIN r = 1..Len(r) /\ Len(r) \in Nat
  BY <1>3, Places
<1>6. 1..Len(s) = 1..Len(r)  BY <1>2, <1>5
<1>7. Len(s) = Len(r)
  <2>1. \A m, n \in Nat : 1..m = 1..n => m = n
    <3>1. ASSUME NEW m \in Nat, NEW n \in Nat, 1..m = 1..n  PROVE m = n
      <4>1. CASE m < n
        <5>1. n \in 1..n /\ n \notin 1..m  BY <4>1
        <5>. QED  BY <3>1, <5>1
      <4>2. CASE n < m
        <5>1. m \in 1..m /\ m \notin 1..n  BY <4>2
        <5>. QED  BY <3>1, <5>1
      <4>. QED  BY <4>1, <4>2
    <3>. QED  BY <3>1
  <2>. QED  BY <1>5, <1>6, <2>1
<1>8. \A i \in 1..Len(s) : r[i].type = s[i].type
  BY <1>2, <1>3, <1>4, <1>5, ElementOfSeq
<1>. QED  BY <1>5, <1>7, <1>8 DEF s, r

LEMMA DestroyStack ==
  ASSUME TypeInv, TypeInv', TreeInv, StackInv, destroy_channel
  PROVE  StackInv'
<1>1. phase = "running"  BY CommandTree DEF destroy_channel
<1>2. CASE Halt("error")  BY <1>2, HaltStack
<1>3. CASE ~Halt("error")
  <2>1. UNCHANGED <<rtl, live, parent, named, flags, nchild, del, undefs, phase, loop_count>>
    BY <1>3 DEF destroy_channel, threadVars, ctlVars
  <2>2. TreeFrame /\ Breaks'  BY <1>1, <2>1, NoBreak DEF TreeFrame
  <2>3. live' = live /\ live \subseteq Thread  BY <2>1 DEF TypeInv, TypeOK
  <2>4. ASSUME NEW h \in live
        PROVE  Alts(pb'[h]) = Alts(pb[h]) /\ (WaitOnTop(pb[h]) => WaitOnTop(pb'[h]))
    <3>. DEFINE s == pb[h]
                r == pb'[h]
    <3>1. Len(r) = Len(s) /\ Len(s) \in Nat /\ \A i \in 1..Len(s) : r[i].type = s[i].type
      BY <1>3, <2>3, DestroyTypes
    <3>. HIDE DEF s, r
    <3>2. Alts(r) = Alts(s) /\ (WaitOnTop(s) => WaitOnTop(r))  BY <3>1, SameTypes
    <3>. QED  BY <3>2 DEF s, r
  <2>5. \A h \in live' : /\ parent'[h] = parent[h]
                         /\ "SFLAG" \in flags'[h] <=> "SFLAG" \in flags[h]
                         /\ Running_(h)' => Running_(h)
                         /\ WaitOnTop(pb[h]) => WaitOnTop(pb'[h])
                         /\ loop_count'[h] - Alts(pb'[h]) = loop_count[h] - Alts(pb[h])
    BY <2>1, <2>2, <2>3, <2>4, FrameRunning
  <2>6. live' \subseteq live /\ \A h \in live : loop_count'[h] = loop_count[h] \/ ~Suspended(h)
    BY <2>1
  <2>. QED  BY <2>2, <2>5, <2>6, CountKept DEF StackInv
<1>. QED  BY <1>2, <1>3

(* A thread that holds nothing but EOF.                                    *)
LEMMA AtEofAlts ==
  ASSUME NEW s \in Seq(Item), WellFormed(s), Head(s).type = "EOF"
  PROVE  Len(s) = 1 /\ Alts(s) = 0 /\ ToSet(s) = {Head(s)}
<1>1. Len(s) \in Nat /\ Len(s) > 0 /\ Head(s) = s[1] /\ DOMAIN s = 1..Len(s)
  BY Places DEF WellFormed
<1>2. 1 = Len(s)
  <2>1. 1 \in 1..Len(s)  BY <1>1
  <2>. QED  BY <1>1, <2>1 DEF WellFormed
<1>3. \A i \in 1..Len(s) : i = 1
  <2>1. \A n \in Nat : n = 1 => \A i \in 1..n : i = 1  OBVIOUS
  <2>. QED  BY <1>1, <1>2, <2>1
<1>4. AltPlaces(s) = {}
  <2>1. \A i \in 1..Len(s) : s[i].type = "EOF"  BY <1>1, <1>3
  <2>. QED  BY <2>1 DEF AltPlaces
<1>5. ToSet(s) = {Head(s)}
  <2>1. 1 \in 1..Len(s)  BY <1>1
  <2>. QED  BY <1>1, <1>3, <2>1 DEF ToSet
<1>. QED  BY <1>2, <1>4, <1>5, FS_EmptySet DEF Alts

LEMMA EofStack ==
  ASSUME TypeInv, TypeInv', TreeInv, StackInv, do_eof
  PROVE  StackInv'
<1>1. /\ phase \in {"running", "break"} /\ del = NoThread /\ rtl # <<>> /\ Top(cur) = "EOF"
      /\ UNCHANGED <<live, parent, named, flags, nchild, pb, loop_count, phase, level, undefs>>
  BY DEF do_eof, threadVars, stackVars
<1>2. PICK x \in Ready : /\ x = cur /\ x \in live /\ x \in Thread /\ Awakable(x)
  BY <1>1, CurReady
<1>3. NoThread \notin live  BY ThreadAssumption DEF TypeInv, TypeOK
<1>4. \A h \in live : /\ "SFLAG" \in flags'[h] <=> "SFLAG" \in flags[h]
                      /\ Running_(h)' => Running_(h)
  BY <1>1, <1>3 DEF Running_, Exiting
<1>5. LoopsCounted' /\ WaitsOnTop'  BY <1>1, <1>4, QuietCount
<1>6. ASSUME phase = "break"
      PROVE  rtl' # <<>> /\ level \in 1..loop_count[cur'] /\ Top(cur)' # "EWAIT"
  <2>1. level \in 1..loop_count[x] /\ loop_count[x] \in Int
    BY <1>2, <1>6 DEF StackInv, Breaks, TypeInv, TypeOK
  <2>2. Alts(pb[x]) = 0  BY <1>1, <1>2, TopOf, AtEofAlts
  <2>3. CountOf(x)
    BY <1>2 DEF StackInv, LoopsCounted, Running_, Awakable
  <2>4. "SFLAG" \in flags[x]  BY <2>1, <2>2, <2>3 DEF CountOf
  <2>5. x \notin named  BY <2>4 DEF TreeInv, Names
  <2>6. Suspending(x)  BY <1>2, <2>4 DEF Suspending, Awakable
  <2>7. /\ parent[x] \in Thread /\ Top(parent[x]) = "BODY"
    BY <1>2, <2>4, <2>6 DEF TreeInv, Groups, TypeInv, GroupHasParent
  <2>8. loop_count[x] = loop_count[parent[x]]
    <3>1. loop_count[parent[x]] \in Int  BY <2>7 DEF TypeInv, TypeOK
    <3>. QED  BY <2>2, <2>3, <2>4, <3>1 DEF CountOf
  <2>9. rtl' = <<parent[x]>> \o Tail(rtl)
    BY <1>2, <2>4, <2>5 DEF do_eof, Returns
  <2>10. Tail(rtl) \in Seq(Thread)  BY <1>1, Running DEF TypeInv
  <2>11. rtl' # <<>> /\ cur' = parent[x]
    <3>1. \A t \in Seq(Thread), e \in Thread : <<e>> \o t # <<>> /\ Head(<<e>> \o t) = e
      OBVIOUS
    <3>. QED  BY <2>7, <2>9, <2>10, <3>1 DEF cur
  <2>. QED  BY <1>1, <2>1, <2>7, <2>8, <2>11 DEF Top
<1>7. Breaks'  BY <1>1, <1>6 DEF Breaks
<1>. QED  BY <1>5, <1>7 DEF StackInv

LEMMA PostponeStack ==
  ASSUME TypeInv, TypeInv', TreeInv, StackInv, postpone_delete
  PROVE  StackInv'
<1>1. /\ flags' = [flags EXCEPT ![del] = @ \cup {"EXITING"}] /\ del # NoThread /\ del' = NoThread
      /\ UNCHANGED <<rtl, live, parent, pb, loop_count, phase, level>>
  BY DEF postpone_delete, stackVars
<1>2. /\ flags \in [Thread -> SUBSET Flag] /\ live \subseteq Thread
      /\ NoThread \notin live
  BY ThreadAssumption DEF TypeInv, TypeOK
<1>3. \A h \in live : /\ "SFLAG" \in flags'[h] <=> "SFLAG" \in flags[h]
                      /\ Running_(h)' => Running_(h)
  BY <1>1, <1>2 DEF Running_, Exiting
<1>4. LoopsCounted' /\ WaitsOnTop'  BY <1>1, <1>3, QuietCount
<1>5. cur' = cur /\ Top(cur)' = Top(cur)  BY <1>1 DEF cur, Top
<1>6. Breaks'  BY <1>1, <1>5 DEF StackInv, Breaks
<1>. QED  BY <1>4, <1>6 DEF StackInv

(* What delete_thread does to the threads.                                 *)
LEMMA DeleteFacts ==
  ASSUME TypeInv, TreeInv, delete_thread
  PROVE  \E x \in live \ (Ready \cup undefs) :
           /\ x = del /\ x # NoThread /\ Top(x) = "EOF" /\ \A h \in live : parent[h] # x
           /\ live' = live \ {x} /\ named' = named \ {x} /\ phase' = phase /\ level' = level
           /\ \A h \in live \ {x} :
                /\ parent'[h] = parent[h] /\ flags'[h] = flags[h] /\ pb'[h] = pb[h]
                /\ loop_count'[h] = loop_count[h]
                /\ nchild'[h] = IF h = parent[x] THEN nchild[h] - 1 ELSE nchild[h]
           /\ \/ del' = NoThread
              \/ del' = parent[x] /\ Exiting(parent[x]) /\ nchild[parent[x]] = 1
           /\ parent[x] \in live /\ Exiting(parent[x]) /\ nchild[parent[x]] = 1
                => del' = parent[x]
<1>1. PICK x \in live \ (Ready \cup undefs) : x = del /\ x # NoThread /\ Top(x) = "EOF"
  BY DEF TreeInv, Deleted, delete_thread
<1>2. /\ live \subseteq Thread /\ parent \in [Thread -> Thread \cup {NoThread}]
      /\ flags \in [Thread -> SUBSET Flag] /\ nchild \in [Thread -> Int]
      /\ loop_count \in [Thread -> Int] /\ NoThread \notin live
      /\ pb \in [Thread -> Seq(Item)] /\ IsFiniteSet(live)
  BY ThreadAssumption, FS_Subset DEF TypeInv, TypeOK
<1>3. /\ live' = live \ {x} /\ named' = named \ {x}
      /\ parent' = [parent EXCEPT ![x] = NoThread]
      /\ flags' = [flags EXCEPT ![x] = {}]
      /\ pb' = [pb EXCEPT ![x] = <<>>]
      /\ loop_count' = [loop_count EXCEPT ![x] = 0]
      /\ nchild' = [g \in Thread |-> IF g = parent[x] THEN nchild[g] - 1 ELSE nchild[g]]
      /\ del' = IF parent[x] # NoThread /\ nchild[parent[x]] = 1 /\ "EXITING" \in flags[parent[x]]
                THEN parent[x] ELSE NoThread
      /\ phase' = phase /\ level' = level
  BY <1>1 DEF delete_thread
<1>4. \A h \in live : parent[h] # x
  <2>. DEFINE old == {k \in live : parent[k] = x}
  <2>1. ~(nchild[x] > 0)  BY <1>1 DEF delete_thread, HasChildren
  <2>2. IsFiniteSet(old)  BY <1>2, FS_Subset
  <2>3. nchild[x] = Cardinality(old)  BY <1>1 DEF TreeInv, Count
  <2>. HIDE DEF old
  <2>4. Cardinality(old) \in Nat  BY <2>2, FS_CardinalityType
  <2>5. Cardinality(old) = 0  BY <2>1, <2>3, <2>4
  <2>6. old = {}  BY <2>2, <2>5, FS_EmptySet
  <2>. QED  BY <2>6 DEF old
<1>5. \A h \in live \ {x} :
        /\ parent'[h] = parent[h] /\ flags'[h] = flags[h] /\ pb'[h] = pb[h]
        /\ loop_count'[h] = loop_count[h]
        /\ nchild'[h] = IF h = parent[x] THEN nchild[h] - 1 ELSE nchild[h]
  BY <1>2, <1>3
<1>6. /\ \/ del' = NoThread
         \/ del' = parent[x] /\ Exiting(parent[x]) /\ nchild[parent[x]] = 1
      /\ parent[x] \in live /\ Exiting(parent[x]) /\ nchild[parent[x]] = 1
           => del' = parent[x]
  BY <1>2, <1>3 DEF Exiting
<1>. QED  BY <1>1, <1>3, <1>4, <1>5, <1>6

LEMMA DeleteThreadStack ==
  ASSUME TypeInv, TypeInv', TreeInv, StackInv, delete_thread
  PROVE  StackInv'
<1>1. PICK x \in live \ (Ready \cup undefs) :
        /\ x = del /\ live' = live \ {x} /\ phase' = phase /\ level' = level
        /\ \A h \in live \ {x} :
             /\ parent'[h] = parent[h] /\ flags'[h] = flags[h] /\ pb'[h] = pb[h]
             /\ loop_count'[h] = loop_count[h]
        /\ \A h \in live : parent[h] # x
  BY DeleteFacts
<1>2. live' \subseteq live  BY <1>1
<1>3. ASSUME NEW h \in live'
      PROVE  /\ parent'[h] = parent[h]
             /\ "SFLAG" \in flags'[h] <=> "SFLAG" \in flags[h]
             /\ Running_(h)' => Running_(h)
             /\ WaitOnTop(pb[h]) => WaitOnTop(pb'[h])
             /\ loop_count'[h] - Alts(pb'[h]) = loop_count[h] - Alts(pb[h])
  <2>1. h \in live \ {x}  BY <1>1
  <2>2. Running_(h)' => Running_(h)  BY <1>1, <2>1 DEF Running_, Exiting
  <2>. QED  BY <1>1, <2>1, <2>2
<1>4. ASSUME NEW h \in live  PROVE loop_count'[h] = loop_count[h] \/ ~Suspended(h)
  <2>1. CASE h = x  BY <1>1, <2>1 DEF Suspended, Suspending
  <2>2. CASE h # x  BY <1>1, <2>2
  <2>. QED  BY <2>1, <2>2
<1>5. LoopsCounted' /\ WaitsOnTop'  BY <1>2, <1>3, <1>4, CountKept
<1>6. ASSUME phase = "break"
      PROVE  rtl' # <<>> /\ level' \in 1..loop_count'[cur'] /\ Top(cur)' # "EWAIT"
  <2>1. /\ rtl # <<>> /\ level \in 1..loop_count[cur] /\ Top(cur) # "EWAIT"
    BY <1>6 DEF StackInv, Breaks
  <2>2. cur' = cur /\ IsInjective(rtl') /\ Ready \subseteq Ready'  BY <2>1, DetachTree
  <2>3. cur \in Ready /\ cur \in live  BY <2>1, CurReady
  <2>4. rtl' # <<>>  BY <2>2, <2>3 DEF Ready, ToSet
  <2>5. PICK h \in live \ {x} : h = cur  BY <2>3
  <2>6. loop_count'[h] = loop_count[h] /\ pb'[h] = pb[h]  BY <1>1, <2>5
  <2>. QED  BY <1>1, <2>1, <2>2, <2>4, <2>5, <2>6 DEF Top
<1>7. Breaks'  BY <1>1, <1>6 DEF Breaks
<1>. QED  BY <1>5, <1>7 DEF StackInv

(* A new thread has no loop of its own.                                    *)
LEMMA CreateStack ==
  ASSUME TypeInv, TypeInv', TreeInv, StackInv,
         NEW new \in Thread \ live, NEW p \in live, NEW fs, NEW stack, NEW loops,
         create_thread(new, p, fs, stack, loops), Alts(stack) = 0, WaitOnTop(stack),
         loops = IF "SFLAG" \in fs THEN loop_count[p] ELSE 0,
         del = NoThread, phase' # "break", ~Exiting(p)
  PROVE  StackInv'
<1>1. /\ live \subseteq Thread /\ parent \in [Thread -> Thread \cup {NoThread}]
      /\ flags \in [Thread -> SUBSET Flag] /\ loop_count \in [Thread -> Int]
      /\ pb \in [Thread -> Seq(Item)]
  BY DEF TypeInv, TypeOK
<1>2. /\ live' = live \cup {new}
      /\ \A h \in live : /\ pb'[h] = pb[h] /\ flags'[h] = flags[h] /\ parent'[h] = parent[h]
                         /\ loop_count'[h] = loop_count[h]
      /\ pb'[new] = stack /\ flags'[new] = fs /\ parent'[new] = p /\ loop_count'[new] = loops
  BY <1>1 DEF create_thread
<1>3. NoThread \notin live /\ p # new  BY <1>1, ThreadAssumption
<1>4. ASSUME NEW h \in live', Running_(h)'  PROVE CountOf(h)'
  <2>1. CASE h = new
    <3>1. /\ loop_count'[h] = loops /\ Alts(pb'[h]) = 0
          /\ parent'[h] = p /\ loop_count'[p] = loop_count[p]
          /\ flags'[h] = fs
      BY <1>2, <2>1
    <3>2. loop_count[p] \in Int  BY <1>1
    <3>. QED  BY <3>1, <3>2 DEF CountOf
  <2>2. CASE h \in live
    <3>1. Running_(h)  BY <1>2, <1>3, <1>4, <2>2 DEF Running_, Exiting
    <3>2. CountOf(h)  BY <2>2, <3>1 DEF StackInv, LoopsCounted
    <3>3. CASE "SFLAG" \in flags[h]
      <4>1. Suspending(h)  BY <3>1, <3>3 DEF Running_, Suspending
      <4>2. parent[h] \in live
        BY <2>2, <3>3, ThreadAssumption DEF TypeInv, GroupHasParent, TreeInv, Shape
      <4>3. loop_count'[parent[h]] = loop_count[parent[h]]  BY <1>2, <4>2
      <4>. QED  BY <1>2, <2>2, <3>2, <4>3 DEF CountOf
    <3>4. CASE "SFLAG" \notin flags[h]
      <4>1. "SFLAG" \notin flags'[h]  BY <1>2, <2>2, <3>4
      <4>. QED  BY <1>2, <2>2, <3>2, <3>4, <4>1 DEF CountOf
    <3>. QED  BY <3>3, <3>4
  <2>. QED  BY <1>2, <2>1, <2>2
<1>5. LoopsCounted'  BY <1>4 DEF LoopsCounted
<1>6. WaitsOnTop'  BY <1>2 DEF StackInv, WaitsOnTop
<1>. QED  BY <1>5, <1>6, NoBreak DEF StackInv

LEMMA GroupStack ==
  ASSUME TypeInv, TypeInv', TreeInv, StackInv, do_defthread \/ do_lbrace \/ do_lbracket
  PROVE  StackInv'
<1>1. /\ rtl # <<>> /\ phase = "running" /\ del = NoThread
  BY CommandTree DEF do_defthread, do_lbrace, do_lbracket
<1>2. PICK x \in live : x = cur  BY <1>1, CurReady
<1>3. CASE do_defthread
  <2>1. PICK p \in {cur} \cup named, new \in Thread \ live :
          create_thread(new, p, {}, <<Mark("EOF")>>, 0)
    BY <1>3 DEF do_defthread
  <2>2. p \in live /\ ~Exiting(p)
    BY <1>1, <2>1, CurReady DEF TreeInv, Names, Exits, Awakable
  <2>3. phase' # "break"  BY <1>1, <1>3 DEF do_defthread, ctlVars
  <2>. DEFINE stack == <<Mark("EOF")>>
  <2>4. WaitOnTop(stack)  BY DEF WaitOnTop
  <2>5. Alts(stack) = 0
    <3>1. AltPlaces(stack) = {}  BY DEF AltPlaces, Mark
    <3>. QED  BY <3>1, FS_EmptySet DEF Alts
  <2>6. create_thread(new, p, {}, stack, 0)  BY <2>1
  <2>. HIDE DEF stack
  <2>. QED  BY <1>1, <2>2, <2>3, <2>4, <2>5, <2>6, CreateStack
<1>4. CASE do_lbrace \/ do_lbracket
  <2>1. PICK pf \in {{}, {"PFLAG"}} : group(pf)  BY <1>4 DEF do_lbrace, do_lbracket
  <2>. DEFINE stack == <<Mark("BODY"), Mark("EOB"), Mark("EOF")>>
  <2>2. PICK new \in Thread \ live, amp \in BOOLEAN :
          /\ create_thread(new, x, IF amp THEN pf ELSE pf \cup {"SFLAG"}, stack,
                           IF amp THEN 0 ELSE loop_count[x])
          /\ phase' = phase
    BY <1>2, <2>1 DEF group, ctlVars
  <2>3. WaitOnTop(stack) /\ AltPlaces(stack) = {}
    <3>1. \A i \in 1..3 : i = 1 \/ i = 2 \/ i = 3  OBVIOUS
    <3>2. /\ stack[1].type = "BODY" /\ stack[2].type = "EOB" /\ stack[3].type = "EOF"
          /\ Len(stack) = 3
      BY DEF Mark
    <3>3. \A i \in 2..3 : i \in 1..3  OBVIOUS
    <3>. HIDE DEF stack
    <3>. QED  BY <3>1, <3>2, <3>3 DEF WaitOnTop, AltPlaces
  <2>4. Alts(stack) = 0  BY <2>3, FS_EmptySet DEF Alts
  <2>. HIDE DEF stack
  <2>. DEFINE fs == IF amp THEN pf ELSE pf \cup {"SFLAG"}
              loops == IF amp THEN 0 ELSE loop_count[x]
  <2>5. loops = IF "SFLAG" \in fs THEN loop_count[x] ELSE 0
    <3>1. "SFLAG" \in fs <=> ~amp  BY <2>1
    <3>. QED  BY <3>1
  <2>6. create_thread(new, x, fs, stack, loops)  BY <2>2
  <2>7. ~Exiting(x)  BY <1>1, <1>2, CurReady DEF Awakable
  <2>. HIDE DEF fs, loops
  <2>. QED  BY <1>1, <2>2, <2>3, <2>4, <2>5, <2>6, <2>7, CreateStack
<1>. QED  BY <1>3, <1>4

LEMMA StackInit == Init => StackInv
<1>. SUFFICES ASSUME Init PROVE StackInv  OBVIOUS
<1>. DEFINE stack == <<Mark("BODY"), Mark("EOF")>>
<1>1. WaitOnTop(stack) /\ AltPlaces(stack) = {}
  <2>1. \A i \in 1..2 : i = 1 \/ i = 2  OBVIOUS
  <2>2. stack[1].type = "BODY" /\ stack[2].type = "EOF" /\ Len(stack) = 2  BY DEF Mark
  <2>3. \A i \in 2..2 : i \in 1..2  OBVIOUS
  <2>. HIDE DEF stack
  <2>. QED  BY <2>1, <2>2, <2>3 DEF WaitOnTop, AltPlaces
<1>2. pb[Root] = stack  BY ThreadAssumption DEF Init
<1>. HIDE DEF stack
<1>3. live = {Root} /\ phase = "running" /\ flags[Root] = {} /\ loop_count[Root] = 0
  BY ThreadAssumption DEF Init
<1>4. Alts(stack) = 0  BY <1>1, FS_EmptySet DEF Alts
<1>. QED  BY <1>1, <1>2, <1>3, <1>4 DEF StackInv, LoopsCounted, WaitsOnTop, Breaks, CountOf

LEMMA StackNext ==
  ASSUME TypeInv, TypeInv', TreeInv, StackInv, [Next]_vars
  PROVE  StackInv'
<1>1. CASE \/ do_defthread \/ do_lbrace \/ do_lbracket \/ do_thread
           \/ begin_of_named_thread \/ end_of_named_thread \/ end_of_block \/ end_of_tokens
           \/ do_pitch \/ do_reg \/ attach_effector \/ do_sync \/ end_sync
  BY <1>1, GroupStack, ThreadStack, PopStack, QuietStack, SyncStack
<1>2. CASE \/ do_signal \/ do_wait \/ end_wait \/ do_alt \/ end_alt \/ destroy_channel
  BY <1>2, QuietStack, WaitStack, EndWaitStack, AltStack, EndAltStack, DestroyStack
<1>3. CASE \/ do_eof \/ postpone_delete \/ delete_thread
           \/ do_break \/ skip_token \/ break_alt \/ do_undef \/ delete_dict
  BY <1>3, EofStack, PostponeStack, DeleteThreadStack, BreakStack, PopStack, BreakAltStack,
     QuietStack
<1>4. CASE \/ begin_cleanup \/ cleanup_idle_threads \/ check_dead_lock
           \/ terminated \/ UNCHANGED vars
  BY <1>4, QuietStack, DeadLockStack, StutterStack DEF terminated
<1>. QED  BY <1>1, <1>2, <1>3, <1>4 DEF Next

LEMMA StackInvariant == Spec => [](TypeInv /\ TreeInv /\ StackInv)
<1>1. Init => TypeInv /\ TreeInv /\ StackInv  BY TypeInit, TreeInit, StackInit
<1>2. TypeInv /\ TreeInv /\ StackInv /\ [Next]_vars => (TypeInv /\ TreeInv /\ StackInv)'
  BY TypeStep, TreeStep, StackNext
<1>. QED  BY <1>1, <1>2, PTL DEF Spec

(* break(n) finds the n-th alt loop on the stacks it goes through: the     *)
(* loop count of a thread is the number of its alt tokens and, in a group, *)
(* of the loops of its parent, and a break in progress has at most as many *)
(* loops left to leave.                                                    *)
THEOREM LoopsLeft == Spec => []BreakHasTarget
<1>1. TypeInv /\ TreeInv /\ StackInv => BreakHasTarget
  <2>. SUFFICES ASSUME TypeInv, TreeInv, StackInv  PROVE BreakHasTarget  OBVIOUS
  <2>1. \A h \in live : Loops(h) = Alts(pb[h])  BY LoopsAlts DEF TypeInv, TypeOK
  <2>. QED  BY <2>1 DEF BreakHasTarget, StackInv, LoopsCounted, Breaks, CountOf, Running_
<1>. QED  BY <1>1, StackInvariant, PTL

-----------------------------------------------------------------------------
(* wait and alt that are not finished.  Each EWAIT and EALT is on the      *)
(* stack of a thread that receives for its wait_thd; the WaitStatus of     *)
(* their channels exist; one that is executing has such a token.           *)
Busy == {"EWAIT", "EALT"}
Serves(e, c, w) ==
  \/ e.type = "EWAIT" /\ e.chnl = c /\ e.wait_thd = w
  \/ e.type = "EALT" /\ c \in GuardChannels(e) /\ e.wait_thd = w
Serving(c, w) == \E h \in live : \E e \in ToSet(pb[h]) : Serves(e, c, w)
Executing(c, w) == ws[c][w].status = "Executing"

Receivers ==
  \A h \in live : \A e \in ToSet(pb[h]) : e.type \in Busy => WaitsAs(h, e.wait_thd)
Finished == \A c \in Channel, w \in Thread : Executing(c, w) => Serving(c, w)
GuardsKnown(e) ==
  e.type = "EALT" => \A c \in GuardChannels(e) \cap Channel : HasStatus(c, e.wait_thd)
Registered ==
  /\ \A c \in Channel, w \in Thread :
       /\ IsBlocked(c, w) => HasStatus(c, w)
       /\ HasStatus(c, w) => c \in ToSet(all_chnls)
  /\ \A h \in live : \A e \in ToSet(pb[h]) : GuardsKnown(e)
DutyInv == Receivers /\ Finished /\ Registered

(* Whom a thread receives for does not change.                             *)
Links(K) ==
  \A h \in K : parent'[h] = parent[h] /\ ("SFLAG" \in flags'[h] <=> "SFLAG" \in flags[h])

LEMMA WaitsAsKept ==
  ASSUME TypeInv, TypeInv', TreeInv, TreeInv', NEW K \in SUBSET (live \cap live'), Links(K),
         \A k \in K : parent[k] \in K \cup {NoThread},
         NEW h \in K, NEW w, WaitsAs(h, w)
  PROVE  WaitsAs(h, w)'
<1>1. \A k \in K : Receives(k)' <=> Receives(k)
  BY DEF Links, Receives, TreeInv, Names
<1>2. NoThread \notin K  BY ThreadAssumption DEF TypeInv, TypeOK
<1>3. \A k \in K : /\ parent[k] \in K \cup {NoThread} /\ parent'[k] = parent[k]
                   /\ Receives(k)' <=> Receives(k)
  BY <1>1 DEF Links
<1>. QED  BY <1>2, <1>3, WaitsKept

LEMMA DutyStep ==
  ASSUME TypeInv, TypeInv', TreeInv, TreeInv', DutyInv, live \subseteq live', Links(live),
         \A h \in live' : \A e \in ToSet(pb'[h]) : e.type \in Busy =>
           \/ h \in live /\ e \in ToSet(pb[h])
           \/ WaitsAs(h, e.wait_thd)' /\ GuardsKnown(e)',
         \A c \in Channel, w \in Thread :
           /\ Executing(c, w)' => Serving(c, w)'
           /\ IsBlocked(c, w)' => IsBlocked(c, w) \/ HasStatus(c, w)'
           /\ HasStatus(c, w) => HasStatus(c, w)'
           /\ HasStatus(c, w)' => HasStatus(c, w) \/ c \in ToSet(all_chnls'),
         ToSet(all_chnls) \subseteq ToSet(all_chnls')
  PROVE  DutyInv'
<1>1. \A k \in live : parent[k] \in live \cup {NoThread}  BY DEF TreeInv, Shape
<1>2. \A h \in live : \A w : WaitsAs(h, w) => WaitsAs(h, w)'
  BY <1>1, WaitsAsKept
<1>3. Receivers'
  <2>1. ASSUME NEW h \in live', NEW e \in ToSet(pb'[h]), e.type \in Busy
        PROVE  WaitsAs(h, e.wait_thd)'
    <3>1. CASE h \in live /\ e \in ToSet(pb[h])
      <4>1. WaitsAs(h, e.wait_thd)  BY <2>1, <3>1 DEF DutyInv, Receivers
      <4>. QED  BY <1>2, <3>1, <4>1
    <3>. QED  BY <2>1, <3>1
  <2>. QED  BY <2>1 DEF Receivers
<1>4. Finished'  BY DEF Finished
<1>5. ASSUME NEW c \in Channel, NEW w \in Thread
      PROVE  /\ IsBlocked(c, w)' => HasStatus(c, w)'
             /\ HasStatus(c, w)' => c \in ToSet(all_chnls')
  BY DEF DutyInv, Registered
<1>6. ASSUME NEW h \in live', NEW e \in ToSet(pb'[h])  PROVE GuardsKnown(e)'
  <2>1. SUFFICES ASSUME e.type = "EALT", NEW c \in GuardChannels(e) \cap Channel
                 PROVE  HasStatus(c, e.wait_thd)'
    BY DEF GuardsKnown
  <2>2. CASE h \in live /\ e \in ToSet(pb[h])
    <3>1. HasStatus(c, e.wait_thd)  BY <2>1, <2>2 DEF DutyInv, Registered, GuardsKnown
    <3>2. e.wait_thd \in Thread
      <4>1. wtop[c] \in Seq(Thread)  BY DEF TypeInv, TypeOK
      <4>. QED  BY <3>1, <4>1, ElementsInSet DEF HasStatus
    <3>. QED  BY <3>1, <3>2
  <2>3. CASE GuardsKnown(e)'  BY <2>1, <2>3 DEF GuardsKnown
  <2>. QED  BY <2>1, <2>2, <2>3 DEF Busy
<1>7. Registered'  BY <1>5, <1>6 DEF Registered
<1>. QED  BY <1>3, <1>4, <1>7 DEF DutyInv

(* Steps that leave the channels and all EWAIT and EALT alone.             *)
LEMMA DutyQuiet ==
  ASSUME TypeInv, TypeInv', TreeInv, TreeInv', DutyInv, live \subseteq live', Links(live),
         UNCHANGED <<ws, wtop, all_chnls>>,
         \A h \in live : \A e : e.type \in Busy =>
           (e \in ToSet(pb'[h]) <=> e \in ToSet(pb[h])),
         \A h \in live' \ live : \A e \in ToSet(pb'[h]) : e.type \notin Busy
  PROVE  DutyInv'
<1>1. \A h \in live' : \A e \in ToSet(pb'[h]) : e.type \in Busy =>
        h \in live /\ e \in ToSet(pb[h])
  OBVIOUS
<1>2. ASSUME NEW c \in Channel, NEW w \in Thread
      PROVE  /\ Executing(c, w)' => Serving(c, w)'
             /\ IsBlocked(c, w)' => IsBlocked(c, w)
             /\ HasStatus(c, w)' <=> HasStatus(c, w)
  <2>1. /\ Executing(c, w)' <=> Executing(c, w)
        /\ IsBlocked(c, w)' <=> IsBlocked(c, w)
        /\ HasStatus(c, w)' <=> HasStatus(c, w)
    BY DEF Executing, IsBlocked, HasStatus
  <2>2. ASSUME Serving(c, w)  PROVE Serving(c, w)'
    <3>1. PICK h \in live : \E e \in ToSet(pb[h]) : Serves(e, c, w)  BY <2>2 DEF Serving
    <3>2. PICK e \in ToSet(pb[h]) : Serves(e, c, w)  BY <3>1
    <3>3. e.type \in Busy  BY <3>2 DEF Serves, Busy
    <3>4. e \in ToSet(pb'[h]) /\ h \in live'  BY <3>3
    <3>. QED  BY <3>2, <3>4 DEF Serving
  <2>. QED  BY <2>1, <2>2 DEF DutyInv, Finished
<1>3. ToSet(all_chnls) \subseteq ToSet(all_chnls')  OBVIOUS
<1>. QED  BY <1>1, <1>2, <1>3, DutyStep

LEMMA SameDuty ==
  ASSUME TypeInv, TypeInv', TreeInv, TreeInv', DutyInv, Links(live),
         UNCHANGED <<live, pb, ws, wtop, all_chnls>>
  PROVE  DutyInv'
BY DutyQuiet

LEMMA HaltDuty ==
  ASSUME TypeInv, TypeInv', TreeInv, TreeInv', DutyInv, NEW how, Halt(how)
  PROVE  DutyInv'
<1>1. Links(live) /\ UNCHANGED <<live, pb, ws, wtop, all_chnls>>
  BY DEF Links, Halt, threadVars, stackVars, chanVars
<1>. QED  BY <1>1, SameDuty

LEMMA QuietDuty ==
  ASSUME TypeInv, TypeInv', TreeInv, TreeInv', DutyInv,
         \/ do_pitch \/ do_reg \/ attach_effector \/ do_break \/ do_undef \/ delete_dict
         \/ do_eof \/ postpone_delete \/ begin_cleanup \/ cleanup_idle_threads
         \/ UNCHANGED vars
  PROVE  DutyInv'
<1>1. UNCHANGED <<live, pb, ws, wtop, all_chnls>>
  BY DEF do_pitch, do_reg, attach_effector, do_break, do_undef, delete_dict, do_eof,
         postpone_delete, begin_cleanup, cleanup_idle_threads, Halt, threadVars, stackVars,
         chanVars, vars
<1>2. Links(live)
  <2>1. CASE postpone_delete
    <3>1. flags \in [Thread -> SUBSET Flag] /\ live \subseteq Thread  BY DEF TypeInv, TypeOK
    <3>2. flags' = [flags EXCEPT ![del] = @ \cup {"EXITING"}] /\ parent' = parent
      BY <2>1 DEF postpone_delete
    <3>. QED  BY <3>1, <3>2 DEF Links
  <2>2. CASE ~postpone_delete
    BY <2>2 DEF Links, do_pitch, do_reg, attach_effector, do_break, do_undef, delete_dict,
         do_eof, begin_cleanup, cleanup_idle_threads, Halt, threadVars, vars
  <2>. QED  BY <2>1, <2>2
<1>. QED  BY <1>1, <1>2, SameDuty

LEMMA PopTokens ==
  ASSUME TypeInv, TreeInv, NEW x \in live, Pop(x)
  PROVE  /\ \A h \in live \ {x} : pb'[h] = pb[h]
         /\ ToSet(pb[x]) = {Head(pb[x])} \cup ToSet(pb'[x])
<1>1. live \subseteq Thread /\ pb \in [Thread -> Seq(Item)]  BY DEF TypeInv, TypeOK
<1>2. pb' = [pb EXCEPT ![x] = Rest(@)]  BY DEF Pop, Rest
<1>3. (\A h \in live \ {x} : pb'[h] = pb[h]) /\ pb'[x] = Rest(pb[x])
  <2>. HIDE DEF Rest
  <2>. QED  BY <1>1, <1>2
<1>4. pb[x] \in Seq(Item) /\ pb[x] # <<>>  BY TopOf
<1>. QED  BY <1>3, <1>4, RestItems

LEMMA PushTokens ==
  ASSUME TypeInv, TreeInv, rtl # <<>>, NEW e \in Item, Push(<<e>>)
  PROVE  /\ \A h \in live \ {cur} : pb'[h] = pb[h]
         /\ ToSet(pb'[cur]) = {e} \cup ToSet(pb[cur])
<1>1. live \subseteq Thread /\ pb \in [Thread -> Seq(Item)] /\ cur \in live
  BY CurReady DEF TypeInv, TypeOK
<1>2. (\A h \in live \ {cur} : pb'[h] = pb[h]) /\ pb'[cur] = <<e>> \o pb[cur]
  BY <1>1 DEF Push
<1>3. pb[cur] \in Seq(Item)  BY <1>1
<1>. QED  BY <1>2, <1>3, PushItems

LEMMA OneQuiet ==
  ASSUME TypeInv, TypeInv', TreeInv, TreeInv', DutyInv, Links(live),
         UNCHANGED <<live, ws, wtop, all_chnls>>, NEW x \in live,
         \A h \in live \ {x} : pb'[h] = pb[h],
         \A e : e.type \in Busy => (e \in ToSet(pb'[x]) <=> e \in ToSet(pb[x]))
  PROVE  DutyInv'
<1>1. ASSUME NEW h \in live, NEW e, e.type \in Busy
      PROVE  e \in ToSet(pb'[h]) <=> e \in ToSet(pb[h])
  <2>1. CASE h = x  BY <1>1, <2>1
  <2>2. CASE h # x  BY <2>2
  <2>. QED  BY <2>1, <2>2
<1>. QED  BY <1>1, DutyQuiet

LEMMA PopDuty ==
  ASSUME TypeInv, TypeInv', TreeInv, TreeInv', StackInv, DutyInv,
         \/ begin_of_named_thread \/ end_of_named_thread \/ end_of_block
         \/ end_of_tokens \/ skip_token
  PROVE  DutyInv'
<1>1. /\ rtl # <<>> /\ Pop(cur)
      /\ UNCHANGED <<live, parent, ws, wtop, all_chnls>>
  BY DEF begin_of_named_thread, end_of_named_thread, end_of_block, end_of_tokens,
         skip_token, Token, threadVars, chanVars
<1>2. Top(cur) \notin Busy
  BY DEF begin_of_named_thread, end_of_named_thread, end_of_block, end_of_tokens,
         skip_token, Token, StackInv, Breaks, Busy
<1>3. Links(live)
  <2>1. CASE begin_of_named_thread
    <3>1. PICK f \in SUBSET {"CFLAG"} : flags' = [flags EXCEPT ![cur] = (@ \ {"CFLAG"}) \cup f]
      BY <2>1 DEF begin_of_named_thread
    <3>2. flags \in [Thread -> SUBSET Flag] /\ live \subseteq Thread  BY DEF TypeInv, TypeOK
    <3>. QED  BY <1>1, <3>1, <3>2 DEF Links
  <2>2. CASE ~begin_of_named_thread
    BY <2>2 DEF end_of_named_thread, end_of_block, end_of_tokens, skip_token, threadVars, Links
  <2>. QED  BY <2>1, <2>2
<1>4. PICK x \in live : x = cur  BY <1>1, CurReady
<1>5. /\ \A h \in live \ {x} : pb'[h] = pb[h]
      /\ ToSet(pb[x]) = {Head(pb[x])} \cup ToSet(pb'[x])
      /\ Head(pb[x]).type \notin Busy
  BY <1>1, <1>2, <1>4, PopTokens, TopOf
<1>. QED  BY <1>1, <1>3, <1>5, OneQuiet

LEMMA SyncDuty ==
  ASSUME TypeInv, TypeInv', TreeInv, TreeInv', DutyInv, do_sync \/ end_sync
  PROVE  DutyInv'
<1>1. /\ rtl # <<>> /\ Top(cur) \in {"BODY", "ESYNC"}
      /\ UNCHANGED <<live, parent, flags, ws, wtop, all_chnls>>
  BY CommandTree, TokenTree DEF do_sync, end_sync, sync, threadVars, chanVars
<1>2. Links(live)  BY <1>1 DEF Links
<1>3. CASE pb' = pb  BY <1>1, <1>2, <1>3, SameDuty
<1>4. PICK x \in live : x = cur  BY <1>1, CurReady
<1>5. CASE pb' = [pb EXCEPT ![cur] = <<Mark("ESYNC")>> \o @]
  <2>. DEFINE e == Mark("ESYNC")
  <2>1. e \in Item /\ e.type \notin Busy  BY MarkItem DEF Mark, Busy
  <2>2. Push(<<e>>)  BY <1>5 DEF Push
  <2>. HIDE DEF e
  <2>3. /\ \A h \in live \ {x} : pb'[h] = pb[h]
        /\ ToSet(pb'[x]) = {e} \cup ToSet(pb[x])
    BY <1>1, <1>4, <2>1, <2>2, PushTokens
  <2>. QED  BY <1>1, <1>2, <2>1, <2>3, OneQuiet
<1>6. CASE Pop(cur)
  <2>1. /\ \A h \in live \ {x} : pb'[h] = pb[h]
        /\ ToSet(pb[x]) = {Head(pb[x])} \cup ToSet(pb'[x])
        /\ Head(pb[x]).type \notin Busy
    BY <1>1, <1>4, <1>6, PopTokens, TopOf DEF Busy
  <2>. QED  BY <1>1, <1>2, <2>1, OneQuiet
<1>. QED  BY <1>3, <1>5, <1>6 DEF do_sync, end_sync

LEMMA ThreadDuty ==
  ASSUME TypeInv, TypeInv', TreeInv, TreeInv', DutyInv, do_thread
  PROVE  DutyInv'
<1>1. rtl # <<>> /\ UNCHANGED <<live, parent, flags, ws, wtop, all_chnls>>
  BY CommandTree DEF do_thread, threadVars, chanVars
<1>2. PICK x \in named, avoid \in BOOLEAN :
        pb' = [pb EXCEPT ![x] = Front(@) \o
                 <<Bot(reg_t[cur], avoid), Mark("BODY"), Mark("EOT"), Mark("EOF")>>]
  BY DEF do_thread
<1>. DEFINE t == <<Bot(reg_t[cur], avoid), Mark("BODY"), Mark("EOT"), Mark("EOF")>>
<1>3. x \in live /\ x \in Thread /\ live \subseteq Thread /\ pb \in [Thread -> Seq(Item)]
  BY DEF TreeInv, Names, TypeInv, TypeOK
<1>4. /\ t \in Seq(Item) /\ Len(t) = 4
      /\ \A i \in 1..4 : t[i].type \in {"BOT", "BODY", "EOT", "EOF"}
  <2>1. reg_t[cur] \in Nat  BY <1>1, CurReady DEF TypeInv, TypeOK
  <2>2. Bot(reg_t[cur], avoid) \in Item  BY <2>1 DEF Bot, Item
  <2>3. t \in Seq(Item) /\ Len(t) = 4  BY <2>2, MarkItem
  <2>4. /\ t[1].type = "BOT" /\ t[2].type = "BODY" /\ t[3].type = "EOT" /\ t[4].type = "EOF"
    BY DEF Bot, Mark
  <2>5. \A i \in 1..4 : i = 1 \/ i = 2 \/ i = 3 \/ i = 4  OBVIOUS
  <2>. HIDE DEF t
  <2>. QED  BY <2>3, <2>4, <2>5
<1>5. /\ \A h \in live \ {x} : pb'[h] = pb[h]
      /\ pb'[x] = Front(pb[x]) \o t
  BY <1>2, <1>3
<1>. HIDE DEF t
<1>. DEFINE s == pb[x]
<1>6. s \in Seq(Item) /\ WellFormed(s)  BY <1>3, TopOf
<1>. HIDE DEF s
<1>7. pb'[x] = Front(s) \o t  BY <1>5 DEF s
<1>8. /\ \A e \in ToSet(s) : e.type # "EOF" => e \in ToSet(pb'[x])
      /\ \A e \in ToSet(pb'[x]) : e \in ToSet(s) \/ e.type \notin {"EWAIT", "EALT"}
  BY <1>4, <1>6, <1>7, AddItems
<1>9. \A e : e.type \in Busy => (e \in ToSet(pb'[x]) <=> e \in ToSet(pb[x]))
  BY <1>8 DEF s, Busy
<1>10. Links(live)  BY <1>1 DEF Links
<1>. QED  BY <1>1, <1>3, <1>5, <1>9, <1>10, OneQuiet

LEMMA CreateDuty ==
  ASSUME TypeInv, TypeInv', TreeInv, TreeInv', DutyInv,
         NEW new \in Thread \ live, NEW p \in live, NEW fs, NEW stack, NEW loops,
         create_thread(new, p, fs, stack, loops), UNCHANGED <<ws, wtop, all_chnls>>,
         \A e \in ToSet(stack) : e.type \notin Busy
  PROVE  DutyInv'
<1>1. /\ live \subseteq Thread /\ parent \in [Thread -> Thread \cup {NoThread}]
      /\ flags \in [Thread -> SUBSET Flag] /\ pb \in [Thread -> Seq(Item)]
  BY DEF TypeInv, TypeOK
<1>2. /\ live' = live \cup {new}
      /\ \A h \in live : pb'[h] = pb[h] /\ flags'[h] = flags[h] /\ parent'[h] = parent[h]
      /\ pb'[new] = stack
  BY <1>1 DEF create_thread
<1>3. Links(live) /\ live \subseteq live'  BY <1>2 DEF Links
<1>4. \A h \in live : \A e : e.type \in Busy => (e \in ToSet(pb'[h]) <=> e \in ToSet(pb[h]))
  BY <1>2
<1>5. \A h \in live' \ live : \A e \in ToSet(pb'[h]) : e.type \notin Busy
  BY <1>2
<1>. QED  BY <1>3, <1>4, <1>5, DutyQuiet

LEMMA GroupDuty ==
  ASSUME TypeInv, TypeInv', TreeInv, TreeInv', DutyInv, do_defthread \/ do_lbrace \/ do_lbracket
  PROVE  DutyInv'
<1>1. rtl # <<>>  BY CommandTree DEF do_defthread, do_lbrace, do_lbracket
<1>2. PICK x \in live : x = cur  BY <1>1, CurReady
<1>3. CASE do_defthread
  <2>1. PICK p \in {cur} \cup named, new \in Thread \ live :
          create_thread(new, p, {}, <<Mark("EOF")>>, 0)
    BY <1>3 DEF do_defthread
  <2>2. p \in live /\ UNCHANGED <<ws, wtop, all_chnls>>
    BY <1>2, <1>3, <2>1 DEF TreeInv, Names, do_defthread, chanVars
  <2>. DEFINE stack == <<Mark("EOF")>>
  <2>3. \A e \in ToSet(stack) : e.type \notin Busy  BY DEF ToSet, Mark, Busy
  <2>4. create_thread(new, p, {}, stack, 0)  BY <2>1
  <2>. HIDE DEF stack
  <2>. QED  BY <2>2, <2>3, <2>4, CreateDuty
<1>4. CASE do_lbrace \/ do_lbracket
  <2>1. PICK pf \in {{}, {"PFLAG"}} : group(pf)  BY <1>4 DEF do_lbrace, do_lbracket
  <2>. DEFINE stack == <<Mark("BODY"), Mark("EOB"), Mark("EOF")>>
  <2>2. PICK new \in Thread \ live, amp \in BOOLEAN :
          /\ create_thread(new, x, IF amp THEN pf ELSE pf \cup {"SFLAG"}, stack,
                           IF amp THEN 0 ELSE loop_count[x])
          /\ UNCHANGED <<ws, wtop, all_chnls>>
    BY <1>2, <2>1 DEF group, chanVars
  <2>3. \A e \in ToSet(stack) : e.type \notin Busy
    <3>1. \A i \in 1..3 : i = 1 \/ i = 2 \/ i = 3  OBVIOUS
    <3>2. /\ stack[1].type = "BODY" /\ stack[2].type = "EOB" /\ stack[3].type = "EOF"
          /\ DOMAIN stack = 1..3
      BY DEF Mark
    <3>. HIDE DEF stack
    <3>. QED  BY <3>1, <3>2 DEF ToSet, Busy
  <2>. HIDE DEF stack
  <2>. DEFINE fs == IF amp THEN pf ELSE pf \cup {"SFLAG"}
              loops == IF amp THEN 0 ELSE loop_count[x]
  <2>4. create_thread(new, x, fs, stack, loops)  BY <2>2
  <2>. HIDE DEF fs, loops
  <2>. QED  BY <2>2, <2>3, <2>4, CreateDuty
<1>. QED  BY <1>3, <1>4

-----------------------------------------------------------------------------
(* Steps of the channels.                                                  *)
LEMMA AllPlaced ==
  ASSUME NEW S, IsFiniteSet(S), NEW order \in SetToSeqs(S)
  PROVE  /\ order \in Seq(S) /\ ToSet(order) = S /\ Len(order) = Cardinality(S)
         /\ DOMAIN order = 1..Len(order) /\ IsInjective(order)
<1>. DEFINE n == Cardinality(S)
<1>1. n \in Nat /\ order \in Seq(S)  BY FS_CardinalityType, OrderSeq
<1>2. order \in [1..n -> S] /\ \A i, j \in 1..n : i # j => order[i] # order[j]
  BY DEF SetToSeqs
<1>3. DOMAIN order = 1..n /\ Len(order) = n  BY <1>1, <1>2, LenProperties
<1>4. ASSUME NEW e \in S  PROVE e \in ToSet(order)
  <2>1. SUFFICES ASSUME e \notin ToSet(order)  PROVE FALSE  OBVIOUS
  <2>. DEFINE T == S \ {e}
              D == 1..n
  <2>2. IsFiniteSet(T) /\ Cardinality(T) = n - 1  BY FS_RemoveElement
  <2>3. IsFiniteSet(D) /\ Cardinality(D) = n  BY <1>1, FS_Interval
  <2>4. order \in [D -> T]  BY <1>2, <1>3, <2>1 DEF ToSet
  <2>5. Cardinality(T) < Cardinality(D)  BY <1>1, <2>2, <2>3
  <2>6. \A i, j \in D : i # j => order[i] # order[j]  BY <1>2
  <2>. HIDE DEF T, D
  <2>. QED  BY <2>2, <2>3, <2>4, <2>5, <2>6, FS_PigeonHole
<1>5. ToSet(order) = S  BY <1>1, <1>4, ElementsInSet
<1>6. IsInjective(order)  BY <1>2, <1>3 DEF IsInjective
<1>. QED  BY <1>1, <1>3, <1>5, <1>6

LEMMA NamesKnown ==
  ASSUME TypeOK, NEW cs \in Seq(Channel), get_channel_name(cs)
  PROVE  ToSet(all_chnls') = ToSet(all_chnls) \cup ToSet(cs)
<1>. DEFINE S == ToSet(cs) \ ToSet(all_chnls)
<1>1. PICK new \in SetToSeqs(S) : all_chnls' = new \o all_chnls
  BY DEF get_channel_name
<1>2. S \subseteq Channel /\ IsFiniteSet(S)
  BY ElementsInSet, ChannelAssumption, FS_Subset
<1>. HIDE DEF S
<1>3. new \in Seq(S) /\ ToSet(new) = S  BY <1>1, <1>2, AllPlaced
<1>4. new \in Seq(Channel) /\ all_chnls \in Seq(Channel)
  BY <1>2, <1>3, SeqMonotonic DEF TypeOK
<1>5. ToSet(new \o all_chnls) = ToSet(new) \cup ToSet(all_chnls)
  BY <1>4, ConcatReady
<1>. QED  BY <1>1, <1>3, <1>5 DEF S

LEMMA ServingKept ==
  ASSUME NEW c, NEW w, Serving(c, w),
         \A h \in live : \A e \in ToSet(pb[h]) : e.type \in Busy =>
           h \in live' /\ e \in ToSet(pb'[h])
  PROVE  Serving(c, w)'
<1>1. PICK h \in live : \E e \in ToSet(pb[h]) : Serves(e, c, w)  BY DEF Serving
<1>2. PICK e \in ToSet(pb[h]) : Serves(e, c, w)  BY <1>1
<1>3. e.type \in Busy  BY <1>2 DEF Serves, Busy
<1>4. h \in live' /\ e \in ToSet(pb'[h])  BY <1>3
<1>. QED  BY <1>2, <1>4 DEF Serving

LEMMA PopServing ==
  ASSUME TypeInv, TreeInv, NEW x \in live, Pop(x), live' = live, NEW c, NEW w, Serving(c, w)
  PROVE  Serving(c, w)' \/ Serves(Head(pb[x]), c, w)
<1>1. /\ \A h \in live \ {x} : pb'[h] = pb[h]
      /\ ToSet(pb[x]) = {Head(pb[x])} \cup ToSet(pb'[x])
  BY PopTokens
<1>2. PICK h \in live : \E e \in ToSet(pb[h]) : Serves(e, c, w)  BY DEF Serving
<1>3. PICK e \in ToSet(pb[h]) : Serves(e, c, w)  BY <1>2
<1>4. CASE h = x /\ e = Head(pb[x])  BY <1>3, <1>4
<1>5. CASE ~(h = x /\ e = Head(pb[x]))
  <2>1. e \in ToSet(pb'[h])
    <3>1. CASE h = x  BY <1>1, <1>3, <1>5, <3>1
    <3>2. CASE h # x  BY <1>1, <1>3, <3>2
    <3>. QED  BY <3>1, <3>2
  <2>. QED  BY <1>3, <2>1 DEF Serving
<1>. QED  BY <1>4, <1>5

LEMMA TopToken ==
  ASSUME TypeInv, TreeInv, NEW h \in live
  PROVE  /\ Head(pb[h]) \in ToSet(pb[h])
         /\ \A c, w : Serves(Head(pb[h]), c, w) => Serving(c, w)
<1>1. Head(pb[h]) \in ToSet(pb[h])
  <2>1. pb[h] \in Seq(Item) /\ pb[h] # <<>>  BY TopOf
  <2>. QED  BY <2>1, RestItems
<1>. QED  BY <1>1 DEF Serving

LEMMA StatusPair ==
  ASSUME TypeInv, NEW c \in Channel, NEW w \in Thread, NEW st, ws' = [ws EXCEPT ![c][w] = st]
  PROVE  /\ ws'[c][w] = st
         /\ \A d \in Channel, v \in Thread : ~(d = c /\ v = w) => ws'[d][v] = ws[d][v]
BY DEF TypeInv, TypeOK

(* What do_signal does to a WaitStatus; a woken one has its EWAIT or EALT  *)
(* on top of the stack of the thread it wakes.                             *)
LEMMA SendStatus ==
  ASSUME TypeInv, TreeInv, NEW c \in Channel, NEW time, NEW obj, NEW gone,
         Send(c, time, obj, gone), NEW d \in Channel, NEW v \in Thread
  PROVE  /\ v \in gone => ws'[d][v] = NoStatus
         /\ v \notin gone =>
              /\ ws'[d][v].status = IF WokenBy(c, d, v) THEN "Executing" ELSE ws[d][v].status
              /\ ~WokenBy(c, d, v) => ws'[d][v].sleep_thd = ws[d][v].sleep_thd
         /\ WokenBy(c, d, v) =>
              \E h \in live \ Ready : /\ h = ws[c][v].sleep_thd /\ Top(h) \in Busy
                                      /\ Serves(Head(pb[h]), d, v)
<1>1. /\ v \in gone => ws'[d][v] = NoStatus
      /\ v \notin gone =>
           /\ ws'[d][v].status = IF WokenBy(c, d, v) THEN "Executing" ELSE ws[d][v].status
           /\ ~WokenBy(c, d, v) => ws'[d][v].sleep_thd = ws[d][v].sleep_thd
  BY DEF Send
<1>2. ASSUME WokenBy(c, d, v)
      PROVE  \E h \in live \ Ready : /\ h = ws[c][v].sleep_thd /\ Top(h) \in Busy
                                     /\ Serves(Head(pb[h]), d, v)
  <2>1. IsBlocked(c, v)  BY <1>2 DEF WokenBy
  <2>2. PICK h \in live \ Ready :
          /\ h = ws[c][v].sleep_thd /\ Refers(pb[h][1], c, v, ws[c][v].status)
          /\ Head(pb[h]) = pb[h][1] /\ Top(h) \in {"EWAIT", "EALT"}
    BY <2>1, SleeperOf
  <2>3. Serves(Head(pb[h]), d, v)  BY <1>2, <2>2 DEF WokenBy, Refers, Serves
  <2>. QED  BY <2>2, <2>3 DEF Busy
<1>. QED  BY <1>1, <1>2

LEMMA SignalDuty ==
  ASSUME TypeInv, TypeInv', TreeInv, TreeInv', DutyInv, do_signal
  PROVE  DutyInv'
<1>1. PICK c \in Channel, obj \in Loaded : Send(c, reg_t[cur], obj, {})
  BY DEF do_signal
<1>2. UNCHANGED <<live, parent, flags, pb, wtop>>
  BY DEF do_signal, threadVars, stackVars
<1>3. Links(live)  BY <1>2 DEF Links
<1>4. ToSet(all_chnls) \subseteq ToSet(all_chnls')
  <2>1. <<c>> \in Seq(Channel) /\ get_channel_name(<<c>>)  BY <1>1 DEF Send
  <2>. QED  BY <2>1, NamesKnown DEF TypeInv
<1>5. ASSUME NEW d \in Channel, NEW v \in Thread
      PROVE  /\ Executing(d, v)' => Serving(d, v)'
             /\ IsBlocked(d, v)' => IsBlocked(d, v)
             /\ HasStatus(d, v)' <=> HasStatus(d, v)
  <2>1. /\ ws'[d][v].status = IF WokenBy(c, d, v) THEN "Executing" ELSE ws[d][v].status
        /\ WokenBy(c, d, v) => \E h \in live \ Ready : Serves(Head(pb[h]), d, v)
    BY <1>1, SendStatus
  <2>2. WokenBy(c, d, v) => Serving(d, v)  BY <2>1, TopToken
  <2>3. ASSUME Executing(d, v)'  PROVE Serving(d, v)'
    <3>1. Serving(d, v)  BY <2>1, <2>2, <2>3 DEF Executing, DutyInv, Finished
    <3>. QED  BY <1>2, <3>1, ServingKept
  <2>4. IsBlocked(d, v)' => IsBlocked(d, v)  BY <2>1 DEF IsBlocked
  <2>. QED  BY <1>2, <2>3, <2>4 DEF HasStatus
<1>. QED  BY <1>2, <1>3, <1>4, <1>5, DutyStep

LEMMA FlagLinks ==
  ASSUME TypeInv, NEW w \in Thread, flags' = [flags EXCEPT ![w] = @ \cup {"WAITEX"}],
         parent' = parent
  PROVE  Links(live)
BY DEF TypeInv, TypeOK, Links

(* A new wait or alt of the current thread.                                *)
LEMMA NewDuty ==
  ASSUME TypeInv, TypeInv', TreeInv, TreeInv', DutyInv, rtl # <<>>,
         NEW w \in Thread, WaitsAs(cur, w), NEW e \in Item, e.type \in Busy, e.wait_thd = w,
         Push(<<e>>), flags' = [flags EXCEPT ![w] = @ \cup {"WAITEX"}],
         UNCHANGED <<live, parent>>,
         \A c \in Channel : Serves(e, c, w) => HasStatus(c, w)',
         \A c \in Channel, v \in Thread :
           /\ ~Serves(e, c, v) => ws'[c][v].status = ws[c][v].status
           /\ HasStatus(c, v) => HasStatus(c, v)'
           /\ HasStatus(c, v)' => HasStatus(c, v) \/ c \in ToSet(all_chnls'),
         ToSet(all_chnls) \subseteq ToSet(all_chnls')
  PROVE  DutyInv'
<1>1. Links(live) /\ live \subseteq live'  BY FlagLinks
<1>2. PICK x \in live : x = cur  BY CurReady
<1>3. /\ \A h \in live \ {x} : pb'[h] = pb[h]
      /\ ToSet(pb'[x]) = {e} \cup ToSet(pb[x])
  BY <1>2, PushTokens
<1>4. WaitsAs(x, w)'
  <2>1. \A k \in live : parent[k] \in live \cup {NoThread}  BY DEF TreeInv, Shape
  <2>. QED  BY <1>1, <1>2, <2>1, WaitsAsKept
<1>5. GuardsKnown(e)'
  BY DEF GuardsKnown, Serves
<1>6. \A h \in live' : \A i \in ToSet(pb'[h]) : i.type \in Busy =>
        \/ h \in live /\ i \in ToSet(pb[h])
        \/ WaitsAs(h, i.wait_thd)' /\ GuardsKnown(i)'
  <2>1. ASSUME NEW h \in live, NEW i \in ToSet(pb'[h])
        PROVE  i \in ToSet(pb[h]) \/ (h = x /\ i = e)
    <3>1. CASE h = x  BY <1>3, <2>1, <3>1
    <3>2. CASE h # x  BY <1>3, <2>1, <3>2
    <3>. QED  BY <3>1, <3>2
  <2>. QED  BY <1>4, <1>5, <2>1
<1>7. ASSUME NEW c \in Channel, NEW v \in Thread
      PROVE  /\ Executing(c, v)' => Serving(c, v)'
             /\ IsBlocked(c, v)' => IsBlocked(c, v) \/ HasStatus(c, v)'
  <2>1. CASE Serves(e, c, v)
    <3>1. e \in ToSet(pb'[x]) /\ x \in live'  BY <1>2, <1>3
    <3>2. v = w  BY <2>1 DEF Serves
    <3>. QED  BY <2>1, <3>1, <3>2 DEF Serving
  <2>2. CASE ~Serves(e, c, v)
    <3>1. ws'[c][v].status = ws[c][v].status  BY <2>2
    <3>2. ASSUME Serving(c, v)  PROVE Serving(c, v)'
      <4>1. \A h \in live : \A i \in ToSet(pb[h]) : h \in live' /\ i \in ToSet(pb'[h])
        <5>1. ASSUME NEW h \in live, NEW i \in ToSet(pb[h])  PROVE i \in ToSet(pb'[h])
          <6>1. CASE h = x  BY <1>3, <5>1, <6>1
          <6>2. CASE h # x  BY <1>3, <5>1, <6>2
          <6>. QED  BY <6>1, <6>2
        <5>. QED  BY <5>1
      <4>. QED  BY <3>2, <4>1, ServingKept
    <3>. QED  BY <3>1, <3>2 DEF Executing, IsBlocked, DutyInv, Finished
  <2>. QED  BY <2>1, <2>2
<1>. QED  BY <1>1, <1>6, <1>7, DutyStep

LEMMA WaitDuty ==
  ASSUME TypeInv, TypeInv', TreeInv, TreeInv', DutyInv, do_wait
  PROVE  DutyInv'
<1>1. rtl # <<>>  BY CommandTree DEF do_wait
<1>2. CASE Halt("crash")  BY <1>2, HaltDuty
<1>3. CASE ~Halt("crash")
  <2>1. PICK c \in Channel, w \in Thread, b \in Bind :
          /\ WaitsAs(cur, w) /\ get_channel_name(<<c>>)
          /\ flags' = [flags EXCEPT ![w] = @ \cup {"WAITEX"}]
          /\ wtop' = IF HasStatus(c, w) THEN wtop ELSE [wtop EXCEPT ![c] = <<w>> \o @]
          /\ Push(<<Ewait(c, w, b)>>)
          /\ \/ ws' = [ws EXCEPT ![c][w] = [@ EXCEPT !.status = "Executing"]]
             \/ ws' = [ws EXCEPT ![c][w] = [@ EXCEPT !.status = "WaitBlocked",
                                                      !.sleep_thd = cur]]
          /\ UNCHANGED <<live, parent>>
    BY <1>3, ZenonT(60) DEF do_wait
  <2>. DEFINE e == Ewait(c, w, b)
  <2>2. e \in Item /\ e.type = "EWAIT" /\ e.chnl = c /\ e.wait_thd = w
    BY ProgramAssumption DEF Ewait, Item
  <2>. HIDE DEF e
  <2>3. Push(<<e>>)  BY <2>1 DEF e
  <2>4. \A d \in Channel, v \in Thread : Serves(e, d, v) <=> d = c /\ v = w
    BY <2>2 DEF Serves
  <2>5. ToSet(all_chnls') = ToSet(all_chnls) \cup {c}
    <3>1. <<c>> \in Seq(Channel) /\ ToSet(<<c>>) = {c}  BY DEF ToSet
    <3>. QED  BY <2>1, <3>1, NamesKnown DEF TypeInv
  <2>6. ASSUME NEW d \in Channel, NEW v \in Thread
        PROVE  HasStatus(d, v)' <=> HasStatus(d, v) \/ (d = c /\ v = w)
    <3>1. CASE HasStatus(c, w)  BY <2>1, <3>1 DEF HasStatus
    <3>2. CASE ~HasStatus(c, w)
      <4>1. wtop \in [Channel -> Seq(Thread)]  BY DEF TypeInv, TypeOK
      <4>2. wtop'[d] = IF d = c THEN <<w>> \o wtop[c] ELSE wtop[d]  BY <2>1, <3>2, <4>1
      <4>3. ToSet(<<w>> \o wtop[c]) = {w} \cup ToSet(wtop[c])  BY <4>1, ConsElements
      <4>. QED  BY <4>2, <4>3 DEF HasStatus
    <3>. QED  BY <3>1, <3>2
  <2>7. ASSUME NEW d \in Channel, NEW v \in Thread, ~(d = c /\ v = w)
        PROVE  ws'[d][v].status = ws[d][v].status
    <3>1. PICK st : ws' = [ws EXCEPT ![c][w] = st]  BY <2>1
    <3>2. ws'[d][v] = ws[d][v]  BY <2>7, <3>1, StatusPair
    <3>. QED  BY <3>2
  <2>8. \A d \in Channel : Serves(e, d, w) => HasStatus(d, w)'  BY <2>4, <2>6
  <2>9. \A d \in Channel, v \in Thread :
          /\ ~Serves(e, d, v) => ws'[d][v].status = ws[d][v].status
          /\ HasStatus(d, v) => HasStatus(d, v)'
          /\ HasStatus(d, v)' => HasStatus(d, v) \/ d \in ToSet(all_chnls')
    BY <2>4, <2>5, <2>6, <2>7
  <2>10. ToSet(all_chnls) \subseteq ToSet(all_chnls')  BY <2>5
  <2>11. e.type \in Busy  BY <2>2 DEF Busy
  <2>. QED  BY <1>1, <2>1, <2>2, <2>3, <2>8, <2>9, <2>10, <2>11, NewDuty
<1>. QED  BY <1>2, <1>3

LEMMA AltDuty ==
  ASSUME TypeInv, TypeInv', TreeInv, TreeInv', DutyInv, do_alt
  PROVE  DutyInv'
<1>1. rtl # <<>>  BY CommandTree DEF do_alt
<1>2. CASE Halt("crash")  BY <1>2, HaltDuty
<1>3. CASE ~Halt("crash")
  <2>1. PICK gs \in AltGuards, w \in Thread, d \in Default :
          /\ WaitsAs(cur, w) /\ get_channel_name([i \in DOMAIN gs |-> gs[i].chnl])
          /\ flags' = [flags EXCEPT ![w] = @ \cup {"WAITEX"}]
          /\ wtop' = [c \in Channel |->
                       IF c \in ToSet([i \in DOMAIN gs |-> gs[i].chnl]) /\ ~HasStatus(c, w)
                       THEN <<w>> \o wtop[c] ELSE wtop[c]]
          /\ Push(<<Ealt(gs, w, d)>>)
          /\ \/ ws' = SetGuards(gs, w, "Executing", NoThread)
             \/ Block(gs, w)
          /\ UNCHANGED <<live, parent>>
    BY <1>3, ZenonT(30) DEF do_alt
  <2>. DEFINE e == Ealt(gs, w, d)
              chnls == [i \in DOMAIN gs |-> gs[i].chnl]
  <2>2. /\ e \in Item /\ e.type = "EALT" /\ e.guards = gs /\ e.wait_thd = w
    <3>1. gs \in Seq([chnl : Channel \cup {Freed}, bind : BOOLEAN]) /\ d \in BOOLEAN
      BY GuardChannelSeq, ProgramAssumption
    <3>. QED  BY <3>1 DEF Ealt, Item
  <2>. HIDE DEF e
  <2>3. Push(<<e>>)  BY <2>1 DEF e
  <2>4. chnls \in Seq(Channel) /\ ToSet(chnls) = GuardChannels(e)
    <3>1. chnls \in Seq(Channel)  BY GuardChannelSeq
    <3>2. ToSet(chnls) = {gs[i].chnl : i \in DOMAIN gs}  BY DEF ToSet
    <3>. QED  BY <2>2, <3>1, <3>2 DEF GuardChannels
  <2>5. get_channel_name(chnls)
        /\ wtop' = [c \in Channel |-> IF c \in ToSet(chnls) /\ ~HasStatus(c, w)
                                      THEN <<w>> \o wtop[c] ELSE wtop[c]]
    BY <2>1
  <2>. HIDE DEF chnls
  <2>6. \A c \in Channel, v \in Thread : Serves(e, c, v) <=> c \in ToSet(chnls) /\ v = w
    BY <2>2, <2>4 DEF Serves
  <2>7. ToSet(all_chnls') = ToSet(all_chnls) \cup ToSet(chnls)
    BY <2>4, <2>5, NamesKnown DEF TypeInv
  <2>8. ASSUME NEW c \in Channel, NEW v \in Thread
        PROVE  HasStatus(c, v)' <=> HasStatus(c, v) \/ (c \in ToSet(chnls) /\ v = w)
    <3>1. CASE c \in ToSet(chnls) /\ ~HasStatus(c, w)
      <4>1. wtop[c] \in Seq(Thread)  BY DEF TypeInv, TypeOK
      <4>2. wtop'[c] = <<w>> \o wtop[c]  BY <2>5, <3>1
      <4>3. ToSet(<<w>> \o wtop[c]) = {w} \cup ToSet(wtop[c])  BY <4>1, ConsElements
      <4>. QED  BY <3>1, <4>2, <4>3 DEF HasStatus
    <3>2. CASE ~(c \in ToSet(chnls) /\ ~HasStatus(c, w))
      <4>1. wtop'[c] = wtop[c]  BY <2>5, <3>2
      <4>. QED  BY <3>2, <4>1 DEF HasStatus
    <3>. QED  BY <3>1, <3>2
  <2>9. ASSUME NEW c \in Channel, NEW v \in Thread, ~(c \in ToSet(chnls) /\ v = w)
        PROVE  ws'[c][v].status = ws[c][v].status
    <3>1. PICK status, sleeper : ws' = SetGuards(gs, w, status, sleeper)  BY <2>1 DEF Block
    <3>2. c \in ToSet(chnls) <=> \E i \in DOMAIN gs : gs[i].chnl = c
      BY <2>2, <2>4 DEF GuardChannels
    <3>. QED  BY <2>9, <3>1, <3>2, GuardsEffect
  <2>10. \A c \in Channel : Serves(e, c, w) => HasStatus(c, w)'  BY <2>6, <2>8
  <2>11. \A c \in Channel, v \in Thread :
          /\ ~Serves(e, c, v) => ws'[c][v].status = ws[c][v].status
          /\ HasStatus(c, v) => HasStatus(c, v)'
          /\ HasStatus(c, v)' => HasStatus(c, v) \/ c \in ToSet(all_chnls')
    BY <2>6, <2>7, <2>8, <2>9
  <2>12. ToSet(all_chnls) \subseteq ToSet(all_chnls')  BY <2>7
  <2>13. e.type \in Busy  BY <2>2 DEF Busy
  <2>. QED  BY <1>1, <2>1, <2>2, <2>3, <2>10, <2>11, <2>12, <2>13, NewDuty
<1>. QED  BY <1>2, <1>3

(* A step that takes the top token of x and changes only the WaitStatus it *)
(* serves, which are not executing afterwards.                             *)
LEMMA TakeDuty ==
  ASSUME TypeInv, TypeInv', TreeInv, TreeInv', DutyInv, NEW x \in live, Pop(x),
         UNCHANGED <<live, parent, flags, wtop, all_chnls>>,
         \A c \in Channel, w \in Thread :
           /\ IsBlocked(c, w)' => IsBlocked(c, w)
           /\ Executing(c, w)' => Executing(c, w) /\ ~Serves(Head(pb[x]), c, w)
  PROVE  DutyInv'
<1>1. Links(live) /\ live \subseteq live'  BY DEF Links
<1>2. /\ \A h \in live \ {x} : pb'[h] = pb[h]
      /\ ToSet(pb[x]) = {Head(pb[x])} \cup ToSet(pb'[x])
  BY PopTokens
<1>3. ASSUME NEW h \in live', NEW e \in ToSet(pb'[h])  PROVE h \in live /\ e \in ToSet(pb[h])
  <2>1. CASE h = x  BY <1>2, <1>3, <2>1
  <2>2. CASE h # x  BY <1>2, <1>3, <2>2
  <2>. QED  BY <2>1, <2>2
<1>4. ASSUME NEW c \in Channel, NEW w \in Thread
      PROVE  /\ Executing(c, w)' => Serving(c, w)'
             /\ IsBlocked(c, w)' => IsBlocked(c, w)
             /\ HasStatus(c, w)' <=> HasStatus(c, w)
  <2>1. ASSUME Executing(c, w)'  PROVE Serving(c, w)'
    <3>1. Executing(c, w) /\ ~Serves(Head(pb[x]), c, w)  BY <2>1
    <3>2. Serving(c, w)  BY <3>1 DEF DutyInv, Finished
    <3>. QED  BY <3>1, <3>2, PopServing
  <2>. QED  BY <2>1 DEF HasStatus
<1>. QED  BY <1>1, <1>3, <1>4, DutyStep

LEMMA EndWaitDuty ==
  ASSUME TypeInv, TypeInv', TreeInv, TreeInv', DutyInv, end_wait
  PROVE  DutyInv'
<1>1. rtl # <<>> /\ Top(cur) = "EWAIT"  BY TokenTree DEF end_wait
<1>2. CASE \E how \in {"error", "crash"} : Halt(how)  BY <1>2, HaltDuty
<1>3. CASE ~ \E how \in {"error", "crash"} : Halt(how)
  <2>0. PICK x \in live : x = cur  BY <1>1, CurReady
  <2>. DEFINE e == Head(pb[x])
  <2>2. e \in Item /\ e.type = "EWAIT"  BY <1>1, <2>0, TopOf
  <2>3. PICK c \in Channel, w \in Thread : c = e.chnl /\ w = e.wait_thd
    BY <2>2 DEF Item
  <2>1. /\ Receive(c, w, "Idle") /\ Pop(x)
        /\ UNCHANGED <<live, parent, flags, wtop, all_chnls>>
    BY <1>3, <2>0, <2>3 DEF end_wait, threadVars
  <2>4. ASSUME NEW d \in Channel, NEW v \in Thread
        PROVE  /\ IsBlocked(d, v)' => IsBlocked(d, v)
               /\ Executing(d, v)' => Executing(d, v) /\ ~Serves(e, d, v)
    <3>. DEFINE st == Received(ws[c][w], "Idle")
    <3>1. ws' = [ws EXCEPT ![c][w] = st]  BY <2>1 DEF Receive
    <3>2. st.status = "Idle"
      <4>1. ws[c][w] \in Status  BY <2>3, StatusTyped
      <4>. QED  BY <4>1 DEF Received, Status
    <3>3. Serves(e, d, v) <=> d = c /\ v = w  BY <2>2, <2>3 DEF Serves
    <3>. HIDE DEF st, e
    <3>4. CASE d = c /\ v = w
      <4>1. ws \in [Channel -> [Thread -> Status]]  BY DEF TypeInv, TypeOK
      <4>2. ws'[d][v] = st  BY <3>1, <3>4, <4>1
      <4>. QED  BY <3>2, <4>2 DEF IsBlocked, Executing
    <3>5. CASE ~(d = c /\ v = w)
      <4>1. ws'[d][v] = ws[d][v]  BY <2>3, <3>1, <3>5, StatusPair
      <4>. QED  BY <3>3, <3>5, <4>1 DEF IsBlocked, Executing
    <3>. QED  BY <3>4, <3>5
  <2>. QED  BY <2>1, <2>4, TakeDuty
<1>. QED  BY <1>2, <1>3

(* break and the end of a deadlock leave the alt on top of x.              *)
LEMMA LeaveDuty ==
  ASSUME TypeInv, TypeInv', TreeInv, TreeInv', DutyInv, NEW x \in live, Top(x) = "EALT",
         leave_alt(x), UNCHANGED <<live, parent, flags, wtop, all_chnls>>
  PROVE  DutyInv'
<1>. DEFINE e == Head(pb[x])
<1>1. e \in Item /\ e.type = "EALT"  BY TopOf
<1>2. Pop(x) /\ ws' = SetGuards(e.guards, e.wait_thd, "Idle", NoThread)  BY DEF leave_alt
<1>3. ASSUME NEW d \in Channel, NEW v \in Thread
      PROVE  /\ IsBlocked(d, v)' => IsBlocked(d, v)
             /\ Executing(d, v)' => Executing(d, v) /\ ~Serves(e, d, v)
  <2>. HIDE DEF e
  <2>1. IF v = e.wait_thd /\ \E i \in DOMAIN e.guards : e.guards[i].chnl = d
        THEN ws'[d][v].status = "Idle" ELSE ws'[d][v].status = ws[d][v].status
    BY <1>2, GuardsEffect
  <2>2. Serves(e, d, v) <=> v = e.wait_thd /\ \E i \in DOMAIN e.guards : e.guards[i].chnl = d
    BY <1>1 DEF Serves, GuardChannels
  <2>. QED  BY <2>1, <2>2 DEF IsBlocked, Executing
<1>. QED  BY <1>2, <1>3, TakeDuty

LEMMA BreakAltDuty ==
  ASSUME TypeInv, TypeInv', TreeInv, TreeInv', DutyInv, break_alt
  PROVE  DutyInv'
<1>1. /\ rtl # <<>> /\ Top(cur) = "EALT" /\ leave_alt(cur)
      /\ UNCHANGED <<live, parent, flags, wtop, all_chnls>>
  BY DEF break_alt, threadVars
<1>2. PICK x \in live : x = cur  BY <1>1, CurReady
<1>. QED  BY <1>1, <1>2, LeaveDuty

LEMMA DeadLockDuty ==
  ASSUME TypeInv, TypeInv', TreeInv, TreeInv', DutyInv, check_dead_lock
  PROVE  DutyInv'
<1>2. CASE Halt("error")  BY <1>2, HaltDuty
<1>3. CASE \E c \in Channel, w \in Thread :
             /\ FirstBlocked(c, w) /\ ws[c][w].status # "WaitBlocked"
             /\ leave_alt(ws[c][w].sleep_thd)
             /\ UNCHANGED <<threadVars, wtop, all_chnls>>
  <2>1. PICK c \in Channel, w \in Thread :
             /\ FirstBlocked(c, w) /\ ws[c][w].status # "WaitBlocked"
             /\ leave_alt(ws[c][w].sleep_thd)
             /\ UNCHANGED <<threadVars, wtop, all_chnls>>
    BY <1>3
  <2>2. IsBlocked(c, w) /\ ws[c][w].status = "AltBlocked"
    BY <2>1 DEF FirstBlocked, IsBlocked
  <2>3. PICK x \in live \ Ready :
             /\ x = ws[c][w].sleep_thd /\ Refers(pb[x][1], c, w, ws[c][w].status)
             /\ Head(pb[x]) = pb[x][1]
    BY <2>2, SleeperOf
  <2>4. Top(x) = "EALT"  BY <2>2, <2>3, TopOf DEF Refers
  <2>. QED  BY <2>1, <2>3, <2>4, LeaveDuty DEF threadVars
<1>4. CASE UNCHANGED <<threadVars, stackVars, chanVars>>
  <2>1. UNCHANGED <<live, parent, flags, pb, ws, wtop, all_chnls>>
    BY <1>4 DEF threadVars, stackVars, chanVars
  <2>2. Links(live)  BY <2>1 DEF Links
  <2>. QED  BY <2>1, <2>2, SameDuty
<1>. QED  BY <1>2, <1>3, <1>4 DEF check_dead_lock

LEMMA EndAltDuty ==
  ASSUME TypeInv, TypeInv', TreeInv, TreeInv', DutyInv, end_alt
  PROVE  DutyInv'
<1>1. rtl # <<>> /\ Top(cur) = "EALT"  BY TokenTree DEF end_alt
<1>2. PICK x \in live : x = cur  BY <1>1, CurReady
<1>. DEFINE item == Head(pb[x])
            gs == item.guards
            w == item.wait_thd
<1>3. item \in Item /\ item.type = "EALT"  BY <1>1, <1>2, TopOf
<1>4. w \in Thread /\ gs \in Seq([chnl : Channel \cup {Freed}, bind : BOOLEAN])
  BY <1>3 DEF Item
<1>5. CASE \E how \in {"error", "crash"} : Halt(how)  BY <1>5, HaltDuty
<1>6. CASE /\ \A d \in Channel, v \in Thread : ws'[d][v].status = ws[d][v].status
           /\ Push(<<Mark("BODY")>>)
           /\ UNCHANGED <<live, parent, flags, wtop, all_chnls>>
  <2>. DEFINE e == Mark("BODY")
  <2>1. e \in Item /\ e.type \notin Busy  BY MarkItem DEF Mark, Busy
  <2>2. Push(<<e>>)  BY <1>6
  <2>. HIDE DEF e
  <2>3. /\ \A h \in live \ {x} : pb'[h] = pb[h]
        /\ ToSet(pb'[x]) = {e} \cup ToSet(pb[x])
    BY <1>1, <1>2, <2>1, <2>2, PushTokens
  <2>4. ASSUME NEW h \in live, NEW i, i.type \in Busy
        PROVE  i \in ToSet(pb'[h]) <=> i \in ToSet(pb[h])
    <3>1. CASE h = x  BY <2>1, <2>3, <2>4, <3>1
    <3>2. CASE h # x  BY <2>3, <3>2
    <3>. QED  BY <3>1, <3>2
  <2>5. ASSUME NEW c \in Channel, NEW v \in Thread
        PROVE  /\ Executing(c, v)' => Serving(c, v)'
               /\ IsBlocked(c, v)' => IsBlocked(c, v)
               /\ HasStatus(c, v)' <=> HasStatus(c, v)
    <3>1. Serving(c, v) => Serving(c, v)'  BY <1>6, <2>4, ServingKept
    <3>. QED  BY <1>6, <3>1 DEF Executing, IsBlocked, HasStatus, DutyInv, Finished
  <2>6. Links(live) /\ live \subseteq live' /\ ToSet(all_chnls) \subseteq ToSet(all_chnls')
    BY <1>6 DEF Links
  <2>7. \A h \in live' : \A i \in ToSet(pb'[h]) : i.type \in Busy =>
          h \in live /\ i \in ToSet(pb[h])
    BY <1>6, <2>4
  <2>. QED  BY <2>5, <2>6, <2>7, DutyStep
<1>7. ASSUME NEW i \in DOMAIN gs, Freed \notin GuardChannels(item),
             Receive(gs[i].chnl, w, ws[gs[i].chnl][w].status)
      PROVE  \A d \in Channel, v \in Thread : ws'[d][v].status = ws[d][v].status
  <2>1. PICK c \in Channel : c = gs[i].chnl
    <3>1. i \in 1..Len(gs)  BY <1>4, LenProperties
    <3>2. gs[i] \in [chnl : Channel \cup {Freed}, bind : BOOLEAN]
      BY <1>4, <3>1, ElementOfSeq
    <3>3. gs[i].chnl \in Channel \cup {Freed}  BY <3>2
    <3>. QED  BY <1>7, <3>3 DEF GuardChannels
  <2>2. PICK v \in Thread : v = w  BY <1>4
  <2>. DEFINE st == Received(ws[c][v], ws[c][v].status)
  <2>3. ws' = [ws EXCEPT ![c][v] = st]  BY <1>7, <2>1, <2>2 DEF Receive
  <2>4. st.status = ws[c][v].status
    <3>1. ws[c][v] \in Status  BY StatusTyped
    <3>. QED  BY <3>1 DEF Received, Status
  <2>. HIDE DEF st
  <2>. QED  BY <2>3, <2>4, StatusPair
<1>8. CASE /\ Block(gs, w)
           /\ UNCHANGED <<live, parent, flags, pb, wtop, all_chnls>>
  <2>1. ASSUME NEW d \in Channel, NEW v \in Thread
        PROVE  /\ Executing(d, v)' => Executing(d, v)
               /\ IsBlocked(d, v)' => IsBlocked(d, v) \/ HasStatus(d, v)'
    <3>1. ws' = SetGuards(gs, w, "AltBlocked", cur)  BY <1>8 DEF Block
    <3>2. IF v = w /\ \E i \in DOMAIN gs : gs[i].chnl = d
          THEN ws'[d][v].status = "AltBlocked" ELSE ws'[d][v].status = ws[d][v].status
      <4>. HIDE DEF item, gs, w
      <4>. QED  BY <3>1, GuardsEffect
    <3>3. ASSUME v = w, \E i \in DOMAIN gs : gs[i].chnl = d  PROVE HasStatus(d, v)'
      <4>1. d \in GuardChannels(item)  BY <3>3 DEF GuardChannels
      <4>2. GuardsKnown(item)  BY <1>2, TopToken DEF DutyInv, Registered
      <4>. QED  BY <1>3, <1>8, <3>3, <4>1, <4>2 DEF GuardsKnown, HasStatus
    <3>. QED  BY <3>2, <3>3 DEF Executing, IsBlocked
  <2>2. ASSUME NEW c \in Channel, NEW v \in Thread
        PROVE  /\ Executing(c, v)' => Serving(c, v)'
               /\ IsBlocked(c, v)' => IsBlocked(c, v) \/ HasStatus(c, v)'
               /\ HasStatus(c, v)' <=> HasStatus(c, v)
    <3>1. Serving(c, v) => Serving(c, v)'  BY <1>8, ServingKept
    <3>. QED  BY <1>8, <2>1, <3>1 DEF HasStatus, DutyInv, Finished
  <2>3. Links(live) /\ live \subseteq live' /\ ToSet(all_chnls) \subseteq ToSet(all_chnls')
    BY <1>8 DEF Links
  <2>4. \A h \in live' : \A e \in ToSet(pb'[h]) : h \in live /\ e \in ToSet(pb[h])
    BY <1>8
  <2>. QED  BY <2>2, <2>3, <2>4, DutyStep
<1>9. \/ \E how \in {"error", "crash"} : Halt(how)
      \/ /\ Freed \notin GuardChannels(item)
         /\ \E i \in DOMAIN gs : Receive(gs[i].chnl, w, ws[gs[i].chnl][w].status)
         /\ Push(<<Mark("BODY")>>)
         /\ UNCHANGED <<live, parent, flags, wtop, all_chnls>>
      \/ /\ Push(<<Mark("BODY")>>) /\ ws' = ws
         /\ UNCHANGED <<live, parent, flags, wtop, all_chnls>>
      \/ /\ Block(gs, w)
         /\ UNCHANGED <<live, parent, flags, pb, wtop, all_chnls>>
  BY <1>2 DEF end_alt, threadVars, stackVars, chanVars
<1>. HIDE DEF item, gs, w
<1>. QED  BY <1>5, <1>6, <1>7, <1>8, <1>9

LEMMA UnlinkRest ==
  ASSUME NEW S, NEW s \in Seq(S), NEW e
  PROVE  ToSet(s) \ {e} \subseteq ToSet(Unlink(s, e))
<1>1. CASE e \notin ToSet(s)  BY <1>1 DEF Unlink
<1>2. CASE e \in ToSet(s)
  <2>1. Len(s) \in Nat /\ DOMAIN s = 1..Len(s)  BY Places
  <2>2. PICK n \in 1..Len(s) : s[n] = e /\ Unlink(s, e) = RemoveAt(s, n)
    <3>. DEFINE n == CHOOSE i \in DOMAIN s : s[i] = e
    <3>1. n \in DOMAIN s /\ s[n] = e  BY <1>2 DEF ToSet
    <3>. QED  BY <1>2, <2>1, <3>1 DEF Unlink
  <2>. DEFINE a == SubSeq(s, 1, n - 1)
              b == SubSeq(s, n + 1, Len(s))
  <2>3. /\ a \in Seq(S) /\ Len(a) = n - 1 /\ \A i \in 1..(n-1) : a[i] = s[i]
    <3>1. 1 \in 1..(Len(s) + 1) /\ n - 1 \in 0..Len(s)  BY <2>1
    <3>. QED  BY <2>1, <3>1, SubSeqProperties
  <2>4. /\ b \in Seq(S) /\ Len(b) = Len(s) - n
        /\ \A i \in 1..(Len(s) - n) : b[i] = s[n + i]
    <3>1. PICK m \in Int : m = n + 1  BY <2>1
    <3>2. \A i \in m..Len(s) : s[i] \in S  BY <2>1, <3>1, ElementOfSeq
    <3>. Len(s) \in Int  BY <2>1
    <3>3. PICK l \in Int : l = Len(s)  BY Zenon
    <3>4. /\ SubSeq(s, m, l) \in Seq(S)
          /\ Len(SubSeq(s, m, l)) = IF m <= l THEN l - m + 1 ELSE 0
          /\ \A i \in 1..(l - m + 1) : SubSeq(s, m, l)[i] = s[m + i - 1]
      <4>1. \A i \in m..l : s[i] \in S  BY <3>2, <3>3
      <4>. HIDE DEF a, b
      <4>. QED  BY <4>1, SubSeqProperties
    <3>5. b = SubSeq(s, m, l)  BY <3>1, <3>3
    <3>. HIDE DEF a, b
    <3>6. l - m + 1 = Len(s) - n /\ \A i \in 1..(Len(s) - n) : m + i - 1 = n + i
      BY <2>1, <3>1, <3>3
    <3>7. Len(b) = Len(s) - n
      <4>1. Len(b) = IF m <= l THEN l - m + 1 ELSE 0  BY <3>4, <3>5
      <4>2. n <= l /\ n \in Int  BY <2>1, <3>3
      <4>3. CASE m <= l  BY <3>1, <3>3, <4>1, <4>2, <4>3
      <4>4. CASE ~(m <= l)
        <5>1. n = l  BY <3>1, <4>2, <4>4
        <5>. QED  BY <3>3, <4>1, <4>4, <5>1
      <4>. QED  BY <4>3, <4>4
    <3>. QED  BY <3>4, <3>5, <3>6, <3>7
  <2>5. Unlink(s, e) = a \o b  BY <2>2 DEF RemoveAt
  <2>. HIDE DEF a, b
  <2>6. ToSet(a \o b) = ToSet(a) \cup ToSet(b)  BY <2>3, <2>4, ConcatReady
  <2>7. ASSUME NEW i \in 1..Len(s), i # n  PROVE s[i] \in ToSet(a) \cup ToSet(b)
    <3>1. CASE i < n
      <4>1. i \in 1..(n-1) /\ DOMAIN a = 1..(n-1)  BY <2>1, <2>3, <3>1, Places
      <4>. QED  BY <2>3, <4>1 DEF ToSet
    <3>2. CASE i > n
      <4>1. i - n \in 1..(Len(s) - n) /\ DOMAIN b = 1..(Len(s) - n) /\ n + (i - n) = i
        BY <2>1, <2>4, <3>2, Places
      <4>. QED  BY <2>4, <4>1 DEF ToSet
    <3>. QED  BY <2>1, <2>7, <3>1, <3>2
  <2>. QED  BY <2>1, <2>2, <2>5, <2>6, <2>7 DEF ToSet
<1>. QED  BY <1>1, <1>2

(* A token after its channel c has been destroyed.                         *)
Unguarded(e, c) ==
  IF e.type = "EALT"
  THEN [e EXCEPT !.guards = [k \in DOMAIN @ |->
         IF @[k].chnl = c THEN [@[k] EXCEPT !.chnl = Freed] ELSE @[k]]]
  ELSE e

LEMMA UnguardedFields ==
  ASSUME NEW e \in Item, NEW c \in Channel
  PROVE  /\ Unguarded(e, c).type = e.type
         /\ e.type \in Busy => Unguarded(e, c).wait_thd = e.wait_thd
         /\ e.type # "EALT" => Unguarded(e, c) = e
         /\ e.type = "EALT" => \A d \in Channel :
              d \in GuardChannels(Unguarded(e, c)) <=> d # c /\ d \in GuardChannels(e)
<1>1. CASE e.type = "EALT"
  <2>. DEFINE free(g) == IF g.chnl = c THEN [g EXCEPT !.chnl = Freed] ELSE g
              gs == [k \in DOMAIN e.guards |-> free(e.guards[k])]
              new == [e EXCEPT !.guards = gs]
  <2>1. e \in [type : {"EALT"}, guards : Seq([chnl : Channel \cup {Freed}, bind : BOOLEAN]),
               wait_thd : Thread, default : BOOLEAN]
    BY <1>1 DEF Item
  <2>2. new.type = "EALT" /\ new.wait_thd = e.wait_thd /\ new.guards = gs
    <3>. HIDE DEF gs
    <3>. QED  BY <2>1
  <2>3. Unguarded(e, c) = new  BY <1>1 DEF Unguarded
  <2>4. /\ DOMAIN gs = DOMAIN e.guards
        /\ \A k \in DOMAIN e.guards : gs[k].chnl = IF e.guards[k].chnl = c THEN Freed
                                                   ELSE e.guards[k].chnl
    <3>1. DOMAIN gs = DOMAIN e.guards  OBVIOUS
    <3>2. ASSUME NEW k \in DOMAIN e.guards
          PROVE  gs[k].chnl = IF e.guards[k].chnl = c THEN Freed ELSE e.guards[k].chnl
      <4>1. PICK g \in [chnl : Channel \cup {Freed}, bind : BOOLEAN] : g = e.guards[k]
        <5>1. e.guards \in Seq([chnl : Channel \cup {Freed}, bind : BOOLEAN])  BY <2>1
        <5>2. k \in 1..Len(e.guards)  BY <5>1, LenProperties
        <5>. QED  BY <5>1, <5>2, ElementOfSeq
      <4>2. gs[k] = free(g)  BY <4>1
      <4>3. free(g).chnl = IF g.chnl = c THEN Freed ELSE g.chnl  OBVIOUS
      <4>. HIDE DEF gs, free
      <4>. QED  BY <4>1, <4>2, <4>3
    <3>. QED  BY <3>1, <3>2
  <2>. HIDE DEF gs, new
  <2>5. ASSUME NEW d \in Channel
        PROVE  d \in GuardChannels(new) <=> d # c /\ d \in GuardChannels(e)
    <3>1. d # Freed  BY ChannelAssumption
    <3>2. d \in GuardChannels(new) <=> \E k \in DOMAIN e.guards : gs[k].chnl = d
      BY <2>2, <2>4 DEF GuardChannels
    <3>3. d \in GuardChannels(e) <=> \E k \in DOMAIN e.guards : e.guards[k].chnl = d
      BY DEF GuardChannels
    <3>. QED  BY <2>4, <3>1, <3>2, <3>3
  <2>. QED  BY <1>1, <2>2, <2>3, <2>5
<1>2. CASE e.type # "EALT"  BY <1>2 DEF Unguarded
<1>. QED  BY <1>1, <1>2

(* What undef(channel) does.                                               *)
LEMMA DestroyFacts ==
  ASSUME TypeInv, TypeInv', TreeInv, destroy_channel, ~Halt("error")
  PROVE  \E c \in Channel :
           /\ all_chnls' = Unlink(all_chnls, c)
           /\ \A w \in ToSet(wtop[c]) : ws[c][w].status = "Idle"
           /\ \A d \in Channel : /\ ws'[d] = IF d = c THEN [w \in Thread |-> NoStatus] ELSE ws[d]
                                 /\ ToSet(wtop'[d]) = IF d = c THEN {} ELSE ToSet(wtop[d])
           /\ \A h \in live : ToSet(pb'[h]) = {Unguarded(e, c) : e \in ToSet(pb[h])}
           /\ UNCHANGED <<rtl, live, parent, named, flags, nchild, undefs, del>>
           /\ UNCHANGED <<phase, total_blocked>>
<1>1. PICK c \in ToSet(all_chnls) :
        /\ \A w \in ToSet(wtop[c]) : ws[c][w].status = "Idle"
        /\ all_chnls' = Unlink(all_chnls, c)
        /\ wtop' = [wtop EXCEPT ![c] = <<>>]
        /\ ws' = [ws EXCEPT ![c] = [w \in Thread |-> NoStatus]]
        /\ pb' = [h \in Thread |-> [i \in DOMAIN pb[h] |->
                   IF pb[h][i].type = "EALT"
                   THEN [pb[h][i] EXCEPT !.guards = [k \in DOMAIN @ |->
                          IF @[k].chnl = c THEN [@[k] EXCEPT !.chnl = Freed] ELSE @[k]]]
                   ELSE pb[h][i]]]
        /\ UNCHANGED <<rtl, threadVars, ctlVars, total_blocked>>
  BY Zenon DEF destroy_channel
<1>2. c \in Channel  BY ElementsInSet DEF TypeInv, TypeOK
<1>3. ASSUME NEW d \in Channel
      PROVE  /\ ws'[d] = IF d = c THEN [w \in Thread |-> NoStatus] ELSE ws[d]
             /\ ToSet(wtop'[d]) = IF d = c THEN {} ELSE ToSet(wtop[d])
  <2>1. ws'[d] = IF d = c THEN [w \in Thread |-> NoStatus] ELSE ws[d]
    BY <1>1 DEF TypeInv, TypeOK
  <2>2. wtop'[d] = IF d = c THEN <<>> ELSE wtop[d]  BY <1>1 DEF TypeInv, TypeOK
  <2>3. ToSet(<<>>) = {}  BY DEF ToSet
  <2>. QED  BY <2>1, <2>2, <2>3
<1>4. pb' = [h \in Thread |-> [i \in DOMAIN pb[h] |-> Unguarded(pb[h][i], c)]]
  BY <1>1 DEF Unguarded
<1>5. ASSUME NEW h \in live  PROVE ToSet(pb'[h]) = {Unguarded(e, c) : e \in ToSet(pb[h])}
  <2>1. h \in Thread  BY DEF TypeInv, TypeOK
  <2>2. pb'[h] = [i \in DOMAIN pb[h] |-> Unguarded(pb[h][i], c)]  BY <1>4, <2>1
  <2>. QED  BY <2>2 DEF ToSet
<1>6. UNCHANGED <<rtl, live, parent, named, flags, nchild, undefs, del, phase, total_blocked>>
  BY <1>1 DEF threadVars, ctlVars
<1>. QED  BY <1>1, <1>2, <1>3, <1>5, <1>6

LEMMA DestroyDuty ==
  ASSUME TypeInv, TypeInv', TreeInv, TreeInv', DutyInv, destroy_channel
  PROVE  DutyInv'
<1>1. CASE Halt("error")  BY <1>1, HaltDuty
<1>2. CASE ~Halt("error")
  <2>1. PICK c \in Channel :
           /\ all_chnls' = Unlink(all_chnls, c)
           /\ \A d \in Channel : /\ ws'[d] = IF d = c THEN [w \in Thread |-> NoStatus] ELSE ws[d]
                                 /\ ToSet(wtop'[d]) = IF d = c THEN {} ELSE ToSet(wtop[d])
           /\ \A h \in live : ToSet(pb'[h]) = {Unguarded(e, c) : e \in ToSet(pb[h])}
           /\ UNCHANGED <<live, parent, flags>>
    BY <1>2, DestroyFacts
  <2>2. Links(live)  BY <2>1 DEF Links
  <2>3. \A k \in live : parent[k] \in live \cup {NoThread}  BY DEF TreeInv, Shape
  <2>4. ASSUME NEW h \in live, NEW e \in ToSet(pb[h])
        PROVE  /\ Unguarded(e, c).type = e.type
               /\ e.type \in Busy => Unguarded(e, c).wait_thd = e.wait_thd
               /\ e.type # "EALT" => Unguarded(e, c) = e
               /\ e.type = "EALT" => \A d \in Channel :
                    d \in GuardChannels(Unguarded(e, c)) <=> d # c /\ d \in GuardChannels(e)
    <3>1. pb[h] \in Seq(Item)  BY TopOf
    <3>2. e \in Item  BY <3>1, ElementsInSet
    <3>. QED  BY <3>2, UnguardedFields
  <2>5. Receivers'
    <3>1. ASSUME NEW h \in live, NEW i \in ToSet(pb'[h]), i.type \in Busy
          PROVE  WaitsAs(h, i.wait_thd)'
      <4>1. PICK e \in ToSet(pb[h]) : i = Unguarded(e, c)  BY <2>1
      <4>2. e.type \in Busy /\ i.wait_thd = e.wait_thd  BY <2>4, <3>1, <4>1
      <4>3. WaitsAs(h, e.wait_thd)  BY <4>2 DEF DutyInv, Receivers
      <4>. QED  BY <2>1, <2>2, <2>3, <4>2, <4>3, WaitsAsKept
    <3>. QED  BY <2>1, <3>1 DEF Receivers
  <2>6. ASSUME NEW d \in Channel, NEW w \in Thread
        PROVE  /\ ws'[d][w].status # "Idle" => d # c /\ ws'[d][w] = ws[d][w]
               /\ HasStatus(d, w)' <=> d # c /\ HasStatus(d, w)
    BY <2>1 DEF NoStatus, HasStatus
  <2>7. Finished'
    <3>1. ASSUME NEW d \in Channel, NEW w \in Thread, Executing(d, w)'
          PROVE  Serving(d, w)'
      <4>1. d # c /\ Executing(d, w)  BY <2>6, <3>1 DEF Executing
      <4>2. PICK h \in live : \E e \in ToSet(pb[h]) : Serves(e, d, w)
        BY <4>1 DEF DutyInv, Finished, Serving
      <4>3. PICK e \in ToSet(pb[h]) : Serves(e, d, w)  BY <4>2
      <4>4. Serves(Unguarded(e, c), d, w)  BY <2>4, <4>1, <4>3 DEF Serves, Busy
      <4>. QED  BY <2>1, <4>4 DEF Serving
    <3>. QED  BY <3>1 DEF Finished
  <2>8. ASSUME NEW d \in Channel, NEW w \in Thread
        PROVE  /\ IsBlocked(d, w)' => HasStatus(d, w)'
               /\ HasStatus(d, w)' => d \in ToSet(all_chnls')
    <3>1. IsBlocked(d, w)' => d # c /\ IsBlocked(d, w)  BY <2>6 DEF IsBlocked
    <3>2. all_chnls \in Seq(Channel)  BY DEF TypeInv, TypeOK
    <3>3. ToSet(all_chnls) \ {c} \subseteq ToSet(all_chnls')  BY <2>1, <3>2, UnlinkRest
    <3>. QED  BY <2>6, <3>1, <3>3 DEF DutyInv, Registered
  <2>9. ASSUME NEW h \in live, NEW i \in ToSet(pb'[h])  PROVE GuardsKnown(i)'
    <3>1. PICK e \in ToSet(pb[h]) : i = Unguarded(e, c)  BY <2>1
    <3>2. SUFFICES ASSUME i.type = "EALT", NEW d \in GuardChannels(i) \cap Channel
                   PROVE  HasStatus(d, i.wait_thd)'
      BY DEF GuardsKnown
    <3>3. /\ e.type = "EALT" /\ d # c /\ d \in GuardChannels(e) /\ i.wait_thd = e.wait_thd
      BY <2>4, <3>1, <3>2 DEF Busy
    <3>4. HasStatus(d, e.wait_thd)  BY <3>3 DEF DutyInv, Registered, GuardsKnown
    <3>5. e.wait_thd \in Thread
      <4>1. wtop[d] \in Seq(Thread)  BY DEF TypeInv, TypeOK
      <4>. QED  BY <3>4, <4>1, ElementsInSet DEF HasStatus
    <3>. QED  BY <2>6, <3>3, <3>4, <3>5
  <2>10. Registered'  BY <2>1, <2>8, <2>9 DEF Registered
  <2>. QED  BY <2>5, <2>7, <2>10 DEF DutyInv
<1>. QED  BY <1>1, <1>2

(* What delete_thread does to the channels.                                *)
LEMMA DetachFacts ==
  ASSUME TypeInv, TreeInv, delete_thread
  PROVE  \E gone \in SUBSET {del} :
           /\ \A d \in Channel, v \in Thread :
                /\ v \in gone => ws'[d][v] = NoStatus
                /\ Executing(d, v)' => \/ Executing(d, v)
                                       \/ \E h \in live : /\ Top(h) \in Busy
                                                       /\ Serves(Head(pb[h]), d, v)
                /\ IsBlocked(d, v)' => IsBlocked(d, v)
                /\ v \notin gone => (HasStatus(d, v)' <=> HasStatus(d, v))
                /\ HasStatus(d, v)' => HasStatus(d, v)
           /\ gone # {} => del \notin Ready
           /\ ToSet(all_chnls) \subseteq ToSet(all_chnls')
<1>. DEFINE gone == IF phase = "cleanup" \/ "WAITEX" \notin flags[del] THEN {} ELSE {del}
<1>1. del \in Thread  BY DEF TypeInv, TypeOK, delete_thread
<1>2. gone \in SUBSET {del}  BY <1>1
<1>3. /\ \/ /\ ws' = [c \in Channel |-> [w \in Thread |->
                       IF w \in gone THEN NoStatus ELSE ws[c][w]]]
            /\ UNCHANGED all_chnls
         \/ /\ eff[del] # NoChannel
            /\ \E obj \in Loaded : Send(eff[del], Later(reg_t[del], maxtime[del]), obj, gone)
      /\ wtop' = [c \in Channel |-> IF gone = {} THEN wtop[c] ELSE Unlink(wtop[c], del)]
      /\ del # NoThread
  BY DEF delete_thread
<1>. HIDE DEF gone
<1>4. ASSUME NEW d \in Channel, NEW v \in Thread
      PROVE  /\ v \notin gone => (HasStatus(d, v)' <=> HasStatus(d, v))
             /\ HasStatus(d, v)' => HasStatus(d, v)
  <2>1. wtop[d] \in Seq(Thread)  BY DEF TypeInv, TypeOK
  <2>2. /\ ToSet(Unlink(wtop[d], del)) \subseteq ToSet(wtop[d])
        /\ ToSet(wtop[d]) \ {del} \subseteq ToSet(Unlink(wtop[d], del))
    BY <2>1, UnlinkElements, UnlinkRest
  <2>3. wtop'[d] = IF gone = {} THEN wtop[d] ELSE Unlink(wtop[d], del)  BY <1>3
  <2>4. gone # {} => gone = {del}  BY <1>2
  <2>. QED  BY <2>2, <2>3, <2>4 DEF HasStatus
<1>5. del \notin Ready  BY <1>3 DEF TreeInv, Deleted
<1>6. CASE /\ ws' = [c \in Channel |-> [w \in Thread |->
                      IF w \in gone THEN NoStatus ELSE ws[c][w]]]
           /\ UNCHANGED all_chnls
  <2>1. ASSUME NEW d \in Channel, NEW v \in Thread
        PROVE  /\ v \in gone => ws'[d][v] = NoStatus
               /\ Executing(d, v)' => Executing(d, v)
               /\ IsBlocked(d, v)' => IsBlocked(d, v)
    BY <1>6 DEF Executing, IsBlocked, NoStatus
  <2>. QED  BY <1>2, <1>4, <1>5, <1>6, <2>1
<1>7. CASE /\ eff[del] # NoChannel
           /\ \E obj \in Loaded : Send(eff[del], Later(reg_t[del], maxtime[del]), obj, gone)
  <2>1. PICK c \in Channel : c = eff[del]  BY <1>1, <1>7 DEF TypeInv, TypeOK
  <2>2. PICK obj \in Loaded : Send(c, Later(reg_t[del], maxtime[del]), obj, gone)
    BY <1>7, <2>1
  <2>3. ToSet(all_chnls) \subseteq ToSet(all_chnls')
    <3>1. <<c>> \in Seq(Channel) /\ get_channel_name(<<c>>)  BY <2>2 DEF Send
    <3>. QED  BY <3>1, NamesKnown DEF TypeInv
  <2>4. ASSUME NEW d \in Channel, NEW v \in Thread
        PROVE  /\ v \in gone => ws'[d][v] = NoStatus
               /\ Executing(d, v)' => \/ Executing(d, v)
                                      \/ \E h \in live : /\ Top(h) \in Busy
                                                      /\ Serves(Head(pb[h]), d, v)
               /\ IsBlocked(d, v)' => IsBlocked(d, v)
    <3>1. /\ v \in gone => ws'[d][v] = NoStatus
          /\ v \notin gone =>
               ws'[d][v].status = IF WokenBy(c, d, v) THEN "Executing" ELSE ws[d][v].status
          /\ WokenBy(c, d, v) =>
              \E h \in live : Top(h) \in Busy /\ Serves(Head(pb[h]), d, v)
      BY <2>2, SendStatus
    <3>. QED  BY <3>1 DEF Executing, IsBlocked, NoStatus
  <2>. QED  BY <1>2, <1>4, <1>5, <2>3, <2>4
<1>. QED  BY <1>3, <1>6, <1>7

LEMMA DeleteDuty ==
  ASSUME TypeInv, TypeInv', TreeInv, TreeInv', DutyInv, delete_thread
  PROVE  DutyInv'
<1>1. PICK x \in live \ (Ready \cup undefs) :
        /\ x = del /\ Top(x) = "EOF" /\ live' = live \ {x}
        /\ \A h \in live \ {x} :
             /\ parent'[h] = parent[h] /\ flags'[h] = flags[h] /\ pb'[h] = pb[h]
        /\ \A h \in live : parent[h] # x
  BY DeleteFacts
<1>2. PICK gone \in SUBSET {x} :
        /\ \A d \in Channel, v \in Thread :
             /\ v \in gone => ws'[d][v] = NoStatus
             /\ Executing(d, v)' => \/ Executing(d, v)
                                    \/ \E h \in live : Top(h) \in Busy /\ Serves(Head(pb[h]), d, v)
             /\ IsBlocked(d, v)' => IsBlocked(d, v)
             /\ v \notin gone => (HasStatus(d, v)' <=> HasStatus(d, v))
             /\ HasStatus(d, v)' => HasStatus(d, v)
        /\ ToSet(all_chnls) \subseteq ToSet(all_chnls')
  BY <1>1, DetachFacts
<1>. DEFINE K == live \ {x}
<1>3. /\ K \in SUBSET (live \cap live') /\ Links(K)
      /\ \A k \in K : parent[k] \in K \cup {NoThread}
  BY <1>1 DEF Links, TreeInv, Shape
<1>. HIDE DEF K
<1>4. ToSet(pb[x]) = {Head(pb[x])} /\ Head(pb[x]).type = "EOF"
  <2>1. pb[x] \in Seq(Item) /\ WellFormed(pb[x]) /\ Head(pb[x]).type = "EOF"
    BY <1>1, TopOf
  <2>. QED  BY <2>1, AtEofAlts
<1>5. \A h \in K : pb'[h] = pb[h]  BY <1>1 DEF K
<1>6. Receivers'
  <2>1. ASSUME NEW h \in K, NEW e \in ToSet(pb'[h]), e.type \in Busy
        PROVE  WaitsAs(h, e.wait_thd)'
    <3>1. WaitsAs(h, e.wait_thd)  BY <1>5, <2>1 DEF DutyInv, Receivers, K
    <3>. QED  BY <1>3, <3>1, WaitsAsKept
  <2>. QED  BY <1>1, <2>1 DEF Receivers, K
<1>7. ASSUME NEW d \in Channel, NEW v \in Thread, Executing(d, v)'  PROVE Serving(d, v)'
  <2>1. PICK h \in live : \E e \in ToSet(pb[h]) : Serves(e, d, v)
    <3>1. CASE Executing(d, v)  BY <3>1 DEF DutyInv, Finished, Serving
    <3>2. CASE \E h \in live : Serves(Head(pb[h]), d, v)  BY <3>2, TopToken
    <3>. QED  BY <1>2, <1>7, <3>1, <3>2
  <2>2. PICK e \in ToSet(pb[h]) : Serves(e, d, v)  BY <2>1
  <2>3. h # x  BY <1>4, <2>2 DEF Serves
  <2>4. h \in live' /\ e \in ToSet(pb'[h])  BY <1>1, <2>2, <2>3
  <2>. QED  BY <2>2, <2>4 DEF Serving
<1>8. ASSUME NEW d \in Channel, NEW v \in Thread
      PROVE  /\ IsBlocked(d, v)' => HasStatus(d, v)'
             /\ HasStatus(d, v)' => d \in ToSet(all_chnls')
  <2>1. v \in gone => ~IsBlocked(d, v)'  BY <1>2 DEF NoStatus, IsBlocked
  <2>. QED  BY <1>2, <2>1 DEF DutyInv, Registered
<1>9. ASSUME NEW h \in live', NEW e \in ToSet(pb'[h])  PROVE GuardsKnown(e)'
  <2>1. SUFFICES ASSUME e.type = "EALT", NEW d \in GuardChannels(e) \cap Channel
                 PROVE  HasStatus(d, e.wait_thd)'
    BY DEF GuardsKnown
  <2>2. h \in live \ {x} /\ e \in ToSet(pb[h])  BY <1>1
  <2>3. HasStatus(d, e.wait_thd)  BY <2>1, <2>2 DEF DutyInv, Registered, GuardsKnown
  <2>4. e.wait_thd \in Thread
    <3>1. wtop[d] \in Seq(Thread)  BY DEF TypeInv, TypeOK
    <3>. QED  BY <2>3, <3>1, ElementsInSet DEF HasStatus
  <2>5. e.wait_thd # x
    <3>1. WaitsAs(h, e.wait_thd)  BY <2>1, <2>2 DEF DutyInv, Receivers, Busy
    <3>. QED  BY <1>1, <2>2, <3>1, WaitsChild
  <2>. QED  BY <1>2, <2>3, <2>4, <2>5
<1>10. Finished' /\ Registered'  BY <1>7, <1>8, <1>9 DEF Finished, Registered
<1>. QED  BY <1>6, <1>10 DEF DutyInv

LEMMA DutyInit == Init => DutyInv
<1>. SUFFICES ASSUME Init PROVE DutyInv  OBVIOUS
<1>. DEFINE stack == <<Mark("BODY"), Mark("EOF")>>
<1>1. \A e \in ToSet(stack) : e.type \notin Busy
  <2>1. \A i \in 1..2 : i = 1 \/ i = 2  OBVIOUS
  <2>2. stack[1].type = "BODY" /\ stack[2].type = "EOF" /\ DOMAIN stack = 1..2  BY DEF Mark
  <2>. HIDE DEF stack
  <2>. QED  BY <2>1, <2>2 DEF ToSet, Busy
<1>2. pb[Root] = stack  BY ThreadAssumption DEF Init
<1>. HIDE DEF stack
<1>3. live = {Root}  BY DEF Init
<1>4. \A c \in Channel, w \in Thread : ws[c][w].status = "Idle"  BY DEF Init, NoStatus
<1>5. \A c \in Channel : wtop[c] = <<>>  BY DEF Init
<1>6. ToSet(<<>>) = {}  BY DEF ToSet
<1>7. Receivers  BY <1>1, <1>2, <1>3 DEF Receivers
<1>8. Finished  BY <1>4 DEF Finished, Executing
<1>9. \A c \in Channel, w \in Thread : ~IsBlocked(c, w) /\ ~HasStatus(c, w)
  BY <1>4, <1>5, <1>6 DEF IsBlocked, HasStatus
<1>10. Registered  BY <1>1, <1>2, <1>3, <1>9 DEF Registered, GuardsKnown, Busy
<1>. QED  BY <1>7, <1>8, <1>10 DEF DutyInv

LEMMA DutyNext ==
  ASSUME TypeInv, TypeInv', TreeInv, TreeInv', StackInv, DutyInv, [Next]_vars
  PROVE  DutyInv'
<1>1. CASE \/ do_defthread \/ do_lbrace \/ do_lbracket \/ do_thread
           \/ begin_of_named_thread \/ end_of_named_thread \/ end_of_block \/ end_of_tokens
           \/ do_pitch \/ do_reg \/ attach_effector \/ do_sync \/ end_sync
  BY <1>1, GroupDuty, ThreadDuty, PopDuty, QuietDuty, SyncDuty
<1>2. CASE \/ do_signal \/ do_wait \/ end_wait \/ do_alt \/ end_alt \/ destroy_channel
  BY <1>2, SignalDuty, WaitDuty, EndWaitDuty, AltDuty, EndAltDuty, DestroyDuty
<1>3. CASE \/ do_eof \/ postpone_delete \/ delete_thread
           \/ do_break \/ skip_token \/ break_alt \/ do_undef \/ delete_dict
  BY <1>3, DeleteDuty, PopDuty, BreakAltDuty, QuietDuty
<1>4. CASE \/ begin_cleanup \/ cleanup_idle_threads \/ check_dead_lock
           \/ terminated \/ UNCHANGED vars
  BY <1>4, QuietDuty, DeadLockDuty DEF terminated
<1>. QED  BY <1>1, <1>2, <1>3, <1>4 DEF Next

LEMMA DutyInvariant == Spec => [](TypeInv /\ TreeInv /\ StackInv /\ DutyInv)
<1>1. Init => TypeInv /\ TreeInv /\ StackInv /\ DutyInv
  BY TypeInit, TreeInit, StackInit, DutyInit
<1>2. TypeInv /\ TreeInv /\ StackInv /\ DutyInv /\ [Next]_vars
        => (TypeInv /\ TreeInv /\ StackInv /\ DutyInv)'
  BY TypeStep, TreeStep, StackNext, DutyNext
<1>. QED  BY <1>1, <1>2, PTL DEF Spec

(* A signal finds who sleeps on a channel: the sleeper of a WaitStatus is  *)
(* allocated and its next token is the wait or the alt that made it sleep. *)
(* A WaitStatus that is executing belongs to a wait or alt which is still  *)
(* on some stack, so it does not keep the channel from being destroyed for *)
(* ever.                                                                   *)
THEOREM SleepersFound == Spec => []SleeperMatches
<1>1. TypeInv /\ TreeInv /\ DutyInv => SleeperMatches
  <2>. SUFFICES ASSUME TypeInv, TreeInv, DutyInv, NEW c \in Channel, NEW w \in ToSet(wtop[c])
                PROVE  /\ IsBlocked(c, w) =>
                            /\ ws[c][w].sleep_thd \in live
                            /\ Pending(ws[c][w].sleep_thd, 1, c, w)
                       /\ ws[c][w].status = "Executing" =>
                            \E h \in live : \E i \in DOMAIN pb[h] : Pending(h, i, c, w)
    BY DEF SleeperMatches
  <2>1. w \in Thread
    <3>1. wtop[c] \in Seq(Thread)  BY DEF TypeInv, TypeOK
    <3>. QED  BY <3>1, ElementsInSet
  <2>2. ASSUME IsBlocked(c, w)
        PROVE  ws[c][w].sleep_thd \in live /\ Pending(ws[c][w].sleep_thd, 1, c, w)
    <3>1. PICK h \in live \ Ready :
            h = ws[c][w].sleep_thd /\ Refers(pb[h][1], c, w, ws[c][w].status)
      BY <2>1, <2>2, SleeperOf
    <3>. QED  BY <3>1 DEF Refers, Pending
  <2>3. ASSUME ws[c][w].status = "Executing"
        PROVE  \E h \in live : \E i \in DOMAIN pb[h] : Pending(h, i, c, w)
    <3>1. PICK h \in live : \E e \in ToSet(pb[h]) : Serves(e, c, w)
      BY <2>1, <2>3 DEF DutyInv, Finished, Executing, Serving
    <3>2. PICK i \in DOMAIN pb[h] : Serves(pb[h][i], c, w)  BY <3>1 DEF ToSet
    <3>3. Pending(h, i, c, w)  BY <3>2 DEF Serves, Pending
    <3>. QED  BY <3>3
  <2>. QED  BY <2>2, <2>3
<1>. QED  BY <1>1, DutyInvariant, PTL
=============================================================================
