------------------------------ MODULE MacroProofs ------------------------------
(* Proofs about macro calls, loops and push-back stacks (Macros).          *)
EXTENDS MacroProperties, FiniteSetTheorems, SequenceTheorems, WellFoundedInduction, TLAPS

-----------------------------------------------------------------------------
(* Lists.                                                                  *)
LEMMA Least ==
  ASSUME NEW T \in SUBSET Nat, T # {}
  PROVE  \E m \in T : \A k \in T : m <= k
<1>1. IsWellFoundedOn(OpToRel(<, Nat), Nat)  BY NatLessThanWellFounded
<1>2. PICK m \in T : \A k \in T : ~(<<k, m>> \in OpToRel(<, Nat))  BY <1>1, WFMin
<1>3. ASSUME NEW k \in T  PROVE m <= k
  <2>1. ~(k < m)  BY <1>2 DEF OpToRel
  <2>. QED  BY <2>1
<1>. QED  BY <1>3

Items(s) == {s[i] : i \in DOMAIN s}
IsList(s) == s \in Seq(Items(s))

LEMMA ListOf == ASSUME NEW S, NEW s \in Seq(S)
  PROVE  IsList(s) /\ Len(s) \in Nat /\ DOMAIN s = 1..Len(s) /\ \A i \in 1..Len(s) : s[i] \in S
<1>1. Len(s) \in Nat /\ DOMAIN s = 1..Len(s) /\ \A i \in 1..Len(s) : s[i] \in S
  BY LenProperties, ElementOfSeq
<1>2. s \in [1..Len(s) -> Items(s)]
  <2>1. s = [i \in DOMAIN s |-> s[i]]  BY SeqDef
  <2>. QED  BY <1>1, <2>1 DEF Items
<1>. QED  BY <1>1, <1>2, SeqDef DEF IsList

LEMMA ListAppend ==
  ASSUME NEW s, IsList(s), NEW e
  PROVE  /\ IsList(Append(s, e)) /\ Len(s) \in Nat /\ DOMAIN s = 1..Len(s)
         /\ Len(Append(s, e)) = Len(s) + 1 /\ DOMAIN Append(s, e) = 1..(Len(s) + 1)
         /\ \A i \in 1..Len(s) : Append(s, e)[i] = s[i]
         /\ Append(s, e)[Len(s) + 1] = e
<1>. DEFINE S == Items(s) \cup {e}
<1>1. s \in Seq(Items(s)) /\ Items(s) \subseteq S /\ e \in S  BY DEF IsList
<1>. HIDE DEF S
<1>2. s \in Seq(S)
  <2>1. \A X, Y : X \subseteq Y => Seq(X) \subseteq Seq(Y)  BY SeqDef
  <2>. QED  BY <1>1, <2>1
<1>3. /\ Append(s, e) \in Seq(S) /\ Len(Append(s, e)) = Len(s) + 1
      /\ \A i \in 1..Len(s) : Append(s, e)[i] = s[i]
      /\ Append(s, e)[Len(s) + 1] = e
  BY <1>1, <1>2, AppendProperties
<1>. QED  BY <1>2, <1>3, ListOf

LEMMA ListJoin ==
  ASSUME NEW s, IsList(s), NEW t, IsList(t)
  PROVE  /\ IsList(s \o t) /\ Len(s) \in Nat /\ Len(t) \in Nat
         /\ DOMAIN s = 1..Len(s) /\ DOMAIN t = 1..Len(t)
         /\ Len(s \o t) = Len(s) + Len(t) /\ DOMAIN (s \o t) = 1..(Len(s) + Len(t))
         /\ \A i \in 1..(Len(s) + Len(t)) :
              (s \o t)[i] = IF i <= Len(s) THEN s[i] ELSE t[i - Len(s)]
<1>. DEFINE S == Items(s) \cup Items(t)
<1>1. s \in Seq(Items(s)) /\ t \in Seq(Items(t))
      /\ Items(s) \subseteq S /\ Items(t) \subseteq S
  BY DEF IsList
<1>. HIDE DEF S
<1>2. s \in Seq(S) /\ t \in Seq(S)
  <2>1. \A X, Y : X \subseteq Y => Seq(X) \subseteq Seq(Y)  BY SeqDef
  <2>. QED  BY <1>1, <2>1
<1>3. /\ s \o t \in Seq(S) /\ Len(s \o t) = Len(s) + Len(t)
      /\ \A i \in 1..(Len(s) + Len(t)) :
           (s \o t)[i] = IF i <= Len(s) THEN s[i] ELSE t[i - Len(s)]
  BY <1>2, ConcatProperties
<1>4. Len(s) \in Nat /\ Len(t) \in Nat /\ DOMAIN s = 1..Len(s) /\ DOMAIN t = 1..Len(t)
  BY <1>2, ListOf
<1>. QED  BY <1>3, <1>4, ListOf

LEMMA ListPut ==
  ASSUME NEW s, IsList(s), NEW k \in DOMAIN s, NEW x
  PROVE  /\ IsList([s EXCEPT ![k] = x]) /\ Len([s EXCEPT ![k] = x]) = Len(s)
         /\ Len(s) \in Nat /\ DOMAIN s = 1..Len(s) /\ DOMAIN [s EXCEPT ![k] = x] = 1..Len(s)
         /\ \A i \in DOMAIN s : [s EXCEPT ![k] = x][i] = IF i = k THEN x ELSE s[i]
<1>. DEFINE S == Items(s) \cup {x}
            t == [s EXCEPT ![k] = x]
<1>1. Len(s) \in Nat /\ DOMAIN s = 1..Len(s)  BY ListOf DEF IsList
<1>2. /\ t \in [1..Len(s) -> S]
      /\ \A i \in DOMAIN s : t[i] = IF i = k THEN x ELSE s[i]
  BY <1>1 DEF Items
<1>. HIDE DEF t, S
<1>3. t \in Seq(S)  BY <1>1, <1>2, SeqDef
<1>4. Len(t) = Len(s)  BY <1>1, <1>2, <1>3, LenProperties
<1>5. IsList(t) /\ DOMAIN t = 1..Len(t)  BY <1>3, ListOf
<1>. QED  BY <1>1, <1>2, <1>4, <1>5 DEF t

LEMMA ListEmpty == IsList(<<>>) /\ Len(<<>>) = 0 /\ DOMAIN <<>> = {}
<1>1. <<>> \in Seq({}) /\ Len(<<>>) = 0 /\ DOMAIN <<>> = {}  OBVIOUS
<1>2. IsList(<<>>)  BY <1>1, ListOf
<1>. QED  BY <1>1, <1>2

LEMMA ListOne == ASSUME NEW e  PROVE IsList(<<e>>) /\ Len(<<e>>) = 1 /\ <<e>>[1] = e
<1>1. <<e>> \in Seq({e}) /\ Len(<<e>>) = 1 /\ <<e>>[1] = e  OBVIOUS
<1>. QED  BY <1>1, ListOf

LEMMA ListFront ==
  ASSUME NEW s, IsList(s), s # <<>>
  PROVE  /\ Len(s) \in Nat \ {0} /\ DOMAIN s = 1..Len(s) /\ Last(s) = s[Len(s)]
         /\ IsList(Front(s)) /\ Len(Front(s)) = Len(s) - 1 /\ DOMAIN Front(s) = 1..(Len(s) - 1)
         /\ \A i \in 1..(Len(s) - 1) : Front(s)[i] = s[i]
<1>1. s \in Seq(Items(s)) /\ Len(s) \in Nat /\ DOMAIN s = 1..Len(s)  BY ListOf DEF IsList
<1>2. Len(s) # 0  BY <1>1, EmptySeq
<1>. DEFINE n == Len(s) - 1
<1>3. n \in Nat /\ n = Len(s) - 1 /\ Len(s) = n + 1  BY <1>1, <1>2
<1>. HIDE DEF n
<1>4. /\ Front(s) \in Seq(Items(s)) /\ Len(Front(s)) = n
      /\ \A i \in 1..n : Front(s)[i] = s[i]
  <2>1. Front(s) = SubSeq(s, 1, n)  BY <1>3 DEF Front
  <2>2. 1 \in 1..(Len(s) + 1) /\ n \in 0..Len(s)  BY <1>3
  <2>3. \A i \in 1..n : s[i] \in Items(s)  BY <1>1, <1>3 DEF Items
  <2>. QED  BY <1>1, <1>3, <2>1, <2>2, <2>3, SubSeqProperties
<1>5. IsList(Front(s)) /\ DOMAIN Front(s) = 1..n  BY <1>4, ListOf
<1>. QED  BY <1>1, <1>2, <1>3, <1>4, <1>5 DEF Last

LEMMA ListTail ==
  ASSUME NEW s, IsList(s), s # <<>>
  PROVE  /\ Len(s) \in Nat \ {0} /\ DOMAIN s = 1..Len(s) /\ Head(s) = s[1]
         /\ IsList(Tail(s)) /\ Len(Tail(s)) = Len(s) - 1 /\ DOMAIN Tail(s) = 1..(Len(s) - 1)
         /\ \A i \in 1..(Len(s) - 1) : Tail(s)[i] = s[i + 1]
<1>1. s \in Seq(Items(s)) /\ Len(s) \in Nat /\ DOMAIN s = 1..Len(s)  BY ListOf DEF IsList
<1>2. Len(s) # 0  BY <1>1, EmptySeq
<1>3. /\ Tail(s) \in Seq(Items(s)) /\ Len(Tail(s)) = Len(s) - 1
      /\ \A i \in 1..Len(Tail(s)) : Tail(s)[i] = s[i + 1]
  BY <1>1, HeadTailProperties
<1>4. IsList(Tail(s)) /\ DOMAIN Tail(s) = 1..Len(Tail(s))  BY <1>3, ListOf
<1>. QED  BY <1>1, <1>2, <1>3, <1>4

LEMMA ListSame ==
  ASSUME NEW s, IsList(s), NEW t, DOMAIN t = DOMAIN s, t = [i \in DOMAIN t |-> t[i]]
  PROVE  IsList(t) /\ Len(t) = Len(s)
<1>1. Len(s) \in Nat /\ DOMAIN s = 1..Len(s)  BY ListOf DEF IsList
<1>2. t \in [1..Len(s) -> Items(t)]  BY <1>1 DEF Items
<1>3. t \in Seq(Items(t))  BY <1>1, <1>2, SeqDef
<1>. QED  BY <1>1, <1>2, <1>3, LenProperties DEF IsList

-----------------------------------------------------------------------------
(* States as the operations pass them on.  Freeing lists and macros leaves *)
(* the threads alike: only the marks of elements may change.               *)
Parts == {"heap", "dict", "refs", "thd", "atl"}
Fields == {"state", "stack", "calls", "loops", "parent", "waited"}
Marks == {"free", "rest"}
IsElement(e) ==
  /\ "type" \in DOMAIN e
  /\ e.type = "tokens" => "call" \in DOMAIN e
  /\ e.type = "bot" => "calls" \in DOMAIN e /\ IsList(e.calls)
IsStack(q) == IsList(q) /\ \A i \in DOMAIN q : IsElement(q[i])
IsThread(h) == DOMAIN h = Fields /\ IsStack(h.stack) /\ IsList(h.calls)
Typed(s) == DOMAIN s = Parts /\ DOMAIN s.thd = Thread /\ \A t \in Thread : IsThread(s.thd[t])

SameStack(p, q) ==
  /\ DOMAIN q = DOMAIN p
  /\ \A i \in DOMAIN p : /\ DOMAIN q[i] = DOMAIN p[i]
                         /\ \A f \in DOMAIN p[i] \ Marks : q[i][f] = p[i][f]
Alike(h, g) ==
  /\ SameStack(h.stack, g.stack)
  /\ g.state = h.state /\ g.loops = h.loops /\ g.parent = h.parent /\ g.waited = h.waited
  /\ g.calls = h.calls
Frame(s, z) == Typed(z) /\ \A t \in Thread : Alike(s.thd[t], z.thd[t])

LEMMA FrameSelf == ASSUME NEW s, Typed(s)  PROVE Frame(s, s)
BY DEF Frame, Alike, SameStack

LEMMA FrameTrans == ASSUME NEW s, NEW z, NEW y, Frame(s, z), Frame(z, y)  PROVE Frame(s, y)
<1>1. Typed(y)  BY DEF Frame
<1>2. ASSUME NEW t \in Thread  PROVE Alike(s.thd[t], y.thd[t])
  <2>1. Alike(s.thd[t], z.thd[t]) /\ Alike(z.thd[t], y.thd[t])  BY DEF Frame
  <2>2. SameStack(s.thd[t].stack, y.thd[t].stack)  BY <2>1 DEF Alike, SameStack
  <2>. QED  BY <2>1, <2>2 DEF Alike
<1>. QED  BY <1>1, <1>2 DEF Frame

(* Whatever leaves the threads as they are.                                *)
LEMMA FrameRest ==
  ASSUME NEW s, Typed(s), NEW z, DOMAIN z = Parts, z.thd = s.thd
  PROVE  Frame(s, z)
<1>1. Typed(z)  BY DEF Typed
<1>. QED  BY <1>1 DEF Frame, Alike, SameStack

(* The threads with one mark, wherever it is.                              *)
Marked(d, x, k, f, v) == [d EXCEPT ![x].stack[k][f] = v]
LEMMA MarkAlike ==
  ASSUME NEW s, Typed(s), NEW x, NEW k, NEW f \in Marks, NEW v,
         NEW z, DOMAIN z = Parts, z.thd = Marked(s.thd, x, k, f, v)
  PROVE  Frame(s, z)
<1>1. DOMAIN z.thd = Thread  BY DEF Marked, Typed
<1>2. ASSUME NEW t \in Thread  PROVE IsThread(z.thd[t]) /\ Alike(s.thd[t], z.thd[t])
  <2>0. IsThread(s.thd[t])  BY DEF Typed
  <2>1. CASE t # x
    <3>1. z.thd[t] = s.thd[t]  BY <2>1 DEF Marked, Typed
    <3>. QED  BY <2>0, <3>1 DEF Alike, SameStack
  <2>2. CASE t = x
    <3>. DEFINE p == s.thd[t].stack
                e == [p[k] EXCEPT ![f] = v]
                q == [p EXCEPT ![k] = e]
    <3>1. z.thd[t] = [s.thd[t] EXCEPT !.stack = q]  BY <2>2 DEF Marked, Typed
    <3>2. DOMAIN q = DOMAIN p /\ q = [i \in DOMAIN q |-> q[i]]  OBVIOUS
    <3>3. \A i \in DOMAIN p : q[i] = IF i = k THEN e ELSE p[i]  OBVIOUS
    <3>4. DOMAIN e = DOMAIN p[k] /\ \A j \in DOMAIN p[k] \ Marks : e[j] = p[k][j]  OBVIOUS
    <3>5. IsStack(p)  BY <2>0 DEF IsThread
    <3>. HIDE DEF e, q, p
    <3>6. IsList(q)  BY <3>2, <3>5, ListSame DEF IsStack
    <3>7. SameStack(p, q)  BY <3>2, <3>3, <3>4 DEF SameStack
    <3>8. IsStack(q)
      <4>1. ASSUME NEW i \in DOMAIN q  PROVE IsElement(q[i])
        <5>1. IsElement(p[i])  BY <3>2, <3>5 DEF IsStack
        <5>2. DOMAIN q[i] = DOMAIN p[i] /\ \A j \in DOMAIN p[i] \ Marks : q[i][j] = p[i][j]
          BY <3>2, <3>7 DEF SameStack
        <5>. QED  BY <5>1, <5>2 DEF IsElement, Marks
      <4>. QED  BY <3>6, <4>1 DEF IsStack
    <3>9. /\ DOMAIN z.thd[t] = Fields /\ z.thd[t].stack = q
          /\ z.thd[t].state = s.thd[t].state /\ z.thd[t].loops = s.thd[t].loops
          /\ z.thd[t].parent = s.thd[t].parent /\ z.thd[t].waited = s.thd[t].waited
          /\ z.thd[t].calls = s.thd[t].calls
      BY <2>0, <3>1 DEF IsThread, Fields
    <3>. QED  BY <2>0, <3>7, <3>8, <3>9 DEF IsThread, Alike, p
  <2>. QED  BY <2>1, <2>2
<1>. QED  BY <1>1, <1>2 DEF Frame, Typed

LEMMA FreeFrame == ASSUME NEW s, Typed(s), NEW a  PROVE Frame(s, free_tklist(s, a))
<1>. DEFINE held == check_active_tklist(s, a)
            p == s.atl[Min(held)]
            marked == [s EXCEPT !.thd[p[1]].stack[p[2]].free = TRUE]
            empty == [s EXCEPT !.heap[a] = 0]
<1>1. free_tklist(s, a) = IF held # {} THEN marked ELSE IF a \in List THEN empty ELSE s
  BY Zenon DEF free_tklist
<1>2. Frame(s, marked)
  <2>1. marked.thd = Marked(s.thd, p[1], p[2], "free", TRUE) /\ DOMAIN marked = Parts
    <3>. HIDE DEF p
    <3>. QED  BY DEF Typed, Parts, Marked
  <2>. HIDE DEF p, marked
  <2>2. "free" \in Marks  BY DEF Marks
  <2>. QED  BY <2>1, <2>2, MarkAlike
<1>3. Frame(s, empty)
  <2>1. empty.thd = s.thd /\ DOMAIN empty = Parts  BY DEF Typed, Parts
  <2>. HIDE DEF empty
  <2>. QED  BY <2>1, FrameRest
<1>4. Frame(s, s)  BY FrameSelf
<1>. HIDE DEF held, marked, empty
<1>. QED  BY <1>1, <1>2, <1>3, <1>4

LEMMA ScanFrame ==
  ASSUME NEW s, Typed(s), NEW c \in scan_tklist(s)  PROVE Frame(s, c.s)
<1>1. CASE c = [s |-> s, list |-> NULL]
  <2>1. c.s = s  BY <1>1
  <2>. QED  BY <2>1, FrameSelf
<1>2. ASSUME NEW a, NEW n, c = [s |-> [s EXCEPT !.heap[a] = n], list |-> a]
      PROVE  Frame(s, c.s)
  <2>1. c.s.thd = s.thd /\ DOMAIN c.s = Parts  BY <1>2 DEF Typed, Parts
  <2>. QED  BY <2>1, FrameRest
<1>3. \/ c = [s |-> s, list |-> NULL]
      \/ \E a, n : c = [s |-> [s EXCEPT !.heap[a] = n], list |-> a]
  BY DEF scan_tklist
<1>. QED  BY <1>1, <1>2, <1>3

LEMMA ObjectFrame == ASSUME NEW s, Typed(s), NEW o  PROVE Frame(s, free_object(s, o))
<1>1. Frame(s, s) /\ Frame(s, free_tklist(s, o.list))  BY FrameSelf, FreeFrame
<1>. QED  BY <1>1 DEF free_object

LEMMA RedefineFrame ==
  ASSUME NEW s, Typed(s), NEW k, NEW o  PROVE Frame(s, redefine_macro(s, k, o))
<1>. DEFINE z == free_object(s, s.dict[k])
            y == redefine_macro(s, k, o)
<1>1. Frame(s, z)  BY ObjectFrame
<1>2. DOMAIN z = Parts /\ Typed(z)  BY <1>1 DEF Frame, Typed
<1>. HIDE DEF z
<1>3. y.thd = z.thd /\ DOMAIN y = Parts  BY <1>2 DEF redefine_macro, Parts, z
<1>. HIDE DEF y
<1>4. Frame(z, y)  BY <1>2, <1>3, FrameRest
<1>5. Frame(s, y)  BY <1>1, <1>4, FrameTrans
<1>. QED  BY <1>5 DEF y

LEMMA DeleteFrame ==
  ASSUME NEW s, Typed(s), NEW k  PROVE Frame(s, delete_dict(s, k))
<1>. DEFINE z == free_object(s, s.dict[k])
            y == delete_dict(s, k)
<1>1. Frame(s, z)  BY ObjectFrame
<1>2. DOMAIN z = Parts /\ Typed(z)  BY <1>1 DEF Frame, Typed
<1>. HIDE DEF z
<1>3. y.thd = z.thd /\ DOMAIN y = Parts  BY <1>2 DEF delete_dict, Parts, z
<1>. HIDE DEF y
<1>4. Frame(z, y)  BY <1>2, <1>3, FrameRest
<1>5. Frame(s, y)  BY <1>1, <1>4, FrameTrans
<1>. QED  BY <1>5 DEF y

-----------------------------------------------------------------------------
(* The folds: delete_dict over a set of names, delete_mc over a list of    *)
(* calls.  Both take one member of the set after the other.                *)
Chosen(w, T) == IF w = "names" THEN CHOOSE x \in T : TRUE ELSE Max(T)
Removed(w, z, q, x) == IF w = "names" THEN delete_dict(z, x) ELSE delete_mc(z, q[x])
FoldStep(w, s, q, g, T) ==
  IF T = {} THEN s ELSE Removed(w, g[T \ {Chosen(w, T)}], q, Chosen(w, T))
Folds(w, s, q, K, m, g) ==
  \A T \in SUBSET K : Cardinality(T) <= m => g[T] = FoldStep(w, s, q, g, T)

LEMMA FoldMore ==
  ASSUME NEW w, NEW s, NEW q, NEW K, IsFiniteSet(K), NEW m \in Nat, NEW g,
         \A T \in SUBSET K : T # {} => Chosen(w, T) \in T,
         Folds(w, s, q, K, m, g)
  PROVE  \E h : Folds(w, s, q, K, m + 1, h)
<1>. DEFINE h == [T \in SUBSET K |-> IF Cardinality(T) <= m THEN g[T] ELSE FoldStep(w, s, q, g, T)]
<1>1. ASSUME NEW T \in SUBSET K, Cardinality(T) <= m + 1
      PROVE  h[T] = FoldStep(w, s, q, h, T)
  <2>0. IsFiniteSet(T) /\ Cardinality(T) \in Nat  BY FS_Subset, FS_CardinalityType
  <2>1. h[T] = FoldStep(w, s, q, g, T)
    <3>1. CASE Cardinality(T) <= m  BY <3>1 DEF Folds
    <3>2. CASE ~(Cardinality(T) <= m)  BY <3>2
    <3>. QED  BY <3>1, <3>2
  <2>2. CASE T = {}  BY <2>1, <2>2 DEF FoldStep
  <2>3. CASE T # {}
    <3>. DEFINE U == T \ {Chosen(w, T)}
    <3>1. U \in SUBSET K /\ Cardinality(U) = Cardinality(T) - 1  BY <2>0, <2>3, FS_RemoveElement
    <3>2. Cardinality(U) <= m  BY <1>1, <2>0, <3>1
    <3>. HIDE DEF U
    <3>3. h[U] = g[U]  BY <3>1, <3>2
    <3>. HIDE DEF h
    <3>. QED  BY <2>1, <2>3, <3>3 DEF FoldStep, U
  <2>. QED  BY <2>2, <2>3
<1>. HIDE DEF h
<1>2. Folds(w, s, q, K, m + 1, h)  BY <1>1 DEF Folds
<1>. QED  BY <1>2

LEMMA FoldExists ==
  ASSUME NEW w, NEW s, NEW q, NEW K, IsFiniteSet(K),
         \A T \in SUBSET K : T # {} => Chosen(w, T) \in T
  PROVE  \E h : h = [T \in SUBSET K |-> FoldStep(w, s, q, h, T)]
<1>. DEFINE Bad == {m \in Nat : ~ \E g : Folds(w, s, q, K, m, g)}
<1>1. ASSUME Bad # {}  PROVE FALSE
  <2>1. Bad \in SUBSET Nat  OBVIOUS
  <2>2. PICK m \in Bad : \A k \in Bad : m <= k
    <3>. HIDE DEF Bad
    <3>. QED  BY <1>1, <2>1, Least
  <2>3. CASE m = 0
    <3>. DEFINE g == [T \in SUBSET K |-> s]
    <3>1. ASSUME NEW T \in SUBSET K, Cardinality(T) <= 0  PROVE T = {}
      <4>1. IsFiniteSet(T) /\ Cardinality(T) \in Nat  BY FS_Subset, FS_CardinalityType
      <4>2. Cardinality(T) = 0  BY <3>1, <4>1
      <4>. QED  BY <4>1, <4>2, FS_EmptySet
    <3>2. Folds(w, s, q, K, 0, g)  BY <3>1 DEF Folds, FoldStep
    <3>. QED  BY <2>3, <3>2
  <2>4. CASE m # 0
    <3>1. m - 1 \in Nat /\ ~(m <= m - 1) /\ (m - 1) + 1 = m  BY <2>4
    <3>2. m - 1 \notin Bad  BY <2>2, <3>1
    <3>3. PICK g : Folds(w, s, q, K, m - 1, g)  BY <3>1, <3>2
    <3>4. \E h : Folds(w, s, q, K, (m - 1) + 1, h)  BY <3>1, <3>3, FoldMore
    <3>. QED  BY <3>1, <3>4
  <2>. QED  BY <2>3, <2>4
<1>2. Cardinality(K) \in Nat  BY FS_CardinalityType
<1>3. PICK g : Folds(w, s, q, K, Cardinality(K), g)  BY <1>1, <1>2
<1>. DEFINE h == [T \in SUBSET K |-> g[T]]
<1>4. ASSUME NEW T \in SUBSET K  PROVE g[T] = FoldStep(w, s, q, h, T)
  <2>1. Cardinality(T) <= Cardinality(K)  BY FS_Subset
  <2>2. g[T] = FoldStep(w, s, q, g, T)  BY <1>3, <2>1 DEF Folds
  <2>. DEFINE U == T \ {Chosen(w, T)}
  <2>3. h[U] = g[U]  OBVIOUS
  <2>. HIDE DEF h
  <2>. QED  BY <2>2, <2>3 DEF FoldStep
<1>5. h = [T \in SUBSET K |-> FoldStep(w, s, q, h, T)]  BY <1>4
<1>. QED  BY <1>5

(* What a fold has made of the threads.                                    *)
IsFold(w, s, q, K, h) == h = [T \in SUBSET K |-> FoldStep(w, s, q, h, T)]
Picks(w, K) == \A T \in SUBSET K : T # {} => Chosen(w, T) \in T
Framed(w, q) == \A z, x : Typed(z) => Frame(z, Removed(w, z, q, x))
LEMMA FoldFrame ==
  ASSUME NEW w, NEW s, Typed(s), NEW q, NEW K, IsFiniteSet(K), Picks(w, K),
         NEW h, IsFold(w, s, q, K, h), Framed(w, q)
  PROVE  Frame(s, h[K])
<1>. DEFINE Bad == {m \in Nat : \E T \in SUBSET K : Cardinality(T) = m /\ ~Frame(s, h[T])}
<1>1. ASSUME Bad # {}  PROVE FALSE
  <2>1. Bad \in SUBSET Nat  OBVIOUS
  <2>2. PICK m \in Bad : \A k \in Bad : m <= k
    <3>. HIDE DEF Bad
    <3>. QED  BY <1>1, <2>1, Least
  <2>3. PICK T \in SUBSET K : Cardinality(T) = m /\ ~Frame(s, h[T])  OBVIOUS
  <2>4. h[T] = FoldStep(w, s, q, h, T)  BY DEF IsFold
  <2>5. T # {}
    <3>1. T = {} => h[T] = s  BY <2>4 DEF FoldStep
    <3>. QED  BY <2>3, <3>1, FrameSelf
  <2>. DEFINE U == T \ {Chosen(w, T)}
  <2>6. U \in SUBSET K /\ Cardinality(U) = m - 1
    <3>1. IsFiniteSet(T)  BY FS_Subset
    <3>. QED  BY <2>3, <2>5, <3>1, FS_RemoveElement DEF Picks
  <2>7. m - 1 \in Nat /\ ~(m <= m - 1)
    <3>1. m # 0
      <4>1. IsFiniteSet(T)  BY FS_Subset
      <4>. QED  BY <2>3, <2>5, <4>1, FS_EmptySet
    <3>. QED  BY <3>1
  <2>. HIDE DEF U
  <2>8. Frame(s, h[U])  BY <2>2, <2>6, <2>7
  <2>9. Typed(h[U])  BY <2>8 DEF Frame
  <2>10. Frame(h[U], Removed(w, h[U], q, Chosen(w, T)))  BY <2>9 DEF Framed
  <2>11. Frame(s, h[T])  BY <2>4, <2>5, <2>8, <2>10, FrameTrans DEF FoldStep, U
  <2>. QED  BY <2>3, <2>11
<1>2. Cardinality(K) \in Nat /\ K \in SUBSET K  BY FS_CardinalityType
<1>. QED  BY <1>1, <1>2

LEMMA NamesFrame ==
  ASSUME NEW s, Typed(s), NEW K, IsFiniteSet(K)
  PROVE  Frame(s, FoldSet(LAMBDA k, z : delete_dict(z, k), s, K))
<1>. DEFINE iter == CHOOSE h : h = [T \in SUBSET K |-> FoldStep("names", s, 0, h, T)]
<1>1. Picks("names", K)  BY DEF Picks, Chosen
<1>2. IsFold("names", s, 0, K, iter)  BY <1>1, FoldExists DEF IsFold, Picks
<1>3. FoldSet(LAMBDA k, z : delete_dict(z, k), s, K) = iter[K]
  BY Zenon DEF FoldSet, MapThenFoldSet, FoldStep, Removed, Chosen
<1>. HIDE DEF iter
<1>4. Framed("names", 0)
  BY DeleteFrame DEF Removed, Framed
<1>5. Frame(s, iter[K])  BY <1>1, <1>2, <1>4, FoldFrame
<1>. QED  BY <1>3, <1>5


LEMMA LocalsFinite ==
  ASSUME NEW s, NEW c  PROVE IsFiniteSet({k \in {c} \X Macro : Defined(s, k)})
<1>1. IsFiniteSet({c})
  <2>1. {c} = {} \cup {c}  OBVIOUS
  <2>. QED  BY <2>1, FS_EmptySet, FS_AddElement
<1>2. IsFiniteSet({c} \X Macro)  BY <1>1, MacroAssumption, FS_Product
<1>3. {k \in {c} \X Macro : Defined(s, k)} \in SUBSET ({c} \X Macro)  OBVIOUS
<1>. QED  BY <1>2, <1>3, FS_Subset

LEMMA McFrame ==
  ASSUME NEW s, Typed(s), NEW c  PROVE Frame(s, delete_mc(s, c))
<1>. DEFINE freed == FoldSet(LAMBDA k, z : delete_dict(z, k), s, Locals(s, c))
            less == [s EXCEPT !.refs[c] = @ - 1]
            gone == [freed EXCEPT !.refs[c] = 0]
<1>1. delete_mc(s, c) = IF s.refs[c] > 1 THEN less ELSE gone  BY Zenon DEF delete_mc
<1>2. Frame(s, less)
  <2>1. less.thd = s.thd /\ DOMAIN less = Parts  BY DEF Typed, Parts
  <2>. HIDE DEF less
  <2>. QED  BY <2>1, FrameRest
<1>3. Frame(s, freed)
  <2>1. IsFiniteSet(Locals(s, c))  BY LocalsFinite DEF Locals
  <2>. QED  BY <2>1, NamesFrame
<1>. HIDE DEF freed
<1>4. Frame(s, gone)
  <2>1. DOMAIN freed = Parts /\ Typed(freed)  BY <1>3 DEF Frame, Typed
  <2>2. gone.thd = freed.thd /\ DOMAIN gone = Parts  BY <2>1 DEF Parts
  <2>. HIDE DEF gone
  <2>3. Frame(freed, gone)  BY <2>1, <2>2, FrameRest
  <2>. QED  BY <1>3, <2>3, FrameTrans
<1>. HIDE DEF less, gone
<1>. QED  BY <1>1, <1>2, <1>4

LEMMA MaxOf ==
  ASSUME NEW n \in Nat, NEW T \in SUBSET (1..n), T # {}  PROVE Max(T) \in T
<1>. DEFINE R == {n - k : k \in T}
<1>1. R \in SUBSET Nat /\ R # {}  OBVIOUS
<1>2. PICK r \in R : \A k \in R : r <= k
  <2>. HIDE DEF R
  <2>. QED  BY <1>1, Least
<1>3. PICK m \in T : r = n - m  OBVIOUS
<1>4. \A k \in T : m >= k
  <2>1. ASSUME NEW k \in T  PROVE m >= k
    <3>1. n - k \in R  OBVIOUS
    <3>2. n - m <= n - k  BY <1>2, <1>3, <3>1
    <3>. QED  BY <3>2
  <2>. QED  BY <2>1
<1>. HIDE DEF R
<1>. QED  BY <1>4 DEF Max

LEMMA UnlockFrame ==
  ASSUME NEW s, Typed(s), NEW q, IsList(q)
  PROVE  Frame(s, unlock_calls(s, q))
<1>. DEFINE K == DOMAIN q
            iter == CHOOSE h : h = [T \in SUBSET K |-> FoldStep("calls", s, q, h, T)]
<1>1. Picks("calls", K) /\ IsFiniteSet(K)
  <2>1. Len(q) \in Nat /\ K = 1..Len(q)  BY ListOf DEF IsList
  <2>2. 1 \in Int /\ Len(q) \in Int  BY <2>1
  <2>3. IsFiniteSet(1..Len(q))  BY <2>2, FS_Interval
  <2>4. \A T \in SUBSET (1..Len(q)) : T # {} => Max(T) \in T  BY <2>1, MaxOf
  <2>. HIDE DEF K
  <2>. QED  BY <2>1, <2>3, <2>4 DEF Picks, Chosen
<1>2. IsFold("calls", s, q, K, iter)  BY <1>1, FoldExists DEF IsFold, Picks
<1>3. unlock_calls(s, q) = iter[K]
  BY Zenon DEF unlock_calls, FoldLeft, MapThenFoldSet, FoldStep, Removed, Chosen
<1>. HIDE DEF iter, K
<1>4. Framed("calls", q)
  BY McFrame DEF Removed, Framed
<1>5. Frame(s, iter[K])  BY <1>1, <1>2, <1>4, FoldFrame
<1>. QED  BY <1>3, <1>5

LEMMA LockFrame ==
  ASSUME NEW s, Typed(s), NEW calls  PROVE Frame(s, lock_calls(s, calls))
<1>1. lock_calls(s, calls).thd = s.thd /\ DOMAIN lock_calls(s, calls) = Parts
  BY DEF lock_calls, Typed, Parts
<1>. QED  BY <1>1, FrameRest

-----------------------------------------------------------------------------
(* The invariant.  Only the first element of a stack is an end of file and *)
(* no macro is read below tokens that another thread has given; a thread   *)
(* that waits for a block is in the middle of its tokens; a block that is  *)
(* waited for has a thread of its own that waits, which no block is; a     *)
(* macro that is read has its call.  While an operation is under way,      *)
(* loop_count of the thread that reads may differ from its loops by n, and *)
(* k of its macros may lack their calls.                                   *)
Types == {"eof", "source", "tokens", "strong", "loop", "bot", "eot"}
LoopsIn(q) == {i \in DOMAIN q : q[i].type = "loop"}
IsCaller(e) == e.type = "tokens" /\ e.call # NULL
CallersIn(q) == {i \in DOMAIN q : IsCaller(q[i])}
Ground(q) ==
  /\ DOMAIN q # {} => q[1].type = "eof"
  /\ \A i \in DOMAIN q : q[i].type = "eof" => i = 1
  /\ \A i, j \in DOMAIN q : i < j /\ q[j].type \in {"bot", "eot"} => ~IsCaller(q[i])
Fine(t, h) ==
  /\ \A i \in DOMAIN h.stack : h.stack[i].type \in Types
  /\ Ground(h.stack)
  /\ h.state = "none" <=> DOMAIN h.stack = {}
  /\ h.waited => t \in Block /\ h.parent \in Thread \ Block /\ h.state # "none"
  /\ h.state = "waits" => h.stack[Len(h.stack)].type \in {"source", "tokens"}
  /\ h.loops \in Int
  /\ t \in Named => h.state # "none"
Family(d) ==
  /\ \A t \in Thread : d[t].waited => d[d[t].parent].state = "waits"
  /\ \A t, u \in Thread : d[t].waited /\ d[u].waited /\ d[t].parent = d[u].parent => t = u
Counted(d, t, n) ==
  \A u \in Thread :
    d[u].loops + (IF u = t THEN n ELSE 0) =
      Cardinality(LoopsIn(d[u].stack)) + (IF d[u].waited THEN d[d[u].parent].loops ELSE 0)
Covered(d, t, k) ==
  \A u \in Thread :
    Cardinality(CallersIn(d[u].stack)) <= Len(d[u].calls) + (IF u = t THEN k ELSE 0)
Sound(s, t, n, k) ==
  /\ Typed(s) /\ (\A u \in Thread : Fine(u, s.thd[u])) /\ Family(s.thd)
  /\ Counted(s.thd, t, n) /\ Covered(s.thd, t, k)
Good(s, t, n, k) == Sound(s, t, n, k) /\ t \in Thread /\ s.thd[t].state = "ready"
MacroInv ==
  /\ Sound(State, NULL, 0, 0)
  /\ breaking \in Nat
  /\ cur # NULL => cur \in Thread /\ thd[cur].state = "ready" /\ breaking <= thd[cur].loops

TopOf(h) == h.stack[Len(h.stack)]
TopType(h) == TopOf(h).type

LEMMA StackLen == ASSUME NEW q, IsStack(q)
  PROVE  Len(q) \in Nat /\ DOMAIN q = 1..Len(q) /\ (q = <<>> <=> DOMAIN q = {}) /\ (q = <<>> <=> Len(q) = 0)
<1>1. Len(q) \in Nat /\ DOMAIN q = 1..Len(q) /\ q \in Seq(Items(q))  BY ListOf DEF IsStack, IsList
<1>2. q = <<>> <=> Len(q) = 0  BY <1>1, EmptySeq
<1>3. DOMAIN q = {} <=> Len(q) = 0
  <2>1. Len(q) = 0 => 1..Len(q) = {}  OBVIOUS
  <2>2. Len(q) # 0 => 1 \in 1..Len(q)  BY <1>1
  <2>. QED  BY <1>1, <2>1, <2>2
<1>. QED  BY <1>1, <1>2, <1>3

LEMMA InFinite == ASSUME NEW q, IsStack(q), NEW T \in SUBSET (DOMAIN q)
  PROVE  IsFiniteSet(T) /\ Cardinality(T) \in Nat
<1>1. Len(q) \in Nat /\ DOMAIN q = 1..Len(q) /\ 1 \in Int  BY StackLen
<1>2. IsFiniteSet(DOMAIN q)  BY <1>1, FS_Interval
<1>. QED  BY <1>2, FS_Subset, FS_CardinalityType

LEMMA LoopsFinite == ASSUME NEW q, IsStack(q)
  PROVE  /\ IsFiniteSet(LoopsIn(q)) /\ Cardinality(LoopsIn(q)) \in Nat
         /\ IsFiniteSet(CallersIn(q)) /\ Cardinality(CallersIn(q)) \in Nat
<1>1. LoopsIn(q) \in SUBSET (DOMAIN q) /\ CallersIn(q) \in SUBSET (DOMAIN q)
  BY DEF LoopsIn, CallersIn
<1>. QED  BY <1>1, InFinite

LEMMA AlikeFine ==
  ASSUME NEW t, NEW h, NEW g, IsThread(h), IsThread(g), Alike(h, g)
  PROVE  /\ Fine(t, h) => Fine(t, g)
         /\ LoopsIn(g.stack) = LoopsIn(h.stack) /\ CallersIn(g.stack) = CallersIn(h.stack)
         /\ Len(g.stack) = Len(h.stack)
         /\ \A i \in DOMAIN h.stack : /\ g.stack[i].type = h.stack[i].type
                                      /\ IsCaller(g.stack[i]) <=> IsCaller(h.stack[i])
<1>. DEFINE p == h.stack
            q == g.stack
<1>1. DOMAIN q = DOMAIN p  BY DEF Alike, SameStack
<1>2. ASSUME NEW i \in DOMAIN p
      PROVE  q[i].type = p[i].type /\ (IsCaller(q[i]) <=> IsCaller(p[i]))
  <2>1. IsElement(p[i])  BY DEF IsThread, IsStack
  <2>2. \A f \in DOMAIN p[i] \ Marks : q[i][f] = p[i][f]  BY DEF Alike, SameStack
  <2>3. q[i].type = p[i].type  BY <2>1, <2>2 DEF IsElement, Marks
  <2>4. p[i].type = "tokens" => q[i].call = p[i].call  BY <2>1, <2>2 DEF IsElement, Marks
  <2>. QED  BY <2>3, <2>4 DEF IsCaller
<1>3. Len(q) = Len(p) /\ Len(p) \in Nat /\ DOMAIN p = 1..Len(p)
  <2>1. /\ Len(p) \in Nat /\ DOMAIN p = 1..Len(p)
        /\ Len(q) \in Nat /\ DOMAIN q = 1..Len(q)
    BY StackLen DEF IsThread
  <2>2. \A m, n \in Nat : 1..m = 1..n => m = n
    <3>1. \A m, n \in Nat : m < n => n \in 1..n /\ n \notin 1..m  OBVIOUS
    <3>. QED  BY <3>1
  <2>. QED  BY <1>1, <2>1, <2>2
<1>4. LoopsIn(q) = LoopsIn(p) /\ CallersIn(q) = CallersIn(p)
  BY <1>1, <1>2 DEF LoopsIn, CallersIn
<1>5. ASSUME Fine(t, h)  PROVE Fine(t, g)
  <2>1. g.state = h.state /\ g.loops = h.loops /\ g.parent = h.parent /\ g.waited = h.waited
    BY DEF Alike
  <2>2. DOMAIN p # {} => 1 \in DOMAIN p /\ Len(p) \in DOMAIN p  BY <1>3
  <2>3. h.state = "waits" => Len(p) \in DOMAIN p  BY <1>5, <2>2 DEF Fine
  <2>4. Ground(q)
    <3>1. Ground(p)  BY <1>5 DEF Fine
    <3>. HIDE DEF p, q
    <3>. QED  BY <1>1, <1>2, <2>2, <3>1 DEF Ground
  <2>. HIDE DEF p, q
  <2>. QED  BY <1>1, <1>2, <1>3, <1>5, <2>1, <2>3, <2>4 DEF Fine, p, q
<1>. QED  BY <1>2, <1>3, <1>4, <1>5

Same(h, g) ==
  /\ g.state = h.state /\ g.loops = h.loops /\ g.waited = h.waited /\ g.parent = h.parent
  /\ g.calls = h.calls /\ Len(g.stack) = Len(h.stack)
  /\ h.state # "none" => /\ TopType(g) = TopType(h)
                         /\ IsCaller(TopOf(g)) <=> IsCaller(TopOf(h))
LEMMA FrameSame ==
  ASSUME NEW s, NEW z, NEW t, NEW n, NEW k, Sound(s, t, n, k), Frame(s, z), NEW u \in Thread
  PROVE  /\ Same(s.thd[u], z.thd[u])
         /\ Fine(u, z.thd[u]) /\ LoopsIn(z.thd[u].stack) = LoopsIn(s.thd[u].stack)
         /\ CallersIn(z.thd[u].stack) = CallersIn(s.thd[u].stack)
<1>1. Typed(s) /\ Typed(z)  BY DEF Sound, Frame
<1>2. IsThread(s.thd[u]) /\ IsThread(z.thd[u]) /\ Alike(s.thd[u], z.thd[u]) /\ Fine(u, s.thd[u])
  BY <1>1 DEF Frame, Typed, Sound
<1>3. /\ Fine(u, z.thd[u]) /\ LoopsIn(z.thd[u].stack) = LoopsIn(s.thd[u].stack)
      /\ CallersIn(z.thd[u].stack) = CallersIn(s.thd[u].stack)
      /\ Len(z.thd[u].stack) = Len(s.thd[u].stack)
      /\ \A i \in DOMAIN s.thd[u].stack :
           /\ z.thd[u].stack[i].type = s.thd[u].stack[i].type
           /\ IsCaller(z.thd[u].stack[i]) <=> IsCaller(s.thd[u].stack[i])
  BY <1>2, AlikeFine
<1>4. s.thd[u].state # "none" => Len(s.thd[u].stack) \in DOMAIN s.thd[u].stack
  <2>1. IsStack(s.thd[u].stack) /\ (s.thd[u].state = "none" <=> DOMAIN s.thd[u].stack = {})
    BY <1>2 DEF IsThread, Fine
  <2>2. /\ Len(s.thd[u].stack) \in Nat /\ DOMAIN s.thd[u].stack = 1..Len(s.thd[u].stack)
    BY <2>1, StackLen
  <2>. QED  BY <2>1, <2>2
<1>. QED  BY <1>2, <1>3, <1>4 DEF Alike, Same, TopType, TopOf

LEMMA FrameSound ==
  ASSUME NEW s, NEW z, NEW t, NEW n, NEW k, Sound(s, t, n, k), Frame(s, z)
  PROVE  Sound(z, t, n, k)
<1>1. Typed(s) /\ Typed(z)  BY DEF Sound, Frame
<1>2. ASSUME NEW u \in Thread
      PROVE  /\ Fine(u, z.thd[u]) /\ LoopsIn(z.thd[u].stack) = LoopsIn(s.thd[u].stack)
             /\ CallersIn(z.thd[u].stack) = CallersIn(s.thd[u].stack)
             /\ z.thd[u].state = s.thd[u].state /\ z.thd[u].loops = s.thd[u].loops
             /\ z.thd[u].waited = s.thd[u].waited /\ z.thd[u].parent = s.thd[u].parent
             /\ z.thd[u].calls = s.thd[u].calls
  BY FrameSame DEF Same
<1>3. ASSUME NEW u \in Thread, s.thd[u].waited  PROVE s.thd[u].parent \in Thread
  BY <1>3 DEF Sound, Fine
<1>4. Family(z.thd)  BY <1>2, <1>3 DEF Family, Sound
<1>5. Counted(z.thd, t, n)  BY <1>2, <1>3 DEF Counted, Sound
<1>6. Covered(z.thd, t, k)  BY <1>2 DEF Covered, Sound
<1>. QED  BY <1>1, <1>2, <1>4, <1>5, <1>6 DEF Sound

LEMMA FrameGood ==
  ASSUME NEW s, NEW z, NEW t, NEW n, NEW k, Good(s, t, n, k), Frame(s, z)
  PROVE  /\ Good(z, t, n, k) /\ z.thd[t].loops = s.thd[t].loops /\ z.thd[t].calls = s.thd[t].calls
         /\ Len(z.thd[t].stack) = Len(s.thd[t].stack) /\ TopType(z.thd[t]) = TopType(s.thd[t])
         /\ IsCaller(TopOf(z.thd[t])) <=> IsCaller(TopOf(s.thd[t]))
<1>1. Sound(s, t, n, k) /\ t \in Thread /\ s.thd[t].state = "ready"  BY DEF Good
<1>2. Sound(z, t, n, k)  BY <1>1, FrameSound
<1>3. Same(s.thd[t], z.thd[t])  BY <1>1, FrameSame
<1>4. s.thd[t].state # "none"  BY <1>1
<1>. QED  BY <1>1, <1>2, <1>3, <1>4 DEF Good, Same

(* A change of the thread that reads, for which no block is waited.        *)
LEMMA Balance ==
  ASSUME NEW a \in Int, NEW b \in Int, NEW c \in Int, NEW d \in Int, NEW e \in Int,
         NEW f \in Int, NEW g \in Int, a + b - c = d + e - f, d + e = f + g
  PROVE  a + b = c + g
OBVIOUS

LEMMA OneChanged ==
  ASSUME NEW s, NEW t, NEW n \in Int, NEW k \in Int, Good(s, t, n, k), NEW z, DOMAIN z = Parts,
         NEW h, DOMAIN z.thd = Thread, \A u \in Thread : z.thd[u] = IF u = t THEN h ELSE s.thd[u],
         IsThread(h), Fine(t, h),
         h.state = "ready", h.waited = s.thd[t].waited, h.parent = s.thd[t].parent,
         NEW m \in Int,
         h.loops + m - Cardinality(LoopsIn(h.stack)) =
           s.thd[t].loops + n - Cardinality(LoopsIn(s.thd[t].stack)),
         NEW j \in Int, Cardinality(CallersIn(h.stack)) <= Len(h.calls) + j
  PROVE  Good(z, t, m, j) /\ z.thd[t] = h
<1>1. t \in Thread /\ DOMAIN s.thd = Thread /\ s.thd[t].state = "ready"
  BY DEF Good, Sound, Typed
<1>2. \A u \in Thread : z.thd[u] = IF u = t THEN h ELSE s.thd[u]  OBVIOUS
<1>3. Typed(z)  BY <1>1, <1>2 DEF Typed, Good, Sound
<1>4. \A u \in Thread : Fine(u, z.thd[u])  BY <1>2 DEF Good, Sound
<1>5. ASSUME NEW u \in Thread, s.thd[u].waited
      PROVE  s.thd[u].parent \in Thread /\ s.thd[u].parent # t
  <2>1. s.thd[u].parent \in Thread /\ s.thd[s.thd[u].parent].state = "waits"
    BY <1>5 DEF Good, Sound, Fine, Family
  <2>. QED  BY <1>1, <2>1
<1>6. Family(z.thd)  BY <1>1, <1>2, <1>5 DEF Good, Sound, Family
<1>7. ASSUME NEW u \in Thread
      PROVE  z.thd[u].loops + (IF u = t THEN m ELSE 0) =
               Cardinality(LoopsIn(z.thd[u].stack))
               + (IF z.thd[u].waited THEN z.thd[z.thd[u].parent].loops ELSE 0)
  <2>1. s.thd[u].loops + (IF u = t THEN n ELSE 0) =
          Cardinality(LoopsIn(s.thd[u].stack))
          + (IF s.thd[u].waited THEN s.thd[s.thd[u].parent].loops ELSE 0)
    BY DEF Good, Sound, Counted
  <2>2. CASE u # t  BY <1>2, <1>5, <2>1, <2>2
  <2>3. CASE u = t
    <3>. DEFINE above == IF s.thd[u].waited THEN s.thd[s.thd[u].parent].loops ELSE 0
    <3>1. z.thd[u] = h /\ (IF z.thd[u].waited THEN z.thd[z.thd[u].parent].loops ELSE 0) = above
      BY <1>2, <1>5, <2>3
    <3>2. above \in Int  BY <1>5 DEF Good, Sound, Fine
    <3>3. h.loops \in Int /\ s.thd[t].loops \in Int  BY <1>1 DEF Good, Sound, Fine
    <3>4. Cardinality(LoopsIn(h.stack)) \in Int /\ Cardinality(LoopsIn(s.thd[t].stack)) \in Int
      <4>1. IsStack(h.stack) /\ IsStack(s.thd[t].stack)  BY <1>1 DEF IsThread, Good, Sound, Typed
      <4>. QED  BY <4>1, LoopsFinite
    <3>. HIDE DEF above
    <3>5. s.thd[t].loops + n = Cardinality(LoopsIn(s.thd[t].stack)) + above  BY <2>1, <2>3 DEF above
    <3>6. h.loops + m = Cardinality(LoopsIn(h.stack)) + above
      <4>. DEFINE a == h.loops
                  b == Cardinality(LoopsIn(h.stack))
                  c == s.thd[t].loops
                  e == Cardinality(LoopsIn(s.thd[t].stack))
      <4>1. a \in Int /\ b \in Int /\ c \in Int /\ e \in Int  BY <3>3, <3>4
      <4>2. a + m - b = c + n - e /\ c + n = e + above  BY <3>5
      <4>. HIDE DEF a, b, c, e
      <4>3. a + m = b + above  BY <3>2, <4>1, <4>2, Balance, Z3
      <4>. QED  BY <4>3 DEF a, b
    <3>. QED  BY <2>3, <3>1, <3>6
  <2>. QED  BY <2>2, <2>3
<1>8. Counted(z.thd, t, m)  BY <1>7 DEF Counted
<1>9. Covered(z.thd, t, j)
  <2>1. ASSUME NEW u \in Thread, u # t
        PROVE  Cardinality(CallersIn(z.thd[u].stack)) <= Len(z.thd[u].calls) + 0
    BY <1>2, <2>1 DEF Good, Sound, Covered
  <2>2. Cardinality(CallersIn(z.thd[t].stack)) <= Len(z.thd[t].calls) + j  BY <1>1, <1>2
  <2>. QED  BY <2>1, <2>2 DEF Covered
<1>. QED  BY <1>1, <1>2, <1>3, <1>4, <1>6, <1>8, <1>9 DEF Good, Sound

(* The loops and the macros of a stack with an element more or less.       *)
One(type) == IF type = "loop" THEN 1 ELSE 0
Caller(e) == IF IsCaller(e) THEN 1 ELSE 0
LEMMA AddedTo ==
  ASSUME NEW q, IsStack(q), NEW T \in SUBSET (DOMAIN q), NEW n, n \notin DOMAIN q
  PROVE  /\ IsFiniteSet(T) /\ Cardinality(T) \in Nat
         /\ Cardinality(T \cup {n}) = Cardinality(T) + 1
<1>1. IsFiniteSet(T) /\ Cardinality(T) \in Nat  BY InFinite
<1>2. n \notin T  OBVIOUS
<1>. QED  BY <1>1, <1>2, FS_AddElement

LEMMA Extended ==
  ASSUME NEW p, NEW q, IsStack(q), NEW n, n \notin DOMAIN q, DOMAIN p = DOMAIN q \cup {n},
         \A i \in DOMAIN q : p[i] = q[i], NEW e, p[n] = e
  PROVE  /\ Cardinality(LoopsIn(p)) = Cardinality(LoopsIn(q)) + One(e.type)
         /\ Cardinality(CallersIn(p)) = Cardinality(CallersIn(q)) + Caller(e)
         /\ Cardinality(LoopsIn(q)) \in Nat /\ Cardinality(CallersIn(q)) \in Nat
<1>1. LoopsIn(q) \in SUBSET (DOMAIN q) /\ CallersIn(q) \in SUBSET (DOMAIN q)
  BY DEF LoopsIn, CallersIn
<1>2. /\ Cardinality(LoopsIn(q)) \in Nat /\ Cardinality(CallersIn(q)) \in Nat
      /\ Cardinality(LoopsIn(q) \cup {n}) = Cardinality(LoopsIn(q)) + 1
      /\ Cardinality(CallersIn(q) \cup {n}) = Cardinality(CallersIn(q)) + 1
  BY <1>1, AddedTo
<1>3. LoopsIn(p) = IF e.type = "loop" THEN LoopsIn(q) \cup {n} ELSE LoopsIn(q)
  BY DEF LoopsIn
<1>4. CallersIn(p) = IF IsCaller(e) THEN CallersIn(q) \cup {n} ELSE CallersIn(q)
  BY DEF CallersIn
<1>. QED  BY <1>2, <1>3, <1>4 DEF One, Caller

LEMMA AppendStack ==
  ASSUME NEW q, IsStack(q), NEW e, IsElement(e)
  PROVE  /\ IsStack(Append(q, e)) /\ DOMAIN Append(q, e) = 1..(Len(q) + 1)
         /\ \A i \in DOMAIN q : Append(q, e)[i] = q[i]
         /\ Append(q, e)[Len(q) + 1] = e
         /\ Cardinality(LoopsIn(Append(q, e))) = Cardinality(LoopsIn(q)) + One(e.type)
         /\ Cardinality(CallersIn(Append(q, e))) = Cardinality(CallersIn(q)) + Caller(e)
<1>. DEFINE p == Append(q, e)
            n == Len(q) + 1
<1>1. /\ IsList(p) /\ Len(q) \in Nat /\ DOMAIN q = 1..Len(q) /\ DOMAIN p = 1..n
      /\ \A i \in DOMAIN q : p[i] = q[i]
      /\ p[n] = e
  BY ListAppend DEF IsStack
<1>. HIDE DEF p
<1>2. n \notin DOMAIN q /\ DOMAIN p = DOMAIN q \cup {n}  BY <1>1
<1>. HIDE DEF n
<1>3. IsStack(p)  BY <1>1, <1>2 DEF IsStack
<1>4. /\ Cardinality(LoopsIn(p)) = Cardinality(LoopsIn(q)) + One(e.type)
      /\ Cardinality(CallersIn(p)) = Cardinality(CallersIn(q)) + Caller(e)
  <2>1. p[n] = e  BY <1>1
  <2>2. \A i \in DOMAIN q : p[i] = q[i]  BY <1>1
  <2>. QED  BY <1>2, <2>1, <2>2, Extended
<1>. QED  BY <1>1, <1>3, <1>4 DEF p, n

LEMMA FrontStack ==
  ASSUME NEW q, IsStack(q), DOMAIN q # {}
  PROVE  /\ IsStack(Front(q)) /\ Len(q) \in Nat \ {0} /\ DOMAIN q = 1..Len(q)
         /\ DOMAIN Front(q) = 1..(Len(q) - 1) /\ Last(q) = q[Len(q)]
         /\ \A i \in DOMAIN Front(q) : Front(q)[i] = q[i]
         /\ Cardinality(LoopsIn(q)) = Cardinality(LoopsIn(Front(q))) + One(q[Len(q)].type)
         /\ Cardinality(CallersIn(q)) = Cardinality(CallersIn(Front(q))) + Caller(q[Len(q)])
<1>. DEFINE p == Front(q)
            n == Len(q)
<1>0. q # <<>>  BY StackLen
<1>1. /\ n \in Nat \ {0} /\ DOMAIN q = 1..n /\ Last(q) = q[n]
      /\ IsList(p) /\ DOMAIN p = 1..(n - 1)
      /\ \A i \in DOMAIN p : p[i] = q[i]
  BY <1>0, ListFront DEF IsStack
<1>. HIDE DEF p, n
<1>2. n \notin DOMAIN p /\ DOMAIN q = DOMAIN p \cup {n}  BY <1>1
<1>3. IsStack(p)  BY <1>1, <1>2 DEF IsStack
<1>4. \A i \in DOMAIN p : q[i] = p[i]  BY <1>1
<1>5. /\ Cardinality(LoopsIn(q)) = Cardinality(LoopsIn(p)) + One(q[n].type)
      /\ Cardinality(CallersIn(q)) = Cardinality(CallersIn(p)) + Caller(q[n])
  BY <1>2, <1>3, <1>4, Extended
<1>. QED  BY <1>1, <1>3, <1>5 DEF p, n

LEMMA GoodThread ==
  ASSUME NEW s, NEW t, NEW n, NEW k, Good(s, t, n, k)
  PROVE  /\ t \in Thread /\ IsThread(s.thd[t]) /\ IsStack(s.thd[t].stack) /\ Fine(t, s.thd[t])
         /\ s.thd[t].state = "ready" /\ s.thd[t].loops \in Int
         /\ DOMAIN s.thd[t].stack # {} /\ Len(s.thd[t].stack) \in Nat \ {0}
         /\ DOMAIN s.thd[t].stack = 1..Len(s.thd[t].stack)
         /\ DOMAIN s = Parts /\ DOMAIN s.thd = Thread /\ Typed(s)
         /\ Cardinality(LoopsIn(s.thd[t].stack)) \in Nat
         /\ Cardinality(CallersIn(s.thd[t].stack)) \in Nat
         /\ IsList(s.thd[t].calls) /\ Len(s.thd[t].calls) \in Nat
         /\ Cardinality(CallersIn(s.thd[t].stack)) <= Len(s.thd[t].calls) + k
<1>1. /\ t \in Thread /\ IsThread(s.thd[t]) /\ IsStack(s.thd[t].stack) /\ Fine(t, s.thd[t])
      /\ s.thd[t].state = "ready" /\ DOMAIN s = Parts /\ DOMAIN s.thd = Thread
      /\ IsList(s.thd[t].calls) /\ Typed(s)
      /\ Cardinality(CallersIn(s.thd[t].stack)) <= Len(s.thd[t].calls) + k
  BY DEF Good, Sound, Typed, IsThread, Covered
<1>2. DOMAIN s.thd[t].stack # {} /\ s.thd[t].loops \in Int  BY <1>1 DEF Fine
<1>3. Len(s.thd[t].calls) \in Nat  BY <1>1, ListOf DEF IsList
<1>. QED  BY <1>1, <1>2, <1>3, StackLen, LoopsFinite

(* The stack, the calls and the loops of the thread that reads.            *)
Replaces(s, t, z, q, c, l) ==
  /\ DOMAIN z = Parts /\ DOMAIN z.thd = Thread
  /\ \A u \in Thread : u # t => z.thd[u] = s.thd[u]
  /\ DOMAIN z.thd[t] = Fields /\ z.thd[t].stack = q /\ z.thd[t].loops = l /\ z.thd[t].calls = c
  /\ z.thd[t].state = "ready" /\ z.thd[t].parent = s.thd[t].parent
  /\ z.thd[t].waited = s.thd[t].waited
  /\ IsStack(q) /\ DOMAIN q # {} /\ (\A i \in DOMAIN q : q[i].type \in Types) /\ Ground(q)
  /\ IsList(c)
LEMMA Replaced ==
  ASSUME NEW s, NEW t, NEW n \in Int, NEW k \in Int, Good(s, t, n, k),
         NEW z, NEW q, NEW c, NEW l \in Int, Replaces(s, t, z, q, c, l),
         NEW m \in Int,
         l + m - Cardinality(LoopsIn(q)) = s.thd[t].loops + n - Cardinality(LoopsIn(s.thd[t].stack)),
         NEW j \in Int, Cardinality(CallersIn(q)) <= Len(c) + j
  PROVE  Good(z, t, m, j)
<1>. DEFINE h == z.thd[t]
<1>1. t \in Thread /\ Fine(t, s.thd[t])  BY GoodThread
<1>2. \A u \in Thread : z.thd[u] = IF u = t THEN h ELSE s.thd[u]  BY DEF Replaces
<1>3. IsThread(h)  BY DEF IsThread, Replaces
<1>4. Fine(t, h)  BY <1>1 DEF Fine, Replaces
<1>5. /\ h.state = "ready" /\ h.waited = s.thd[t].waited /\ h.parent = s.thd[t].parent
      /\ h.loops + m - Cardinality(LoopsIn(h.stack)) =
           s.thd[t].loops + n - Cardinality(LoopsIn(s.thd[t].stack))
      /\ Cardinality(CallersIn(h.stack)) <= Len(h.calls) + j
  BY DEF Replaces
<1>6. DOMAIN z = Parts /\ DOMAIN z.thd = Thread  BY DEF Replaces
<1>. HIDE DEF h
<1>. QED  BY <1>2, <1>3, <1>4, <1>5, <1>6, OneChanged

LEMMA GoodPush ==
  ASSUME NEW s, NEW t, NEW n \in Int, NEW k \in Int, Good(s, t, n, k),
         NEW e, IsElement(e), e.type \in Types \ {"eof", "bot", "eot"}
  PROVE  /\ Good(Push(s, t, e), t, n + One(e.type), k + Caller(e))
         /\ Push(s, t, e).thd[t].loops = s.thd[t].loops
<1>. DEFINE z == Push(s, t, e)
            h == s.thd[t]
            p == h.stack
            q == Append(p, e)
<1>1. /\ t \in Thread /\ IsThread(h) /\ IsStack(p) /\ Fine(t, h)
      /\ h.state = "ready" /\ h.loops \in Int /\ IsList(h.calls)
      /\ DOMAIN p # {} /\ Len(p) \in Nat \ {0} /\ DOMAIN p = 1..Len(p)
      /\ DOMAIN s = Parts /\ DOMAIN s.thd = Thread
  BY GoodThread
<1>2. /\ DOMAIN z = Parts /\ DOMAIN z.thd = Thread
      /\ \A u \in Thread : z.thd[u] = IF u = t THEN [h EXCEPT !.stack = q] ELSE s.thd[u]
  BY <1>1 DEF Push, Parts
<1>3. /\ DOMAIN z.thd[t] = Fields /\ z.thd[t].stack = q /\ z.thd[t].loops = h.loops
      /\ z.thd[t].calls = h.calls
      /\ z.thd[t].state = "ready" /\ z.thd[t].parent = h.parent
      /\ z.thd[t].waited = h.waited
  <2>. HIDE DEF z, q
  <2>. QED  BY <1>1, <1>2 DEF IsThread, Fields
<1>4. /\ IsStack(q) /\ DOMAIN q = 1..(Len(p) + 1) /\ (\A i \in DOMAIN p : q[i] = p[i])
      /\ q[Len(p) + 1] = e /\ Cardinality(LoopsIn(q)) = Cardinality(LoopsIn(p)) + One(e.type)
      /\ Cardinality(CallersIn(q)) = Cardinality(CallersIn(p)) + Caller(e)
  BY <1>1, AppendStack
<1>. HIDE DEF z, q
<1>5. /\ \A i \in DOMAIN q : i \in DOMAIN p \/ i = Len(p) + 1
      /\ \A i, j \in DOMAIN q : i < j /\ j \in DOMAIN p => i \in DOMAIN p
      /\ 1 \in DOMAIN q /\ 1 \in DOMAIN p
  BY <1>1, <1>4
<1>6. (\A i \in DOMAIN p : p[i].type \in Types) /\ Ground(p)  BY <1>1 DEF Fine
<1>7. \A i \in DOMAIN q : q[i].type \in Types  BY <1>4, <1>5, <1>6
<1>8. Ground(q)
  <2>. HIDE DEF p
  <2>. QED  BY <1>4, <1>5, <1>6 DEF Ground
<1>9. Replaces(s, t, z, q, h.calls, h.loops)
  BY <1>1, <1>2, <1>3, <1>4, <1>5, <1>7, <1>8 DEF Replaces
<1>10. Good(z, t, n + One(e.type), k + Caller(e))
  <2>. DEFINE a == Cardinality(LoopsIn(p))
              b == Cardinality(CallersIn(p))
              m == n + One(e.type)
              j == k + Caller(e)
              len == Len(h.calls)
  <2>1. a \in Int /\ b \in Int /\ h.loops \in Int /\ len \in Int /\ b <= len + k
    BY GoodThread
  <2>2. One(e.type) \in Int /\ Caller(e) \in Int  BY DEF One, Caller
  <2>3. Cardinality(LoopsIn(q)) = a + One(e.type) /\ Cardinality(CallersIn(q)) = b + Caller(e)
    BY <1>4
  <2>. HIDE DEF a, b, len, h
  <2>4. m \in Int /\ j \in Int  BY <2>2
  <2>5. h.loops + m - Cardinality(LoopsIn(q)) = h.loops + n - a  BY <2>1, <2>2, <2>3
  <2>6. Cardinality(CallersIn(q)) <= len + j  BY <2>1, <2>2, <2>3
  <2>. HIDE DEF m, j
  <2>7. h.loops + m - Cardinality(LoopsIn(q)) =
          s.thd[t].loops + n - Cardinality(LoopsIn(s.thd[t].stack))
    BY <2>5 DEF h, a
  <2>8. Cardinality(CallersIn(q)) <= Len(h.calls) + j  BY <2>6 DEF len
  <2>9. Good(z, t, m, j)  BY <1>9, <2>1, <2>4, <2>7, <2>8, Replaced
  <2>. QED  BY <2>9 DEF m, j
<1>. QED  BY <1>3, <1>10 DEF z

LEMMA GoodPop ==
  ASSUME NEW s, NEW t, NEW n \in Int, NEW k \in Int, Good(s, t, n, k), TopType(s.thd[t]) # "eof"
  PROVE  /\ Good(Pop(s, t), t, n - One(TopType(s.thd[t])), k - Caller(TopOf(s.thd[t])))
         /\ Pop(s, t).thd[t].loops = s.thd[t].loops /\ Pop(s, t).thd[t].calls = s.thd[t].calls
         /\ CallersIn(Pop(s, t).thd[t].stack) \subseteq
              {i \in CallersIn(s.thd[t].stack) : i < Len(s.thd[t].stack)}
<1>. DEFINE z == Pop(s, t)
            h == s.thd[t]
            p == h.stack
            q == Front(p)
            e == TopOf(h)
<1>1. /\ t \in Thread /\ IsThread(h) /\ IsStack(p) /\ Fine(t, h)
      /\ h.state = "ready" /\ h.loops \in Int /\ IsList(h.calls)
      /\ DOMAIN p # {} /\ Len(p) \in Nat \ {0} /\ DOMAIN p = 1..Len(p)
      /\ DOMAIN s = Parts /\ DOMAIN s.thd = Thread
  BY GoodThread
<1>2. /\ DOMAIN z = Parts /\ DOMAIN z.thd = Thread
      /\ \A u \in Thread : z.thd[u] = IF u = t THEN [h EXCEPT !.stack = q] ELSE s.thd[u]
  BY <1>1 DEF Pop, Parts
<1>3. /\ DOMAIN z.thd[t] = Fields /\ z.thd[t].stack = q /\ z.thd[t].loops = h.loops
      /\ z.thd[t].calls = h.calls
      /\ z.thd[t].state = "ready" /\ z.thd[t].parent = h.parent
      /\ z.thd[t].waited = h.waited
  <2>. HIDE DEF z, q
  <2>. QED  BY <1>1, <1>2 DEF IsThread, Fields
<1>4. /\ IsStack(q) /\ DOMAIN q = 1..(Len(p) - 1) /\ (\A i \in DOMAIN q : q[i] = p[i])
      /\ Cardinality(LoopsIn(p)) = Cardinality(LoopsIn(q)) + One(e.type)
      /\ Cardinality(CallersIn(p)) = Cardinality(CallersIn(q)) + Caller(e)
      /\ Cardinality(LoopsIn(q)) \in Nat /\ Cardinality(CallersIn(q)) \in Nat
  <2>1. e = p[Len(p)]  BY DEF TopOf
  <2>. HIDE DEF e, p
  <2>. QED  BY <1>1, <2>1, FrontStack, LoopsFinite DEF q
<1>. HIDE DEF z, q
<1>5. (\A i \in DOMAIN p : p[i].type \in Types) /\ Ground(p)  BY <1>1 DEF Fine
<1>6. Len(p) # 1 /\ 1 \in DOMAIN p
  <2>1. p[1].type = "eof"  BY <1>1, <1>5 DEF Ground
  <2>. QED  BY <1>1, <2>1 DEF TopType, TopOf
<1>7. 1 \in DOMAIN q /\ \A i \in DOMAIN q : i \in DOMAIN p /\ i < Len(p)
  <2>. HIDE DEF p
  <2>1. Len(p) \in Nat \ {0} /\ DOMAIN p = 1..Len(p) /\ DOMAIN q = 1..(Len(p) - 1)  BY <1>1, <1>4
  <2>. QED  BY <1>6, <2>1
<1>8. (\A i \in DOMAIN q : q[i].type \in Types) /\ Ground(q)
  <2>. HIDE DEF p
  <2>. QED  BY <1>4, <1>5, <1>7 DEF Ground
<1>9. Replaces(s, t, z, q, h.calls, h.loops)
  BY <1>1, <1>2, <1>3, <1>4, <1>7, <1>8 DEF Replaces
<1>10. Good(z, t, n - One(e.type), k - Caller(e))
  <2>. DEFINE a == Cardinality(LoopsIn(p))
              b == Cardinality(CallersIn(p))
              m == n - One(e.type)
              j == k - Caller(e)
              len == Len(h.calls)
  <2>1. a \in Int /\ b \in Int /\ h.loops \in Int /\ len \in Int /\ b <= len + k
    BY GoodThread
  <2>2. One(e.type) \in Int /\ Caller(e) \in Int  BY DEF One, Caller
  <2>3. a = Cardinality(LoopsIn(q)) + One(e.type) /\ b = Cardinality(CallersIn(q)) + Caller(e)
        /\ Cardinality(LoopsIn(q)) \in Nat /\ Cardinality(CallersIn(q)) \in Nat
    BY <1>4
  <2>. HIDE DEF a, b, len, h
  <2>4. m \in Int /\ j \in Int  BY <2>2
  <2>5. h.loops + m - Cardinality(LoopsIn(q)) = h.loops + n - a  BY <2>1, <2>2, <2>3
  <2>6. Cardinality(CallersIn(q)) <= len + j  BY <2>1, <2>2, <2>3
  <2>. HIDE DEF m, j
  <2>7. h.loops + m - Cardinality(LoopsIn(q)) =
          s.thd[t].loops + n - Cardinality(LoopsIn(s.thd[t].stack))
    BY <2>5 DEF h, a
  <2>8. Cardinality(CallersIn(q)) <= Len(h.calls) + j  BY <2>6 DEF len
  <2>9. Good(z, t, m, j)  BY <1>9, <2>1, <2>4, <2>7, <2>8, Replaced
  <2>. QED  BY <2>9 DEF m, j
<1>11. CallersIn(q) \subseteq {i \in CallersIn(p) : i < Len(p)}
  <2>. HIDE DEF p
  <2>. QED  BY <1>4, <1>7 DEF CallersIn
<1>. QED  BY <1>3, <1>10, <1>11 DEF z, TopType

WithLoops(s, t, l) == [s EXCEPT !.thd[t].loops = l]
LEMMA GoodLoops ==
  ASSUME NEW s, NEW t, NEW n \in Int, NEW k \in Int, Good(s, t, n, k), NEW l \in Int,
         NEW m \in Int, m + l = n + s.thd[t].loops
  PROVE  Good(WithLoops(s, t, l), t, m, k) /\ WithLoops(s, t, l).thd[t].loops = l
<1>. DEFINE z == WithLoops(s, t, l)
            h == s.thd[t]
            p == h.stack
<1>1. /\ t \in Thread /\ IsThread(h) /\ IsStack(p) /\ Fine(t, h)
      /\ h.state = "ready" /\ h.loops \in Int /\ IsList(h.calls)
      /\ DOMAIN p # {} /\ DOMAIN s = Parts /\ DOMAIN s.thd = Thread
      /\ Cardinality(LoopsIn(p)) \in Nat
      /\ Cardinality(CallersIn(p)) <= Len(h.calls) + k
  BY GoodThread
<1>2. /\ DOMAIN z = Parts /\ DOMAIN z.thd = Thread
      /\ \A u \in Thread : z.thd[u] = IF u = t THEN [h EXCEPT !.loops = l] ELSE s.thd[u]
  BY <1>1 DEF Parts, WithLoops
<1>3. /\ DOMAIN z.thd[t] = Fields /\ z.thd[t].stack = p /\ z.thd[t].loops = l
      /\ z.thd[t].calls = h.calls
      /\ z.thd[t].state = "ready" /\ z.thd[t].parent = h.parent
      /\ z.thd[t].waited = h.waited
  BY <1>1, <1>2 DEF IsThread, Fields
<1>4. (\A i \in DOMAIN p : p[i].type \in Types) /\ Ground(p)  BY <1>1 DEF Fine
<1>5. l + m - Cardinality(LoopsIn(p)) = h.loops + n - Cardinality(LoopsIn(p))
  <2>. DEFINE c == Cardinality(LoopsIn(p))
              a == h.loops
  <2>1. c \in Int /\ a \in Int /\ m + l = n + a  BY <1>1
  <2>. HIDE DEF a, c
  <2>2. l + m - c = a + n - c  BY <2>1, Z3
  <2>. QED  BY <2>2 DEF a, c
<1>. HIDE DEF z
<1>6. Replaces(s, t, z, p, h.calls, l)
  BY <1>1, <1>2, <1>3, <1>4 DEF Replaces
<1>7. Good(z, t, m, k)  BY <1>1, <1>5, <1>6, Replaced
<1>. QED  BY <1>3, <1>7 DEF z

(* Other calls.                                                            *)
WithCalls(s, t, c) == [s EXCEPT !.thd[t].calls = c]
LEMMA GoodCalls ==
  ASSUME NEW s, NEW t, NEW n \in Int, NEW k \in Int, Good(s, t, n, k), NEW c, IsList(c),
         NEW j \in Int, Cardinality(CallersIn(s.thd[t].stack)) <= Len(c) + j
  PROVE  /\ Good(WithCalls(s, t, c), t, n, j)
         /\ WithCalls(s, t, c).thd[t].loops = s.thd[t].loops
         /\ WithCalls(s, t, c).thd[t].stack = s.thd[t].stack
<1>. DEFINE z == WithCalls(s, t, c)
            h == s.thd[t]
            p == h.stack
<1>1. /\ t \in Thread /\ IsThread(h) /\ IsStack(p) /\ Fine(t, h)
      /\ h.state = "ready" /\ h.loops \in Int
      /\ DOMAIN p # {} /\ DOMAIN s = Parts /\ DOMAIN s.thd = Thread
  BY GoodThread
<1>2. /\ DOMAIN z = Parts /\ DOMAIN z.thd = Thread
      /\ \A u \in Thread : z.thd[u] = IF u = t THEN [h EXCEPT !.calls = c] ELSE s.thd[u]
  BY <1>1 DEF Parts, WithCalls
<1>3. /\ DOMAIN z.thd[t] = Fields /\ z.thd[t].stack = p /\ z.thd[t].loops = h.loops
      /\ z.thd[t].calls = c
      /\ z.thd[t].state = "ready" /\ z.thd[t].parent = h.parent
      /\ z.thd[t].waited = h.waited
  BY <1>1, <1>2 DEF IsThread, Fields
<1>4. (\A i \in DOMAIN p : p[i].type \in Types) /\ Ground(p)  BY <1>1 DEF Fine
<1>5. h.loops + n - Cardinality(LoopsIn(p)) = h.loops + n - Cardinality(LoopsIn(p))  OBVIOUS
<1>. HIDE DEF z
<1>6. Replaces(s, t, z, p, c, h.loops)
  BY <1>1, <1>2, <1>3, <1>4 DEF Replaces
<1>7. Good(z, t, n, j)  BY <1>1, <1>5, <1>6, Replaced
<1>. QED  BY <1>3, <1>7 DEF z

-----------------------------------------------------------------------------
(* What the operations leave owed.                                         *)
Owned(s, t, a, c) == pushbk_tklist(s, t, a, c, TRUE)
Listed(s, t, a, c) == pushbk_tklist(s, t, a, c, FALSE)

(* Whatever an operation does to the dictionary at the end.                *)
LEMMA RestGood ==
  ASSUME NEW s, NEW t, NEW n, NEW k, Good(s, t, n, k), NEW z, DOMAIN z = DOMAIN s, z.thd = s.thd
  PROVE  Good(z, t, n, k)
<1>1. Typed(s)  BY DEF Good, Sound
<1>2. Frame(s, z)  BY <1>1, FrameRest DEF Typed
<1>. QED  BY <1>2, FrameGood

LEMMA GoodElement ==
  ASSUME NEW s, NEW t, NEW n \in Int, NEW k \in Int, Good(s, t, n, k), NEW e, IsElement(e),
         e.type \in {"tokens", "strong"}, NEW j, j = k + Caller(e)
  PROVE  Good(Push(s, t, e), t, n, j) /\ Push(s, t, e).thd[t].loops = s.thd[t].loops
<1>1. e.type \in Types \ {"eof", "bot", "eot"} /\ n + One(e.type) = n  BY DEF Types, One
<1>2. Good(Push(s, t, e), t, n + One(e.type), k + Caller(e))
      /\ Push(s, t, e).thd[t].loops = s.thd[t].loops
  BY <1>1, GoodPush
<1>. QED  BY <1>1, <1>2

LEMMA GoodOwn ==
  ASSUME NEW s, NEW t, NEW n \in Int, NEW k \in Int, Good(s, t, n, k), NEW a
  PROVE  /\ Good(Owned(s, t, a, NULL), t, n, k)
         /\ Owned(s, t, a, NULL).thd[t].loops = s.thd[t].loops
<1>. DEFINE e == Tokens(s, a, NULL, TRUE)
<1>1. IsElement(e) /\ e.type = "tokens" /\ Caller(e) = 0
  BY DEF Tokens, IsElement, Caller, IsCaller
<1>2. Owned(s, t, a, NULL) = Push(s, t, e)  BY DEF pushbk_tklist, Owned
<1>. HIDE DEF e
<1>. QED  BY <1>1, <1>2, GoodElement

LEMMA GoodTokens ==
  ASSUME NEW s, NEW t, NEW n \in Int, NEW k \in Int, Good(s, t, n, k), NEW a, NEW c,
         NEW j, j = k + IF c = NULL THEN 0 ELSE 1
  PROVE  /\ Good(Listed(s, t, a, c), t, n, j)
         /\ Listed(s, t, a, c).thd[t].loops = s.thd[t].loops
<1>. DEFINE e == Tokens(s, a, c, FALSE)
            z == Push(s, t, e)
            y == [z EXCEPT !.atl = <<<<t, Len(s.thd[t].stack) + 1>>>> \o @]
<1>1. IsElement(e) /\ e.type = "tokens" /\ Caller(e) = IF c = NULL THEN 0 ELSE 1
  BY DEF Tokens, IsElement, Caller, IsCaller
<1>2. Listed(s, t, a, c) = y  BY DEF pushbk_tklist, Listed
<1>. HIDE DEF e
<1>3. Good(z, t, n, j) /\ z.thd[t].loops = s.thd[t].loops  BY <1>1, GoodElement
<1>. HIDE DEF z
<1>4. Good(y, t, n, j) /\ y.thd[t].loops = s.thd[t].loops
  <2>1. DOMAIN z = Parts  BY <1>3 DEF Good, Sound, Typed
  <2>2. DOMAIN y = DOMAIN z /\ y.thd = z.thd  BY <2>1 DEF Parts
  <2>. HIDE DEF y
  <2>. QED  BY <1>3, <2>2, RestGood
<1>. QED  BY <1>2, <1>4

LEMMA GoodObject ==
  ASSUME NEW s, NEW t, NEW n \in Int, NEW k \in Int, Good(s, t, n, k), NEW o
  PROVE  /\ Good(pushbk_object(s, t, o), t, n, k)
         /\ pushbk_object(s, t, o).thd[t].loops = s.thd[t].loops
<1>. DEFINE e == [type |-> "strong", list |-> o.list]
<1>0. k = k + 0  OBVIOUS
<1>1. \/ pushbk_object(s, t, o) = Listed(s, t, o.list, NULL)
      \/ pushbk_object(s, t, o) = Push(s, t, e)
      \/ pushbk_object(s, t, o) = s
  BY DEF pushbk_object, Listed
<1>2. /\ Good(Listed(s, t, o.list, NULL), t, n, k)
      /\ Listed(s, t, o.list, NULL).thd[t].loops = s.thd[t].loops
  BY <1>0, GoodTokens
<1>3. Good(Push(s, t, e), t, n, k) /\ Push(s, t, e).thd[t].loops = s.thd[t].loops
  <2>1. IsElement(e) /\ e.type = "strong" /\ k = k + Caller(e)
    BY DEF IsElement, Caller, IsCaller
  <2>. HIDE DEF e
  <2>. QED  BY <2>1, GoodElement
<1>. QED  BY <1>1, <1>2, <1>3

(* The end of a macro takes its call away before its tokens.               *)
LEMMA GoodMacro ==
  ASSUME NEW s, NEW t, NEW n \in Int, Good(s, t, n, 0), IsCaller(TopOf(s.thd[t]))
  PROVE  LET z == end_of_macro(s, t)
         IN /\ Good(z, t, n, 1) /\ z.thd[t].loops = s.thd[t].loops
            /\ TopType(z.thd[t]) = TopType(s.thd[t]) /\ IsCaller(TopOf(z.thd[t]))
<1>. DEFINE h == s.thd[t]
            p == h.stack
            calls == h.calls
            c == Head(calls)
            z == WithCalls(s, t, Tail(calls))
<1>1. /\ DOMAIN p # {} /\ IsStack(p) /\ IsList(calls) /\ Len(calls) \in Nat
      /\ Cardinality(CallersIn(p)) \in Nat /\ Cardinality(CallersIn(p)) <= Len(calls) + 0
  BY GoodThread
<1>2. Cardinality(CallersIn(p)) = Cardinality(CallersIn(Front(p))) + 1
      /\ Cardinality(CallersIn(Front(p))) \in Nat
  <2>1. Caller(p[Len(p)]) = 1  BY DEF TopOf, Caller
  <2>2. /\ Cardinality(CallersIn(p)) = Cardinality(CallersIn(Front(p))) + Caller(p[Len(p)])
        /\ IsStack(Front(p))
    BY <1>1, FrontStack
  <2>. QED  BY <2>1, <2>2, LoopsFinite
<1>3. Len(calls) # 0  BY <1>1, <1>2
<1>4. calls # <<>>  BY <1>3, ListEmpty
<1>5. IsList(Tail(calls)) /\ Len(Tail(calls)) = Len(calls) - 1  BY <1>1, <1>4, ListTail
<1>6. Cardinality(CallersIn(p)) <= Len(Tail(calls)) + 1
  <2>. DEFINE a == Cardinality(CallersIn(p))
              b == Len(calls)
  <2>1. a \in Int /\ b \in Int /\ a <= b + 0  BY <1>1
  <2>. HIDE DEF a, b
  <2>2. a <= (b - 1) + 1  BY <2>1
  <2>. QED  BY <1>5, <2>2 DEF a, b
<1>7. /\ Good(z, t, n, 1) /\ z.thd[t].loops = h.loops /\ z.thd[t].stack = p
  <2>. DEFINE d == Tail(calls)
  <2>1. IsList(d) /\ Cardinality(CallersIn(s.thd[t].stack)) <= Len(d) + 1  BY <1>5, <1>6
  <2>. HIDE DEF d, calls
  <2>2. /\ Good(WithCalls(s, t, d), t, n, 1)
        /\ WithCalls(s, t, d).thd[t].loops = s.thd[t].loops
        /\ WithCalls(s, t, d).thd[t].stack = s.thd[t].stack
    BY <2>1, GoodCalls
  <2>. QED  BY <2>2 DEF d
<1>8. end_of_macro(s, t) = delete_mc(z, c)
  <2>1. z = [s EXCEPT !.thd[t].calls = Tail(@)]
    <3>1. DOMAIN s = Parts /\ DOMAIN s.thd = Thread /\ t \in Thread /\ DOMAIN h = Fields
      BY GoodThread DEF IsThread
    <3>. QED  BY <3>1 DEF Parts, Fields, WithCalls
  <2>. HIDE DEF z
  <2>. QED  BY <2>1, Zenon DEF end_of_macro
<1>. HIDE DEF z
<1>9. Typed(z) /\ TopOf(z.thd[t]) = TopOf(h)  BY <1>7 DEF Good, Sound, TopOf
<1>. HIDE DEF c
<1>10. Frame(z, delete_mc(z, c))  BY <1>9, McFrame
<1>11. /\ Good(delete_mc(z, c), t, n, 1) /\ delete_mc(z, c).thd[t].loops = z.thd[t].loops
       /\ TopType(delete_mc(z, c).thd[t]) = TopType(z.thd[t])
       /\ IsCaller(TopOf(delete_mc(z, c).thd[t])) <=> IsCaller(TopOf(z.thd[t]))
  BY <1>7, <1>10, FrameGood
<1>. QED  BY <1>7, <1>8, <1>9, <1>11 DEF TopType

LEMMA GoodExhausted ==
  ASSUME NEW s, NEW t, NEW n \in Int, Good(s, t, n, 0), TopType(s.thd[t]) = "tokens"
  PROVE  Good(Exhausted(s, t), t, n, 0) /\ Exhausted(s, t).thd[t].loops = s.thd[t].loops
<1>. DEFINE e == Last(s.thd[t].stack)
            k == <<t, Len(s.thd[t].stack)>>
            ended == IF e.call # NULL THEN end_of_macro(s, t) ELSE s
            left == [ended EXCEPT !.atl = SelectSeq(@, LAMBDA p : p # k)]
            now == Last(left.thd[t].stack)
            freed == IF now.free THEN free_tklist(left, now.list) ELSE left
            c == Caller(TopOf(s.thd[t]))
<1>1. Exhausted(s, t) = Pop(freed, t)  BY Zenon DEF Exhausted
<1>2. e = TopOf(s.thd[t]) /\ e.type = "tokens"
  <2>1. IsStack(s.thd[t].stack) /\ DOMAIN s.thd[t].stack # {}  BY GoodThread
  <2>. QED  BY <2>1, FrontStack DEF TopOf, TopType
<1>3. /\ Good(ended, t, n, c) /\ ended.thd[t].loops = s.thd[t].loops
      /\ TopType(ended.thd[t]) = "tokens"
      /\ IsCaller(TopOf(ended.thd[t])) <=> IsCaller(TopOf(s.thd[t]))
  <2>1. CASE e.call # NULL
    <3>1. IsCaller(TopOf(s.thd[t])) /\ c = 1  BY <1>2, <2>1 DEF IsCaller, Caller
    <3>. QED  BY <2>1, <3>1, GoodMacro
  <2>2. CASE e.call = NULL
    <3>1. c = 0 /\ ended = s  BY <1>2, <2>2 DEF IsCaller, Caller
    <3>. QED  BY <3>1
  <2>. QED  BY <2>1, <2>2
<1>4. c \in {0, 1}  BY DEF Caller
<1>. HIDE DEF ended, c
<1>5. Frame(ended, left)
  <2>1. Typed(ended) /\ DOMAIN ended = Parts  BY <1>3 DEF Good, Sound, Typed
  <2>2. DOMAIN left = Parts /\ left.thd = ended.thd  BY <2>1 DEF Parts
  <2>. HIDE DEF left
  <2>. QED  BY <2>1, <2>2, FrameRest
<1>. HIDE DEF left
<1>6. Frame(ended, freed)
  <2>1. Typed(left)  BY <1>5 DEF Frame
  <2>2. Frame(left, free_tklist(left, now.list)) /\ Frame(left, left)
    BY <2>1, FreeFrame, FrameSelf
  <2>. QED  BY <1>5, <2>2, FrameTrans
<1>. HIDE DEF freed
<1>7. /\ Good(freed, t, n, c) /\ freed.thd[t].loops = s.thd[t].loops
      /\ TopType(freed.thd[t]) = "tokens"
      /\ IsCaller(TopOf(freed.thd[t])) <=> IsCaller(TopOf(s.thd[t]))
  <2>1. Good(ended, t, n, c)  BY <1>3
  <2>2. /\ Good(freed, t, n, c) /\ freed.thd[t].loops = ended.thd[t].loops
        /\ TopType(freed.thd[t]) = TopType(ended.thd[t])
        /\ IsCaller(TopOf(freed.thd[t])) <=> IsCaller(TopOf(ended.thd[t]))
    BY <1>6, <2>1, FrameGood
  <2>. QED  BY <1>3, <2>2
<1>8. /\ Good(Pop(freed, t), t, n - One(TopType(freed.thd[t])), c - Caller(TopOf(freed.thd[t])))
      /\ Pop(freed, t).thd[t].loops = freed.thd[t].loops
  BY <1>4, <1>7, GoodPop
<1>9. n - One(TopType(freed.thd[t])) = n /\ c - Caller(TopOf(freed.thd[t])) = 0
  BY <1>7 DEF One, c, Caller
<1>. QED  BY <1>1, <1>7, <1>8, <1>9

LEMMA GoodEnded ==
  ASSUME NEW s, NEW n \in Int, NEW k \in Int, Good(s, cur, n, k), NEW e
  PROVE  Good(Ended(s, e), cur, n + 1, k) /\ Ended(s, e).thd[cur].loops = s.thd[cur].loops - 1
<1>. DEFINE cond == IF e.cond = NULL THEN s ELSE free_tklist(s, e.cond)
            body == free_tklist(cond, e.body)
            l == s.thd[cur].loops - 1
            less == [body EXCEPT !.thd[cur].loops = @ - 1]
            end == [less EXCEPT !.dict[e.var].active = @ - 1]
<1>0. Ended(s, e) = IF e.var = NULL THEN less ELSE end  BY Zenon DEF Ended
<1>1. Typed(s)  BY DEF Good, Sound
<1>2. Frame(s, cond)  BY <1>1, FreeFrame, FrameSelf
<1>. HIDE DEF cond
<1>3. Frame(s, body)
  <2>1. Typed(cond)  BY <1>2 DEF Frame
  <2>. QED  BY <1>2, <2>1, FreeFrame, FrameTrans
<1>. HIDE DEF body
<1>4. Good(body, cur, n, k) /\ body.thd[cur].loops = s.thd[cur].loops /\ s.thd[cur].loops \in Int
  BY <1>3, FrameGood, GoodThread
<1>5. less = WithLoops(body, cur, l)
  <2>1. DOMAIN body = Parts /\ DOMAIN body.thd = Thread /\ cur \in Thread
        /\ DOMAIN body.thd[cur] = Fields
    BY <1>4, GoodThread DEF IsThread
  <2>. QED  BY <1>4, <2>1 DEF Parts, Fields, WithLoops
<1>6. Good(less, cur, n + 1, k) /\ less.thd[cur].loops = l
  <2>. DEFINE m == n + 1
  <2>0. Good(body, cur, n, k)  BY <1>4
  <2>1. l \in Int /\ m \in Int /\ m + l = n + body.thd[cur].loops  BY <1>4
  <2>. HIDE DEF l, m, less, end
  <2>2. Good(WithLoops(body, cur, l), cur, m, k) /\ WithLoops(body, cur, l).thd[cur].loops = l
    BY <2>0, <2>1, GoodLoops
  <2>. QED  BY <1>5, <2>2 DEF m
<1>. HIDE DEF less
<1>7. Good(end, cur, n + 1, k) /\ end.thd[cur].loops = l
  <2>1. DOMAIN less = Parts  BY <1>6 DEF Good, Sound, Typed
  <2>2. DOMAIN end = DOMAIN less /\ end.thd = less.thd  BY <2>1 DEF Parts
  <2>. HIDE DEF end, l
  <2>. QED  BY <1>6, <2>2, RestGood
<1>. HIDE DEF end
<1>. QED  BY <1>0, <1>6, <1>7

(* The loop at the top of a stack ends.                                    *)
LEMMA GoodEnd ==
  ASSUME NEW s, NEW n \in Int, NEW k \in Int, Good(s, cur, n, k),
         TopType(s.thd[cur]) = "loop", NEW e
  PROVE  /\ Good(Ended(Pop(s, cur), e), cur, n, k)
         /\ Ended(Pop(s, cur), e).thd[cur].loops = s.thd[cur].loops - 1
<1>. DEFINE z == Pop(s, cur)
            m == n - One(TopType(s.thd[cur]))
            j == k - Caller(TopOf(s.thd[cur]))
<1>1. Good(z, cur, m, j) /\ z.thd[cur].loops = s.thd[cur].loops  BY GoodPop
<1>2. m \in Int /\ m + 1 = n /\ j = k  BY DEF One, Caller, IsCaller, TopType
<1>. HIDE DEF z, m, j
<1>3. Good(Ended(z, e), cur, m + 1, k) /\ Ended(z, e).thd[cur].loops = z.thd[cur].loops - 1
  BY <1>1, <1>2, GoodEnded
<1>. QED  BY <1>1, <1>2, <1>3 DEF z

LEMMA GoodBegun ==
  ASSUME NEW s, NEW n \in Int, NEW k \in Int, Good(s, cur, n, k), NEW e, IsElement(e), e.type = "loop"
  PROVE  Good(Begun(s, e), cur, n, k) /\ Begun(s, e).thd[cur].loops = s.thd[cur].loops + 1
<1>. DEFINE z == Push(s, cur, e)
            l == z.thd[cur].loops + 1
            y == WithLoops(z, cur, l)
<1>1. Good(z, cur, n + 1, k) /\ z.thd[cur].loops = s.thd[cur].loops
  <2>1. e.type \in Types \ {"eof", "bot", "eot"} /\ n + One(e.type) = n + 1 /\ k + Caller(e) = k
    BY DEF Types, One, Caller, IsCaller
  <2>2. /\ Good(Push(s, cur, e), cur, n + One(e.type), k + Caller(e))
        /\ Push(s, cur, e).thd[cur].loops = s.thd[cur].loops
    BY <2>1, GoodPush
  <2>. QED  BY <2>1, <2>2
<1>. HIDE DEF z
<1>2. Begun(s, e) = Listed(y, cur, e.body, NULL)
  <2>1. y = [z EXCEPT !.thd[cur].loops = @ + 1]
    <3>1. DOMAIN z = Parts /\ DOMAIN z.thd = Thread /\ cur \in Thread
          /\ DOMAIN z.thd[cur] = Fields
      BY <1>1, GoodThread DEF IsThread
    <3>. QED  BY <3>1 DEF Parts, Fields, WithLoops
  <2>. QED  BY <2>1, Zenon DEF Begun, z, Listed
<1>3. Good(y, cur, n, k) /\ y.thd[cur].loops = l
  <2>1. z.thd[cur].loops \in Int  BY <1>1, GoodThread
  <2>. DEFINE m == n + 1
  <2>2. l \in Int /\ m \in Int /\ n + l = m + z.thd[cur].loops  BY <2>1
  <2>3. Good(z, cur, m, k)  BY <1>1
  <2>. HIDE DEF l, m
  <2>. QED  BY <2>2, <2>3, GoodLoops
<1>. HIDE DEF y
<1>4. /\ Good(Listed(y, cur, e.body, NULL), cur, n, k)
      /\ Listed(y, cur, e.body, NULL).thd[cur].loops = y.thd[cur].loops
  <2>1. k = k + 0  OBVIOUS
  <2>. QED  BY <1>3, <2>1, GoodTokens
<1>. QED  BY <1>1, <1>2, <1>3, <1>4

-----------------------------------------------------------------------------
(* The invariant again, after an action.                                   *)
LEMMA StateParts ==
  /\ DOMAIN State = Parts /\ State.thd = thd
  /\ DOMAIN State' = Parts /\ State'.thd = thd'
BY DEF State, Parts

LEMMA LoopsNat ==
  ASSUME NEW s, NEW t, Sound(s, t, 0, 0), NEW u \in Thread
  PROVE  s.thd[u].loops \in Nat
<1>1. /\ s.thd[u].loops + (IF u = t THEN 0 ELSE 0) = Cardinality(LoopsIn(s.thd[u].stack))
           + (IF s.thd[u].waited THEN s.thd[s.thd[u].parent].loops ELSE 0)
      /\ s.thd[u].loops \in Int
      /\ Cardinality(LoopsIn(s.thd[u].stack)) \in Nat
  <2>1. IsStack(s.thd[u].stack)  BY DEF Sound, Typed, IsThread
  <2>. QED  BY <2>1, LoopsFinite DEF Sound, Counted, Fine
<1>2. CASE ~s.thd[u].waited
  <2>. DEFINE c == Cardinality(LoopsIn(s.thd[u].stack))
              l == s.thd[u].loops
  <2>1. l + (IF u = t THEN 0 ELSE 0) = c + 0 /\ l \in Int /\ c \in Nat  BY <1>1, <1>2
  <2>. HIDE DEF c, l
  <2>2. l \in Nat  BY <2>1
  <2>. QED  BY <2>2 DEF l
<1>3. CASE s.thd[u].waited
  <2>. DEFINE v == s.thd[u].parent
              c == Cardinality(LoopsIn(s.thd[v].stack))
              k == s.thd[v].loops
  <2>1. v \in Thread /\ ~s.thd[v].waited  BY <1>3 DEF Sound, Fine
  <2>2. k + (IF v = t THEN 0 ELSE 0) = c + 0 /\ k \in Int /\ c \in Nat
    <3>1. IsStack(s.thd[v].stack)  BY <2>1 DEF Sound, Typed, IsThread
    <3>2. c \in Nat  BY <3>1, LoopsFinite
    <3>. QED  BY <2>1, <3>2 DEF Sound, Counted, Fine
  <2>3. k \in Nat
    <3>. HIDE DEF c, k
    <3>. QED  BY <2>2
  <2>. DEFINE l == s.thd[u].loops
              b == Cardinality(LoopsIn(s.thd[u].stack))
  <2>4. l + (IF u = t THEN 0 ELSE 0) = b + k /\ l \in Int /\ b \in Nat  BY <1>1, <1>3
  <2>. HIDE DEF b, k, l
  <2>5. l \in Nat  BY <2>3, <2>4
  <2>. QED  BY <2>5 DEF l
<1>. QED  BY <1>2, <1>3

LEMMA SoundNext ==
  ASSUME NEW z, NEW t, Sound(z, t, 0, 0), Becomes(z)
  PROVE  Sound(State', NULL, 0, 0)
<1>1. thd' = z.thd /\ DOMAIN z = Parts  BY DEF Becomes, Sound, Typed
<1>2. Typed(State')  BY <1>1, StateParts DEF Sound, Typed
<1>3. Counted(State'.thd, NULL, 0)  BY <1>1, StateParts DEF Sound, Counted
<1>4. Covered(State'.thd, NULL, 0)  BY <1>1, StateParts DEF Sound, Covered
<1>. QED  BY <1>1, <1>2, <1>3, <1>4, StateParts DEF Sound

LEMMA InvGoes ==
  ASSUME NEW z, NEW t, Good(z, t, 0, 0), Becomes(z), cur' = t, breaking' \in Nat,
         breaking' <= z.thd[t].loops
  PROVE  MacroInv'
<1>1. Sound(State', NULL, 0, 0)  BY SoundNext DEF Good
<1>2. thd' = z.thd  BY DEF Becomes
<1>3. t \in Thread /\ z.thd[t].state = "ready"  BY DEF Good
<1>. QED  BY <1>1, <1>2, <1>3 DEF MacroInv

LEMMA InvTurn ==
  ASSUME NEW z, NEW t, Sound(z, t, 0, 0), Becomes(z), cur' \in Turn(z), breaking' = 0
  PROVE  MacroInv'
<1>1. Sound(State', NULL, 0, 0)  BY SoundNext
<1>2. thd' = z.thd  BY DEF Becomes
<1>3. cur' # NULL => cur' \in Thread /\ z.thd[cur'].state = "ready"  BY DEF Turn, Ready
<1>4. \A u \in Thread : z.thd[u].loops \in Nat  BY LoopsNat
<1>. QED  BY <1>1, <1>2, <1>3, <1>4 DEF MacroInv

LEMMA Begin ==
  ASSUME MacroInv, Running
  PROVE  /\ Good(State, cur, 0, 0) /\ cur \in Thread /\ breaking \in Nat
         /\ breaking <= thd[cur].loops /\ Typed(State)
         /\ IsStack(thd[cur].stack)
         /\ TopType(State.thd[cur]) = Top.type /\ TopOf(State.thd[cur]) = Top
<1>1. /\ Sound(State, NULL, 0, 0) /\ cur \in Thread /\ thd[cur].state = "ready"
      /\ breaking \in Nat /\ breaking <= thd[cur].loops
  BY DEF MacroInv, Running
<1>2. Good(State, cur, 0, 0)  BY <1>1, StateParts DEF Good, Sound, Counted, Covered
<1>3. IsStack(thd[cur].stack) /\ DOMAIN thd[cur].stack # {}  BY <1>2, GoodThread, StateParts
<1>4. Last(thd[cur].stack) = thd[cur].stack[Len(thd[cur].stack)]  BY <1>3, FrontStack
<1>5. Typed(State)  BY <1>1 DEF Sound
<1>. QED  BY <1>1, <1>2, <1>3, <1>4, <1>5, StateParts DEF Top, TopType, TopOf

LEMMA ZeroGoes ==
  ASSUME MacroInv, Running, breaking = 0, NEW z, Good(z, cur, 0, 0), Goes(z)
  PROVE  MacroInv'
<1>1. z.thd[cur].loops \in Nat  BY LoopsNat DEF Good
<1>2. Becomes(z) /\ cur' = cur /\ breaking' = 0  BY DEF Goes
<1>3. breaking' \in Nat /\ breaking' <= z.thd[cur].loops  BY <1>1, <1>2
<1>. QED  BY <1>2, <1>3, InvGoes

LEMMA InvFails == ASSUME MacroInv, NEW error, Fails(error)  PROVE MacroInv'
<1>1. thd' = thd /\ cur' = cur /\ breaking' = breaking  BY DEF Fails
<1>2. Sound(State', NULL, 0, 0)
  <2>1. Sound(State, NULL, 0, 0)  BY DEF MacroInv
  <2>2. Typed(State')  BY <1>1, <2>1, StateParts DEF Sound, Typed
  <2>. QED  BY <1>1, <2>1, <2>2, StateParts DEF Sound
<1>. QED  BY <1>1, <1>2 DEF MacroInv

LEMMA ReadsFrame == ASSUME MacroInv, Reads  PROVE Frame(State, Advanced)
<1>1. Running /\ Top.type \in {"source", "tokens"}  BY DEF Reads
<1>2. Typed(State)  BY <1>1, Begin
<1>. DEFINE k == Len(thd[cur].stack)
            v == State.thd[cur].stack[k].rest - 1
            z == [State EXCEPT !.thd[cur].stack[k].rest = v]
<1>3. Advanced = IF Top.type = "source" THEN State ELSE z  BY DEF Advanced
<1>4. DOMAIN z = Parts /\ z.thd = Marked(State.thd, cur, k, "rest", v)
  <2>. HIDE DEF k, v
  <2>. QED  BY StateParts DEF Marked, Parts
<1>. HIDE DEF z, k, v
<1>5. "rest" \in Marks  BY DEF Marks
<1>6. Frame(State, z)  BY <1>2, <1>4, <1>5, MarkAlike
<1>. QED  BY <1>2, <1>3, <1>6, FrameSelf

LEMMA ReadsGood ==
  ASSUME MacroInv, Reads
  PROVE  /\ Running /\ breaking = 0 /\ Typed(Advanced)
         /\ Good(Advanced, cur, 0, 0) /\ Advanced.thd[cur].loops = thd[cur].loops
         /\ TopType(Advanced.thd[cur]) \in {"source", "tokens"}
<1>1. Running /\ breaking = 0 /\ Top.type \in {"source", "tokens"}  BY DEF Reads
<1>2. Good(State, cur, 0, 0) /\ Typed(State) /\ TopType(State.thd[cur]) = Top.type  BY <1>1, Begin
<1>3. Frame(State, Advanced)  BY ReadsFrame
<1>4. Typed(Advanced)  BY <1>3 DEF Frame
<1>5. /\ Good(Advanced, cur, 0, 0) /\ Advanced.thd[cur].loops = State.thd[cur].loops
      /\ TopType(Advanced.thd[cur]) = TopType(State.thd[cur])
  BY <1>2, <1>3, FrameGood
<1>. QED  BY <1>1, <1>2, <1>4, <1>5, StateParts

LEMMA ScanGood ==
  ASSUME NEW s, NEW t, Good(s, t, 0, 0), NEW c \in scan_tklist(s)
  PROVE  Good(c.s, t, 0, 0) /\ Typed(c.s)
<1>1. Typed(s)  BY DEF Good, Sound
<1>2. Frame(s, c.s)  BY <1>1, ScanFrame
<1>. QED  BY <1>2, FrameGood DEF Frame

LEMMA GoodPlain ==
  ASSUME NEW s, NEW t, Good(s, t, 0, 0), TopType(s.thd[t]) \notin {"eof", "loop", "tokens"}
  PROVE  Good(Pop(s, t), t, 0, 0) /\ Pop(s, t).thd[t].loops = s.thd[t].loops
<1>1. One(TopType(s.thd[t])) = 0  BY DEF One
<1>2. Caller(TopOf(s.thd[t])) = 0  BY DEF Caller, IsCaller, TopType
<1>3. 0 - One(TopType(s.thd[t])) = 0 /\ 0 - Caller(TopOf(s.thd[t])) = 0  BY <1>1, <1>2
<1>4. /\ Good(Pop(s, t), t, 0 - One(TopType(s.thd[t])), 0 - Caller(TopOf(s.thd[t])))
      /\ Pop(s, t).thd[t].loops = s.thd[t].loops
  BY GoodPop
<1>. QED  BY <1>3, <1>4

-----------------------------------------------------------------------------
(* The actions.                                                            *)
LEMMA NoteInv == ASSUME MacroInv, note  PROVE MacroInv'
<1>1. Reads /\ Becomes(Advanced) /\ cur' \in Turn(Advanced) /\ breaking' = breaking  BY DEF note
<1>2. Good(Advanced, cur, 0, 0) /\ breaking = 0  BY <1>1, ReadsGood
<1>3. Sound(Advanced, cur, 0, 0) /\ breaking' = 0  BY <1>1, <1>2 DEF Good
<1>. QED  BY <1>1, <1>3, InvTurn

LEMMA TokenInv == ASSUME MacroInv, get_token  PROVE MacroInv'
<1>1. /\ Running /\ breaking = 0 /\ Top.type = "tokens"
      /\ Fails("local") \/ Goes(Exhausted(State, cur))
  BY DEF get_token
<1>2. Good(State, cur, 0, 0) /\ TopType(State.thd[cur]) = "tokens"  BY <1>1, Begin
<1>3. Good(Exhausted(State, cur), cur, 0, 0)  BY <1>2, GoodExhausted
<1>. QED  BY <1>1, <1>3, InvFails, ZeroGoes

LEMMA StrongInv == ASSUME MacroInv, strong_token_list  PROVE MacroInv'
<1>. DEFINE z == Pop(State, cur)
            y == Listed(z, cur, Top.list, NULL)
<1>1. Running /\ breaking = 0 /\ Top.type = "strong" /\ Goes(y)
  BY DEF strong_token_list, Listed
<1>2. Good(State, cur, 0, 0) /\ TopType(State.thd[cur]) = "strong"  BY <1>1, Begin
<1>3. Good(z, cur, 0, 0)  BY <1>2, GoodPlain
<1>. HIDE DEF z
<1>4. Good(y, cur, 0, 0)
  <2>1. 0 = 0 + 0  OBVIOUS
  <2>. QED  BY <1>3, <2>1, GoodTokens
<1>. HIDE DEF y
<1>. QED  BY <1>1, <1>4, ZeroGoes

LEMMA SourceInv == ASSUME MacroInv, end_of_source  PROVE MacroInv'
<1>1. Running /\ breaking = 0 /\ Top.type = "source" /\ Goes(Pop(State, cur))
  BY DEF end_of_source
<1>2. Good(State, cur, 0, 0) /\ TopType(State.thd[cur]) = "source"  BY <1>1, Begin
<1>3. Good(Pop(State, cur), cur, 0, 0)  BY <1>2, GoodPlain
<1>. QED  BY <1>1, <1>3, ZeroGoes

LEMMA RedefineGood ==
  ASSUME NEW s, NEW t, Good(s, t, 0, 0), NEW k, NEW o
  PROVE  Good(redefine_macro(s, k, o), t, 0, 0)
<1>1. Typed(s)  BY DEF Good, Sound
<1>2. Frame(s, redefine_macro(s, k, o))  BY <1>1, RedefineFrame
<1>. QED  BY <1>2, FrameGood

LEMMA DefInv == ASSUME MacroInv, do_def  PROVE MacroInv'
<1>1. Reads /\ \E c \in scan_tklist(Advanced) : \E k :
        Goes(redefine_macro(c.s, k, [kind |-> "function", list |-> c.list]))
  BY DEF do_def
<1>2. PICK c \in scan_tklist(Advanced) : \E k :
        Goes(redefine_macro(c.s, k, [kind |-> "function", list |-> c.list]))
  BY <1>1
<1>3. PICK k : Goes(redefine_macro(c.s, k, [kind |-> "function", list |-> c.list]))  BY <1>2
<1>4. Good(Advanced, cur, 0, 0) /\ Running /\ breaking = 0  BY <1>1, ReadsGood
<1>5. Good(c.s, cur, 0, 0)  BY <1>4, ScanGood
<1>. DEFINE o == [kind |-> "function", list |-> c.list]
<1>6. Goes(redefine_macro(c.s, k, o))  BY <1>3
<1>. HIDE DEF o
<1>7. Good(redefine_macro(c.s, k, o), cur, 0, 0)  BY <1>5, RedefineGood
<1>. QED  BY <1>4, <1>6, <1>7, ZeroGoes

LEMMA ObjectsGood ==
  ASSUME NEW s, NEW t, Good(s, t, 0, 0), NEW c \in Objects(s)  PROVE Good(c.s, t, 0, 0)
<1>1. \/ c = [s |-> s, o |-> Integer]
      \/ \E d \in scan_tklist(s) : c = [s |-> d.s, o |-> [kind |-> "strong", list |-> d.list]]
  BY DEF Objects
<1>2. CASE c = [s |-> s, o |-> Integer]
  <2>1. c.s = s  BY <1>2
  <2>. QED  BY <2>1
<1>3. ASSUME NEW d \in scan_tklist(s), c = [s |-> d.s, o |-> [kind |-> "strong", list |-> d.list]]
      PROVE  Good(c.s, t, 0, 0)
  <2>1. c.s = d.s  BY <1>3
  <2>. QED  BY <2>1, ScanGood
<1>. QED  BY <1>1, <1>2, <1>3

LEMMA AssignInv == ASSUME MacroInv, assign  PROVE MacroInv'
<1>1. Reads /\ \E c \in Objects(Advanced) : \E k : Goes(redefine_macro(c.s, k, c.o))
  BY DEF assign
<1>2. PICK c \in Objects(Advanced) : \E k : Goes(redefine_macro(c.s, k, c.o))  BY <1>1
<1>3. PICK k : Goes(redefine_macro(c.s, k, c.o))  BY <1>2
<1>4. Good(Advanced, cur, 0, 0) /\ Running /\ breaking = 0  BY <1>1, ReadsGood
<1>5. Good(c.s, cur, 0, 0)  BY <1>4, ObjectsGood
<1>6. Good(redefine_macro(c.s, k, c.o), cur, 0, 0)  BY <1>5, RedefineGood
<1>. QED  BY <1>3, <1>4, <1>6, ZeroGoes

LEMMA UndefInv == ASSUME MacroInv, do_undef  PROVE MacroInv'
<1>1. Reads /\ \E k : Fails("active") \/ Goes(delete_dict(Advanced, k))  BY DEF do_undef
<1>2. PICK k : Fails("active") \/ Goes(delete_dict(Advanced, k))  BY <1>1
<1>3. Good(Advanced, cur, 0, 0) /\ Running /\ breaking = 0 /\ Typed(Advanced)  BY <1>1, ReadsGood
<1>4. Frame(Advanced, delete_dict(Advanced, k))  BY <1>3, DeleteFrame
<1>5. Good(delete_dict(Advanced, k), cur, 0, 0)  BY <1>3, <1>4, FrameGood
<1>. QED  BY <1>2, <1>3, <1>5, InvFails, ZeroGoes

LEMMA CallInv == ASSUME MacroInv, call  PROVE MacroInv'
<1>1. Reads /\ \E k, c : Goes(Called(Advanced, k, c)) \/ Goes(pushbk_object(Advanced, cur, dict[k]))
  BY DEF call
<1>2. PICK k, c : Goes(Called(Advanced, k, c)) \/ Goes(pushbk_object(Advanced, cur, dict[k]))
  BY <1>1
<1>3. Good(Advanced, cur, 0, 0) /\ Running /\ breaking = 0 /\ Typed(Advanced)  BY <1>1, ReadsGood
<1>4. Good(pushbk_object(Advanced, cur, dict[k]), cur, 0, 0)  BY <1>3, GoodObject
<1>5. Good(Called(Advanced, k, c), cur, 0, 0)
  <2>. DEFINE calls == <<c>> \o Advanced.thd[cur].calls
              z == [Advanced EXCEPT !.refs[c] = 1]
              y == WithCalls(z, cur, calls)
              a == Advanced.dict[k].list
              j == IF c = NULL THEN 0 ELSE -1
  <2>1. Called(Advanced, k, c) = Listed(y, cur, a, c)
    <3>1. y = [Advanced EXCEPT !.refs[c] = 1, !.thd[cur].calls = calls]  BY DEF WithCalls
    <3>. QED  BY <3>1, Zenon DEF Called, Listed
  <2>2. DOMAIN z = DOMAIN Advanced /\ z.thd = Advanced.thd  BY <1>3 DEF Typed, Parts
  <2>. HIDE DEF z
  <2>3. Good(z, cur, 0, 0)  BY <1>3, <2>2, RestGood
  <2>4. /\ IsList(z.thd[cur].calls) /\ Len(z.thd[cur].calls) \in Nat
        /\ Cardinality(CallersIn(z.thd[cur].stack)) \in Nat
        /\ Cardinality(CallersIn(z.thd[cur].stack)) <= Len(z.thd[cur].calls) + 0
    BY <2>3, GoodThread
  <2>5. IsList(calls) /\ Len(calls) = 1 + Len(z.thd[cur].calls)
    <3>1. calls = <<c>> \o z.thd[cur].calls  BY <2>2
    <3>2. IsList(<<c>>) /\ Len(<<c>>) = 1  BY ListOne
    <3>. HIDE DEF calls
    <3>. QED  BY <2>4, <3>1, <3>2, ListJoin
  <2>6. j \in Int /\ 0 = j + IF c = NULL THEN 0 ELSE 1  OBVIOUS
  <2>7. Cardinality(CallersIn(z.thd[cur].stack)) <= Len(calls) + j
    <3>. DEFINE l == Len(calls)
                m == Len(z.thd[cur].calls)
                b == Cardinality(CallersIn(z.thd[cur].stack))
    <3>1. l = 1 + m /\ m \in Nat /\ b \in Nat /\ b <= m + 0  BY <2>4, <2>5
    <3>2. j \in {0, -1}  OBVIOUS
    <3>. HIDE DEF l, m, b, j
    <3>3. b <= l + j  BY <3>1, <3>2
    <3>. QED  BY <3>3 DEF b, l
  <2>. HIDE DEF calls, a, j
  <2>8. Good(y, cur, 0, j)
    <3>1. IsList(calls)  BY <2>5
    <3>. HIDE DEF y
    <3>. QED  BY <2>3, <2>6, <2>7, <3>1, GoodCalls DEF y
  <2>. HIDE DEF y
  <2>9. Good(Listed(y, cur, a, c), cur, 0, 0)  BY <2>6, <2>8, GoodTokens
  <2>. QED  BY <2>1, <2>9
<1>. QED  BY <1>2, <1>3, <1>4, <1>5, ZeroGoes

LEMMA IfInv == ASSUME MacroInv, do_if  PROVE MacroInv'
<1>1. Reads /\ \E c \in scan_tklist(Advanced) : Goes(Owned(c.s, cur, c.list, NULL))
  BY DEF do_if, Owned
<1>2. PICK c \in scan_tklist(Advanced) : Goes(Owned(c.s, cur, c.list, NULL))  BY <1>1
<1>3. Good(Advanced, cur, 0, 0) /\ Running /\ breaking = 0  BY <1>1, ReadsGood
<1>4. Good(c.s, cur, 0, 0)  BY <1>3, ScanGood
<1>5. Good(Owned(c.s, cur, c.list, NULL), cur, 0, 0)  BY <1>4, GoodOwn
<1>. QED  BY <1>2, <1>3, <1>5, ZeroGoes

LEMMA BegunGood ==
  ASSUME NEW s, Good(s, cur, 0, 0), NEW kind, NEW body, NEW cond, NEW var
  PROVE  Good(Begun(s, Loop(kind, body, cond, var)), cur, 0, 0)
<1>. DEFINE e == Loop(kind, body, cond, var)
<1>1. IsElement(e) /\ e.type = "loop"  BY DEF Loop, IsElement
<1>. HIDE DEF e
<1>2. Good(Begun(s, e), cur, 0, 0)  BY <1>1, GoodBegun
<1>. QED  BY <1>2 DEF e

LEMMA WhileInv == ASSUME MacroInv, do_while  PROVE MacroInv'
<1>1. Reads /\ \E c \in scan_tklist(Advanced) : \E d \in scan_tklist(c.s) :
        Goes(Begun(d.s, Loop("while", d.list, c.list, NULL)))
  BY DEF do_while, Begins
<1>2. PICK c \in scan_tklist(Advanced) : \E d \in scan_tklist(c.s) :
        Goes(Begun(d.s, Loop("while", d.list, c.list, NULL)))
  BY <1>1
<1>3. PICK d \in scan_tklist(c.s) : Goes(Begun(d.s, Loop("while", d.list, c.list, NULL)))  BY <1>2
<1>4. Good(Advanced, cur, 0, 0) /\ Running /\ breaking = 0  BY <1>1, ReadsGood
<1>5. Good(c.s, cur, 0, 0)  BY <1>4, ScanGood
<1>6. Good(d.s, cur, 0, 0)  BY <1>5, ScanGood
<1>7. Good(Begun(d.s, Loop("while", d.list, c.list, NULL)), cur, 0, 0)  BY <1>6, BegunGood
<1>. QED  BY <1>3, <1>4, <1>7, ZeroGoes

LEMMA ElementsGood ==
  ASSUME NEW s, NEW t, Good(s, t, 0, 0), NEW kind, NEW k, NEW c \in Elements(s, kind, k)
  PROVE  Good(c.s, t, 0, 0)
<1>1. \/ c = [s |-> s, o |-> Integer]
      \/ \E d \in scan_tklist(s) : c = [s |-> d.s, o |-> [kind |-> "weak", list |-> d.list]]
  BY DEF Elements
<1>2. CASE c = [s |-> s, o |-> Integer]
  <2>1. c.s = s  BY <1>2
  <2>. QED  BY <2>1
<1>3. ASSUME NEW d \in scan_tklist(s), c = [s |-> d.s, o |-> [kind |-> "weak", list |-> d.list]]
      PROVE  Good(c.s, t, 0, 0)
  <2>1. c.s = d.s  BY <1>3
  <2>. QED  BY <2>1, ScanGood
<1>. QED  BY <1>1, <1>2, <1>3

LEMMA ForInv == ASSUME MacroInv, NEW kind, for_or_foreach(kind)  PROVE MacroInv'
<1>1. Reads /\ \E k : \E o \in Elements(Advanced, kind, k) :
        \E c \in scan_tklist([redefine_macro(o.s, k, o.o) EXCEPT !.dict[k].active = @ + 1]) :
          Goes(Begun(c.s, Loop(kind, c.list, NULL, k)))
  BY DEF for_or_foreach, Begins
<1>2. PICK k : \E o \in Elements(Advanced, kind, k) :
        \E c \in scan_tklist([redefine_macro(o.s, k, o.o) EXCEPT !.dict[k].active = @ + 1]) :
          Goes(Begun(c.s, Loop(kind, c.list, NULL, k)))
  BY <1>1
<1>3. PICK o \in Elements(Advanced, kind, k) :
        \E c \in scan_tklist([redefine_macro(o.s, k, o.o) EXCEPT !.dict[k].active = @ + 1]) :
          Goes(Begun(c.s, Loop(kind, c.list, NULL, k)))
  BY <1>2
<1>. DEFINE z == redefine_macro(o.s, k, o.o)
            y == [z EXCEPT !.dict[k].active = @ + 1]
<1>4. PICK c \in scan_tklist(y) : Goes(Begun(c.s, Loop(kind, c.list, NULL, k)))  BY <1>3
<1>5. Good(Advanced, cur, 0, 0) /\ Running /\ breaking = 0  BY <1>1, ReadsGood
<1>6. Good(o.s, cur, 0, 0)  BY <1>5, ElementsGood
<1>7. Good(z, cur, 0, 0)  BY <1>6, RedefineGood
<1>. HIDE DEF z
<1>8. Good(y, cur, 0, 0)
  <2>1. DOMAIN y = DOMAIN z /\ y.thd = z.thd  BY <1>7, GoodThread DEF Parts
  <2>. HIDE DEF y
  <2>. QED  BY <1>7, <2>1, RestGood
<1>. HIDE DEF y
<1>9. Good(c.s, cur, 0, 0)  BY <1>8, ScanGood
<1>10. Good(Begun(c.s, Loop(kind, c.list, NULL, k)), cur, 0, 0)  BY <1>9, BegunGood
<1>. QED  BY <1>4, <1>5, <1>10, ZeroGoes

LEMMA LoopInv ==
  ASSUME MacroInv, Running, breaking = 0, NEW s, Good(s, cur, 0, 0),
         TopType(s.thd[cur]) = "loop", EndOfLoop(s)
  PROVE  MacroInv'
<1>1. \/ Goes(Ended(Pop(s, cur), Top))
      \/ Goes(Listed(s, cur, Top.body, NULL))
  BY DEF EndOfLoop, Listed
<1>2. Good(Ended(Pop(s, cur), Top), cur, 0, 0)  BY GoodEnd
<1>3. Good(Listed(s, cur, Top.body, NULL), cur, 0, 0)
  <2>1. 0 = 0 + 0  OBVIOUS
  <2>. QED  BY <2>1, GoodTokens
<1>. QED  BY <1>1, <1>2, <1>3, ZeroGoes

LEMMA EndWhileInv == ASSUME MacroInv, end_while  PROVE MacroInv'
<1>1. Running /\ breaking = 0 /\ Top.type = "loop" /\ EndOfLoop(State)
  BY DEF end_while, LoopToken
<1>2. Good(State, cur, 0, 0) /\ TopType(State.thd[cur]) = "loop"  BY <1>1, Begin
<1>. QED  BY <1>1, <1>2, LoopInv

LEMMA EndForInv == ASSUME MacroInv, end_for  PROVE MacroInv'
<1>. DEFINE s == Stepped(State, Top.var)
<1>1. Running /\ breaking = 0 /\ Top.type = "loop" /\ EndOfLoop(s)
  BY DEF end_for, LoopToken
<1>2. Good(State, cur, 0, 0) /\ TopType(State.thd[cur]) = "loop"  BY <1>1, Begin
<1>3. DOMAIN s = DOMAIN State /\ s.thd = State.thd  BY StateParts DEF Stepped, Parts
<1>. HIDE DEF s
<1>4. Good(s, cur, 0, 0)  BY <1>2, <1>3, RestGood
<1>. QED  BY <1>1, <1>2, <1>3, <1>4, LoopInv

LEMMA EndForeachInv == ASSUME MacroInv, end_foreach  PROVE MacroInv'
<1>. DEFINE f == free_object(State, dict[Top.var])
            y(o) == [o.s EXCEPT !.dict[Top.var] = Entry(o.o, @.active)]
<1>1. /\ Running /\ breaking = 0 /\ Top.type = "loop"
      /\ \/ Goes(Ended(Pop(State, cur), Top))
         \/ \E o \in Elements(f, "foreach", Top.var) : Goes(Listed(y(o), cur, Top.body, NULL))
  BY DEF end_foreach, LoopToken, Listed
<1>2. Good(State, cur, 0, 0) /\ TopType(State.thd[cur]) = "loop" /\ Typed(State)  BY <1>1, Begin
<1>3. Good(Ended(Pop(State, cur), Top), cur, 0, 0)  BY <1>2, GoodEnd
<1>4. Frame(State, f)  BY <1>2, ObjectFrame
<1>. HIDE DEF f
<1>5. Good(f, cur, 0, 0)  BY <1>2, <1>4, FrameGood
<1>6. ASSUME NEW o \in Elements(f, "foreach", Top.var), Goes(Listed(y(o), cur, Top.body, NULL))
      PROVE  MacroInv'
  <2>1. Good(o.s, cur, 0, 0)  BY <1>5, ElementsGood
  <2>2. DOMAIN y(o) = DOMAIN o.s /\ y(o).thd = o.s.thd  BY <2>1, GoodThread DEF Parts
  <2>. DEFINE z == y(o)
  <2>3. DOMAIN z = DOMAIN o.s /\ z.thd = o.s.thd /\ Goes(Listed(z, cur, Top.body, NULL))
    BY <1>6, <2>2
  <2>. HIDE DEF z
  <2>4. Good(z, cur, 0, 0)  BY <2>1, <2>3, RestGood
  <2>5. Good(Listed(z, cur, Top.body, NULL), cur, 0, 0)
    <3>1. 0 = 0 + 0  OBVIOUS
    <3>. QED  BY <2>4, <3>1, GoodTokens
  <2>. QED  BY <1>1, <2>3, <2>5, ZeroGoes
<1>. QED  BY <1>1, <1>3, <1>6, ZeroGoes

LEMMA BreakInv == ASSUME MacroInv, do_break  PROVE MacroInv'
<1>1. Reads /\ breaking' \in 1..thd[cur].loops /\ Becomes(Advanced) /\ cur' = cur
  BY DEF do_break
<1>2. Good(Advanced, cur, 0, 0) /\ Advanced.thd[cur].loops = thd[cur].loops  BY <1>1, ReadsGood
<1>3. thd[cur].loops \in Nat
  <2>1. Advanced.thd[cur].loops \in Nat  BY <1>2, LoopsNat DEF Good
  <2>. QED  BY <1>2, <2>1
<1>4. breaking' \in Nat /\ breaking' <= Advanced.thd[cur].loops  BY <1>1, <1>2, <1>3
<1>. QED  BY <1>1, <1>2, <1>4, InvGoes

(* What leaves the loops to the break that is being done.                  *)
LEMMA SameGoes ==
  ASSUME MacroInv, Running, NEW z, Good(z, cur, 0, 0), z.thd[cur].loops = thd[cur].loops,
         Becomes(z), cur' = cur, breaking' = breaking
  PROVE  MacroInv'
<1>1. breaking' \in Nat /\ breaking' <= z.thd[cur].loops  BY Begin
<1>. QED  BY <1>1, InvGoes

LEMMA SkipInv == ASSUME MacroInv, skip  PROVE MacroInv'
<1>1. /\ Running /\ breaking > 0 /\ Top.type \notin {"eof", "eot"}
      /\ \/ Fails("local")
         \/ /\ Becomes(Skipped) /\ cur' = cur
            /\ breaking' = IF Top.type = "loop" THEN breaking - 1 ELSE breaking
  BY DEF skip
<1>2. /\ Good(State, cur, 0, 0) /\ TopType(State.thd[cur]) = Top.type
      /\ breaking \in Nat /\ breaking <= thd[cur].loops
  BY <1>1, Begin
<1>3. ASSUME Becomes(Skipped), cur' = cur, Top.type = "tokens", breaking' = breaking
      PROVE  MacroInv'
  <2>1. Skipped = Exhausted(State, cur)  BY <1>3 DEF Skipped
  <2>2. /\ Good(Exhausted(State, cur), cur, 0, 0)
        /\ Exhausted(State, cur).thd[cur].loops = State.thd[cur].loops
    BY <1>2, <1>3, GoodExhausted
  <2>. QED  BY <1>1, <1>3, <2>1, <2>2, SameGoes, StateParts
<1>4. ASSUME Becomes(Skipped), cur' = cur, Top.type = "loop", breaking' = breaking - 1
      PROVE  MacroInv'
  <2>1. Skipped = Ended(Pop(State, cur), Top)  BY <1>4 DEF Skipped
  <2>2. /\ Good(Skipped, cur, 0, 0) /\ Skipped.thd[cur].loops = State.thd[cur].loops - 1
    BY <1>2, <1>4, <2>1, GoodEnd
  <2>3. thd[cur].loops \in Int  BY <1>2, GoodThread, StateParts
  <2>4. breaking' \in Nat /\ breaking' <= Skipped.thd[cur].loops
    BY <1>1, <1>2, <1>4, <2>2, <2>3, StateParts
  <2>. QED  BY <1>4, <2>2, <2>4, InvGoes
<1>5. ASSUME Becomes(Skipped), cur' = cur, Top.type \notin {"tokens", "loop"}, breaking' = breaking
      PROVE  MacroInv'
  <2>1. Skipped = Pop(State, cur)  BY <1>5 DEF Skipped
  <2>2. /\ Good(Pop(State, cur), cur, 0, 0)
        /\ Pop(State, cur).thd[cur].loops = State.thd[cur].loops
    BY <1>1, <1>2, <1>5, GoodPlain
  <2>. QED  BY <1>1, <1>5, <2>1, <2>2, SameGoes, StateParts
<1>. QED  BY <1>1, <1>3, <1>4, <1>5, InvFails

-----------------------------------------------------------------------------
(* Threads.                                                                *)
LEMMA NoCallers ==
  ASSUME NEW s, NEW t, Good(s, t, 0, 0), TopType(s.thd[t]) \in {"bot", "eot"}
  PROVE  /\ Good(Pop(s, t), t, 0, 0) /\ Pop(s, t).thd[t].loops = s.thd[t].loops
         /\ CallersIn(Pop(s, t).thd[t].stack) = {}
<1>1. /\ Good(Pop(s, t), t, 0, 0) /\ Pop(s, t).thd[t].loops = s.thd[t].loops
  BY GoodPlain
<1>2. CallersIn(Pop(s, t).thd[t].stack) \subseteq
        {i \in CallersIn(s.thd[t].stack) : i < Len(s.thd[t].stack)}
  BY GoodPop
<1>3. \A i \in CallersIn(s.thd[t].stack) : ~(i < Len(s.thd[t].stack))
  <2>1. /\ Ground(s.thd[t].stack)
        /\ Len(s.thd[t].stack) \in DOMAIN s.thd[t].stack
    BY GoodThread DEF Fine
  <2>. QED  BY <2>1 DEF Ground, CallersIn, TopType, TopOf
<1>. QED  BY <1>1, <1>2, <1>3

LEMMA BotInv == ASSUME MacroInv, begin_of_named_thread  PROVE MacroInv'
<1>. DEFINE s == Pop(State, cur)
            z == WithCalls(s, cur, Top.calls)
<1>1. Running /\ Top.type = "bot" /\ Goes(z)  BY DEF begin_of_named_thread, WithCalls
<1>2. /\ Good(State, cur, 0, 0) /\ TopType(State.thd[cur]) = "bot" /\ TopOf(State.thd[cur]) = Top
  BY <1>1, Begin
<1>3. Good(s, cur, 0, 0) /\ s.thd[cur].loops = State.thd[cur].loops
      /\ CallersIn(s.thd[cur].stack) = {}
  BY <1>2, NoCallers
<1>4. IsList(Top.calls)
  <2>1. IsStack(State.thd[cur].stack) /\ Len(State.thd[cur].stack) \in DOMAIN State.thd[cur].stack
    BY <1>2, GoodThread
  <2>2. IsElement(Top)  BY <1>2, <2>1 DEF IsStack, TopOf
  <2>. QED  BY <1>1, <2>2 DEF IsElement
<1>5. Cardinality(CallersIn(s.thd[cur].stack)) <= Len(Top.calls) + 0
  <2>1. Cardinality(CallersIn(s.thd[cur].stack)) = 0  BY <1>3, FS_EmptySet
  <2>2. Len(Top.calls) \in Nat  BY <1>4, ListOf DEF IsList
  <2>. QED  BY <2>1, <2>2
<1>. HIDE DEF s
<1>6. Good(z, cur, 0, 0) /\ z.thd[cur].loops = s.thd[cur].loops
  <2>. DEFINE c == Top.calls
  <2>1. IsList(c) /\ Cardinality(CallersIn(s.thd[cur].stack)) <= Len(c) + 0  BY <1>4, <1>5
  <2>2. Good(s, cur, 0, 0)  BY <1>3
  <2>. HIDE DEF c, z
  <2>3. /\ Good(WithCalls(s, cur, c), cur, 0, 0)
        /\ WithCalls(s, cur, c).thd[cur].loops = s.thd[cur].loops
    BY <2>1, <2>2, GoodCalls
  <2>. QED  BY <2>3 DEF c, z
<1>. HIDE DEF z
<1>. QED  BY <1>1, <1>3, <1>6, SameGoes, StateParts DEF Goes

LEMMA EotInv == ASSUME MacroInv, end_of_named_thread  PROVE MacroInv'
<1>. DEFINE s == Pop(State, cur)
            u == unlock_calls(s, s.thd[cur].calls)
            z == WithCalls(u, cur, <<>>)
<1>1. Running /\ Top.type = "eot" /\ (Fails("local") \/ Goes(z))
  BY DEF end_of_named_thread, WithCalls, Unlock
<1>2. Good(State, cur, 0, 0) /\ TopType(State.thd[cur]) = "eot"  BY <1>1, Begin
<1>3. Good(s, cur, 0, 0) /\ s.thd[cur].loops = State.thd[cur].loops
      /\ CallersIn(s.thd[cur].stack) = {}
  BY <1>2, NoCallers
<1>. HIDE DEF s
<1>4. Frame(s, u)
  <2>1. Typed(s) /\ IsList(s.thd[cur].calls)  BY <1>3, GoodThread
  <2>. QED  BY <2>1, UnlockFrame
<1>. HIDE DEF u
<1>5. Good(u, cur, 0, 0) /\ u.thd[cur].loops = s.thd[cur].loops  BY <1>3, <1>4, FrameGood
<1>6. CallersIn(u.thd[cur].stack) = {}
  <2>1. Sound(s, cur, 0, 0) /\ cur \in Thread  BY <1>3 DEF Good
  <2>2. CallersIn(u.thd[cur].stack) = CallersIn(s.thd[cur].stack)  BY <1>4, <2>1, FrameSame
  <2>. QED  BY <1>3, <2>2
<1>7. IsList(<<>>) /\ Cardinality(CallersIn(u.thd[cur].stack)) <= Len(<<>>) + 0
  <2>1. Cardinality(CallersIn(u.thd[cur].stack)) = 0  BY <1>6, FS_EmptySet
  <2>. QED  BY <2>1, ListEmpty
<1>8. Good(z, cur, 0, 0) /\ z.thd[cur].loops = u.thd[cur].loops  BY <1>5, <1>7, GoodCalls
<1>. HIDE DEF z
<1>. QED  BY <1>1, <1>3, <1>5, <1>8, SameGoes, InvFails, StateParts DEF Goes

(* A thread with nothing but its end of file has no loops and no macros.   *)
LEMMA Nothing ==
  ASSUME NEW q, \A i \in DOMAIN q : q[i].type = "eof"
  PROVE  Cardinality(LoopsIn(q)) = 0 /\ Cardinality(CallersIn(q)) = 0
<1>1. LoopsIn(q) = {} /\ CallersIn(q) = {}  BY DEF LoopsIn, CallersIn, IsCaller
<1>. QED  BY <1>1, FS_EmptySet

LEMMA NewFine ==
  ASSUME NEW h, DOMAIN h = Fields, h.stack = <<[type |-> "eof"]>>, h.state = "ready",
         IsList(h.calls), h.loops \in Int, NEW t \in Thread, h.waited => t \in Block,
         h.waited => h.parent \in Thread \ Block
  PROVE  /\ IsThread(h) /\ Fine(t, h) /\ TopType(h) = "eof"
         /\ Cardinality(LoopsIn(h.stack)) = 0 /\ Cardinality(CallersIn(h.stack)) = 0
<1>. DEFINE e == [type |-> "eof"]
            q == <<e>>
<1>1. IsElement(e) /\ e.type = "eof"  BY DEF IsElement
<1>. HIDE DEF e
<1>2. IsList(q) /\ Len(q) = 1 /\ q[1] = e  BY ListOne
<1>3. h.stack = q  BY DEF e
<1>. HIDE DEF q
<1>4. DOMAIN q = 1..1  BY <1>2, ListOf DEF IsList
<1>5. \A i \in DOMAIN q : i = 1  BY <1>4
<1>6. IsStack(q) /\ Ground(q) /\ DOMAIN q # {} /\ \A i \in DOMAIN q : q[i].type = "eof"
  BY <1>1, <1>2, <1>4, <1>5 DEF IsStack, Ground
<1>7. IsThread(h) /\ TopType(h) = "eof"  BY <1>1, <1>2, <1>3, <1>6 DEF IsThread, TopType, TopOf
<1>8. Fine(t, h)  BY <1>3, <1>6 DEF Fine, Types
<1>. QED  BY <1>3, <1>6, <1>7, <1>8, Nothing

(* A new block.                                                            *)
MakesBlock(s, u, t, wait, new, z) ==
  /\ DOMAIN new = Fields /\ new.stack = <<[type |-> "eof"]>> /\ new.state = "ready"
  /\ new.calls = s.thd[u].calls /\ new.waited = wait /\ new.parent = u
  /\ new.loops = IF wait THEN s.thd[u].loops ELSE 0
  /\ DOMAIN z = Parts
  /\ z.thd = [[s.thd EXCEPT ![t] = new] EXCEPT ![u].state = IF wait THEN "waits" ELSE "ready"]
LEMMA BlockSound ==
  ASSUME NEW s, NEW u, Good(s, u, 0, 0), u \notin Block, TopType(s.thd[u]) \in {"source", "tokens"},
         NEW t \in Block, s.thd[t].state = "none", NEW wait \in BOOLEAN,
         NEW new, NEW z, MakesBlock(s, u, t, wait, new, z)
  PROVE  Good(z, t, 0, 0)
<1>. DEFINE h == s.thd[u]
            g == z.thd[u]
<1>0. /\ DOMAIN new = Fields /\ new.stack = <<[type |-> "eof"]>> /\ new.state = "ready"
      /\ new.calls = s.thd[u].calls /\ new.waited = wait /\ new.parent = u
      /\ new.loops = (IF wait THEN s.thd[u].loops ELSE 0)
      /\ DOMAIN z = Parts
      /\ z.thd = [[s.thd EXCEPT ![t] = new] EXCEPT ![u].state = IF wait THEN "waits" ELSE "ready"]
  BY DEF MakesBlock
<1>1. /\ u \in Thread /\ t \in Thread /\ t # u /\ DOMAIN s.thd = Thread
      /\ IsThread(h) /\ Fine(u, h) /\ h.state = "ready" /\ h.loops \in Int /\ IsList(h.calls)
  BY GoodThread DEF Thread
<1>2. /\ DOMAIN z.thd = Thread /\ z.thd[t] = new
      /\ g = [h EXCEPT !.state = IF wait THEN "waits" ELSE "ready"]
      /\ \A v \in Thread \ {t, u} : z.thd[v] = s.thd[v]
  BY <1>0, <1>1
<1>3. /\ DOMAIN g = Fields /\ g.state = (IF wait THEN "waits" ELSE "ready")
      /\ g.stack = h.stack /\ g.calls = h.calls /\ g.loops = h.loops
      /\ g.parent = h.parent /\ g.waited = h.waited
  BY <1>1, <1>2 DEF IsThread, Fields
<1>. HIDE DEF g, h
<1>4. IsThread(g) /\ Fine(u, g)
  <2>1. IsThread(g)  BY <1>1, <1>3 DEF IsThread
  <2>2. TopType(h) \in {"source", "tokens"}  BY DEF h
  <2>. QED  BY <1>1, <1>3, <2>1, <2>2 DEF Fine, TopType, TopOf
<1>5. /\ IsThread(new) /\ Fine(t, new)
      /\ Cardinality(LoopsIn(new.stack)) = 0 /\ Cardinality(CallersIn(new.stack)) = 0
  <2>1. IsList(new.calls) /\ new.loops \in Int  BY <1>0, <1>1 DEF h
  <2>2. new.waited => t \in Block /\ new.parent \in Thread \ Block  BY <1>0, <1>1
  <2>. QED  BY <1>0, <1>1, <2>1, <2>2, NewFine
<1>6. Sound(s, u, 0, 0)  BY DEF Good
<1>7. ASSUME NEW v \in Thread, s.thd[v].waited
      PROVE  s.thd[v].parent \in Thread \ {t, u} /\ s.thd[s.thd[v].parent].state = "waits"
  <2>1. s.thd[v].parent \in Thread /\ s.thd[s.thd[v].parent].state = "waits"
    BY <1>6, <1>7 DEF Sound, Fine, Family
  <2>. QED  BY <1>1, <2>1 DEF h
<1>8. Typed(z)  BY <1>0, <1>2, <1>4, <1>5, <1>6 DEF Typed, Sound, g
<1>9. ASSUME NEW v \in Thread  PROVE Fine(v, z.thd[v])
  BY <1>2, <1>4, <1>5, <1>6 DEF Sound, g
<1>10. \A v \in Thread : v # t => z.thd[v].waited = s.thd[v].waited /\ z.thd[v].parent = s.thd[v].parent
                                  /\ z.thd[v].loops = s.thd[v].loops
                                  /\ z.thd[v].stack = s.thd[v].stack
                                  /\ z.thd[v].calls = s.thd[v].calls
  BY <1>2, <1>3 DEF g, h
<1>11. Family(z.thd)
  <2>1. ASSUME NEW v \in Thread, z.thd[v].waited  PROVE z.thd[z.thd[v].parent].state = "waits"
    <3>1. CASE v = t  BY <1>0, <1>2, <1>3, <2>1, <3>1 DEF g
    <3>2. CASE v # t  BY <1>2, <1>7, <1>10, <2>1, <3>2
    <3>. QED  BY <3>1, <3>2
  <2>2. ASSUME NEW v \in Thread, NEW w \in Thread, z.thd[v].waited, z.thd[w].waited,
               z.thd[v].parent = z.thd[w].parent
        PROVE  v = w
    <3>1. CASE v # t /\ w # t  BY <1>6, <1>10, <2>2, <3>1 DEF Sound, Family
    <3>2. CASE v = t /\ w # t  BY <1>2, <1>0, <1>7, <1>10, <2>2, <3>2
    <3>3. CASE v # t /\ w = t  BY <1>2, <1>0, <1>7, <1>10, <2>2, <3>3
    <3>. QED  BY <3>1, <3>2, <3>3
  <2>. QED  BY <2>1, <2>2 DEF Family
<1>12. Counted(z.thd, t, 0)
  <2>1. ASSUME NEW v \in Thread, v # t
        PROVE  z.thd[v].loops + (IF v = t THEN 0 ELSE 0) = Cardinality(LoopsIn(z.thd[v].stack))
                 + (IF z.thd[v].waited THEN z.thd[z.thd[v].parent].loops ELSE 0)
    <3>1. s.thd[v].loops + (IF v = u THEN 0 ELSE 0) = Cardinality(LoopsIn(s.thd[v].stack))
                 + (IF s.thd[v].waited THEN s.thd[s.thd[v].parent].loops ELSE 0)
      BY <1>6 DEF Sound, Counted
    <3>. QED  BY <1>2, <1>7, <1>10, <2>1, <3>1
  <2>2. z.thd[t].loops + (IF t = t THEN 0 ELSE 0) = Cardinality(LoopsIn(z.thd[t].stack))
          + (IF z.thd[t].waited THEN z.thd[z.thd[t].parent].loops ELSE 0)
    BY <1>0, <1>1, <1>2, <1>3, <1>5 DEF g, h
  <2>. QED  BY <2>1, <2>2 DEF Counted
<1>13. Covered(z.thd, t, 0)
  <2>1. ASSUME NEW v \in Thread, v # t
        PROVE  Cardinality(CallersIn(z.thd[v].stack)) <= Len(z.thd[v].calls) + 0
    BY <1>6, <1>10, <2>1 DEF Sound, Covered
  <2>2. Cardinality(CallersIn(z.thd[t].stack)) <= Len(z.thd[t].calls) + 0
    <3>1. Len(new.calls) \in Nat  BY <1>0, <1>1, ListOf DEF IsList, h
    <3>. QED  BY <1>2, <1>5, <3>1
  <2>. QED  BY <2>1, <2>2 DEF Covered
<1>14. z.thd[t].state = "ready"  BY <1>0, <1>2
<1>. QED  BY <1>1, <1>8, <1>9, <1>11, <1>12, <1>13, <1>14 DEF Good, Sound

LEMMA BlockInv == ASSUME MacroInv, do_lbrace  PROVE MacroInv'
<1>. DEFINE New(wait) == [NewThread("ready", cur) EXCEPT
                            !.calls = thd[cur].calls, !.waited = wait,
                            !.loops = IF wait THEN thd[cur].loops ELSE 0]
            Made(s, t, wait) == [s EXCEPT !.thd[t] = New(wait),
                                          !.thd[cur].state = IF wait THEN "waits" ELSE "ready"]
<1>1. /\ Reads /\ cur \notin Block /\ breaking' = breaking
      /\ \E t \in Block, wait \in BOOLEAN, c \in scan_tklist(Advanced) :
           /\ thd[t].state = "none" /\ cur' = t
           /\ Becomes(Owned(Made(lock_calls(c.s, thd[cur].calls), t, wait), t, c.list, NULL))
  BY DEF do_lbrace, Owned
<1>2. PICK t \in Block, wait \in BOOLEAN, c \in scan_tklist(Advanced) :
           /\ thd[t].state = "none" /\ cur' = t
           /\ Becomes(Owned(Made(lock_calls(c.s, thd[cur].calls), t, wait), t, c.list, NULL))
  BY <1>1
<1>. DEFINE s == lock_calls(c.s, thd[cur].calls)
            z == Made(s, t, wait)
<1>3. /\ Good(Advanced, cur, 0, 0) /\ Running /\ breaking = 0
      /\ TopType(Advanced.thd[cur]) \in {"source", "tokens"}
  BY <1>1, ReadsGood
<1>4. Frame(State, s)
  <2>1. Frame(State, Advanced)  BY <1>1, ReadsFrame
  <2>2. Frame(Advanced, c.s)  BY <2>1, ScanFrame DEF Frame
  <2>3. Frame(c.s, s)  BY <2>2, LockFrame DEF Frame
  <2>. QED  BY <2>1, <2>2, <2>3, FrameTrans
<1>. HIDE DEF s
<1>5. Good(State, cur, 0, 0) /\ TopType(State.thd[cur]) \in {"source", "tokens"}
  BY <1>1, <1>3, Begin DEF Reads
<1>6. /\ Good(s, cur, 0, 0) /\ s.thd[cur].loops = thd[cur].loops /\ s.thd[cur].calls = thd[cur].calls
      /\ TopType(s.thd[cur]) \in {"source", "tokens"}
  <2>1. Good(State, cur, 0, 0)  BY <1>5
  <2>. HIDE DEF z
  <2>2. /\ Good(s, cur, 0, 0) /\ s.thd[cur].loops = State.thd[cur].loops
        /\ s.thd[cur].calls = State.thd[cur].calls /\ TopType(s.thd[cur]) = TopType(State.thd[cur])
    BY <1>4, <2>1, FrameGood
  <2>. QED  BY <1>5, <2>2, StateParts
<1>7. s.thd[t].state = "none"
  <2>1. t \in Thread  BY DEF Thread
  <2>2. Sound(State, cur, 0, 0)  BY <1>5 DEF Good
  <2>3. Same(State.thd[t], s.thd[t])  BY <1>4, <2>1, <2>2, FrameSame
  <2>. QED  BY <1>2, <2>3, StateParts DEF Same
<1>. DEFINE new == New(wait)
<1>8. /\ DOMAIN new = Fields /\ new.stack = <<[type |-> "eof"]>> /\ new.state = "ready"
      /\ new.calls = s.thd[cur].calls /\ new.waited = wait /\ new.parent = cur
      /\ new.loops = IF wait THEN s.thd[cur].loops ELSE 0
  BY <1>6 DEF NewThread, Fields
<1>9. /\ DOMAIN z = Parts
      /\ z.thd = [[s.thd EXCEPT ![t] = new] EXCEPT ![cur].state = IF wait THEN "waits" ELSE "ready"]
  <2>1. DOMAIN s = Parts  BY <1>6, GoodThread
  <2>. HIDE DEF New
  <2>. QED  BY <2>1 DEF Parts
<1>10. Becomes(Owned(z, t, c.list, NULL))  BY <1>2 DEF s
<1>. HIDE DEF new, z
<1>11. Good(z, t, 0, 0)
  <2>1. MakesBlock(s, cur, t, wait, new, z)  BY <1>8, <1>9 DEF MakesBlock
  <2>2. Good(s, cur, 0, 0) /\ TopType(s.thd[cur]) \in {"source", "tokens"}  BY <1>6
  <2>. QED  BY <1>1, <1>7, <2>1, <2>2, BlockSound
<1>12. Good(Owned(z, t, c.list, NULL), t, 0, 0)  BY <1>11, GoodOwn
<1>13. Owned(z, t, c.list, NULL).thd[t].loops \in Nat  BY <1>12, LoopsNat DEF Good
<1>14. breaking' \in Nat /\ breaking' <= Owned(z, t, c.list, NULL).thd[t].loops
  BY <1>1, <1>3, <1>13
<1>. QED  BY <1>2, <1>10, <1>12, <1>14, InvGoes

(* The end of the tokens of a thread.                                      *)
LEMMA AtEof ==
  ASSUME NEW s, NEW t, Good(s, t, 0, 0), TopType(s.thd[t]) = "eof"
  PROVE  s.thd[t].loops = IF s.thd[t].waited THEN s.thd[s.thd[t].parent].loops ELSE 0
<1>. DEFINE q == s.thd[t].stack
<1>1. /\ IsStack(q) /\ Ground(q) /\ Len(q) \in DOMAIN q /\ DOMAIN q = 1..Len(q)
      /\ s.thd[t].loops \in Int /\ q[Len(q)].type = "eof" /\ t \in Thread
  BY GoodThread DEF Fine, TopType, TopOf
<1>2. \A i \in DOMAIN q : i = 1
  <2>1. Len(q) = 1  BY <1>1 DEF Ground
  <2>. HIDE DEF q
  <2>. QED  BY <1>1, <2>1
<1>3. \A i \in DOMAIN q : q[i].type = "eof"  BY <1>1, <1>2
<1>4. Cardinality(LoopsIn(q)) = 0  BY <1>3, Nothing
<1>5. s.thd[t].loops + (IF t = t THEN 0 ELSE 0) = Cardinality(LoopsIn(q))
        + (IF s.thd[t].waited THEN s.thd[s.thd[t].parent].loops ELSE 0)
  BY <1>1 DEF Good, Sound, Counted
<1>6. ASSUME s.thd[t].waited  PROVE s.thd[s.thd[t].parent].loops \in Int
  <2>1. s.thd[t].parent \in Thread  BY <1>1, <1>6 DEF Good, Sound, Fine
  <2>. QED  BY <2>1 DEF Good, Sound, Fine
<1>. HIDE DEF q
<1>7. CASE s.thd[t].waited  BY <1>1, <1>4, <1>5, <1>6, <1>7
<1>8. CASE ~s.thd[t].waited  BY <1>1, <1>4, <1>5, <1>8
<1>. QED  BY <1>7, <1>8

(* No block is waited for by a thread that reads.                          *)
LEMMA NoneWaits ==
  ASSUME NEW s, NEW t, Good(s, t, 0, 0), NEW v \in Thread, s.thd[v].waited
  PROVE  s.thd[v].parent \in Thread \ {t} /\ s.thd[s.thd[v].parent].state = "waits"
<1>1. s.thd[v].parent \in Thread /\ s.thd[s.thd[v].parent].state = "waits"
  BY DEF Good, Sound, Fine, Family
<1>. QED  BY <1>1 DEF Good

LEMMA SleepSound ==
  ASSUME NEW s, NEW t, Good(s, t, 0, 0), NEW z, DOMAIN z = Parts,
         z.thd = [s.thd EXCEPT ![t].state = "sleeps"]
  PROVE  Sound(z, NULL, 0, 0)
<1>. DEFINE h == s.thd[t]
            g == z.thd[t]
<1>1. /\ t \in Thread /\ DOMAIN s.thd = Thread /\ IsThread(h) /\ Fine(t, h) /\ h.state = "ready"
  BY GoodThread
<1>2. DOMAIN z.thd = Thread /\ \A v \in Thread : v # t => z.thd[v] = s.thd[v]  BY <1>1
<1>3. /\ DOMAIN g = Fields /\ g.state = "sleeps" /\ g.stack = h.stack /\ g.calls = h.calls
      /\ g.loops = h.loops /\ g.parent = h.parent /\ g.waited = h.waited
  BY <1>1 DEF IsThread, Fields
<1>. HIDE DEF g, h
<1>4. IsThread(g)  BY <1>1, <1>3 DEF IsThread
<1>5. Fine(t, g)  BY <1>1, <1>3 DEF Fine
<1>6. Sound(s, t, 0, 0)  BY DEF Good
<1>7. \A v \in Thread : /\ z.thd[v].waited = s.thd[v].waited /\ z.thd[v].parent = s.thd[v].parent
                        /\ z.thd[v].loops = s.thd[v].loops /\ z.thd[v].stack = s.thd[v].stack
                        /\ z.thd[v].calls = s.thd[v].calls
  BY <1>2, <1>3 DEF g, h
<1>8. ASSUME NEW v \in Thread, s.thd[v].waited
      PROVE  s.thd[v].parent \in Thread \ {t} /\ s.thd[s.thd[v].parent].state = "waits"
  BY <1>8, NoneWaits
<1>9. Typed(z) /\ \A v \in Thread : Fine(v, z.thd[v])
  BY <1>2, <1>4, <1>5, <1>6 DEF Typed, Sound, g
<1>10. Family(z.thd)  BY <1>2, <1>6, <1>7, <1>8 DEF Family, Sound
<1>11. Counted(z.thd, NULL, 0)
  <2>1. ASSUME NEW v \in Thread
        PROVE  z.thd[v].loops + (IF v = NULL THEN 0 ELSE 0) = Cardinality(LoopsIn(z.thd[v].stack))
                 + (IF z.thd[v].waited THEN z.thd[z.thd[v].parent].loops ELSE 0)
    <3>1. s.thd[v].loops + (IF v = t THEN 0 ELSE 0) = Cardinality(LoopsIn(s.thd[v].stack))
                 + (IF s.thd[v].waited THEN s.thd[s.thd[v].parent].loops ELSE 0)
      BY <1>6 DEF Sound, Counted
    <3>. QED  BY <1>7, <1>8, <3>1
  <2>. QED  BY <2>1 DEF Counted
<1>12. Covered(z.thd, NULL, 0)  BY <1>6, <1>7 DEF Covered, Sound
<1>. QED  BY <1>9, <1>10, <1>11, <1>12 DEF Sound

(* A block is gone and the thread that waited for it is ready.             *)
Awake(d, t) == IF d[t].waited THEN {d[t].parent} ELSE {}
LEMMA GoneSound ==
  ASSUME NEW s, NEW t \in Block, Good(s, t, 0, 0), NEW z, DOMAIN z = Parts, DOMAIN z.thd = Thread,
         z.thd[t] = NoThread,
         \A v \in Thread \ {t} :
           z.thd[v] = IF v \in Awake(s.thd, t) THEN [s.thd[v] EXCEPT !.state = "ready"] ELSE s.thd[v]
  PROVE  Sound(z, NULL, 0, 0)
<1>1. t \in Thread /\ t \notin Named /\ Sound(s, t, 0, 0)  BY ThreadAssumption DEF Thread, Good
<1>2. /\ DOMAIN NoThread = Fields /\ NoThread.stack = <<>> /\ NoThread.state = "none"
      /\ NoThread.calls = <<>> /\ NoThread.loops = 0 /\ NoThread.waited = FALSE
  BY DEF NoThread, NewThread, Fields
<1>3. IsList(<<>>) /\ Len(<<>>) = 0 /\ DOMAIN <<>> = {}  BY ListEmpty
<1>4. IsThread(NoThread) /\ Fine(t, NoThread)
  <2>1. IsStack(<<>>) /\ Ground(<<>>)  BY <1>3 DEF IsStack, Ground
  <2>. QED  BY <1>1, <1>2, <1>3, <2>1 DEF IsThread, Fine
<1>5. Cardinality(LoopsIn(NoThread.stack)) = 0 /\ Cardinality(CallersIn(NoThread.stack)) = 0
  BY <1>2, <1>3, Nothing
<1>6. ASSUME NEW v \in Thread, s.thd[v].waited
      PROVE  s.thd[v].parent \in Thread \ {t} /\ s.thd[s.thd[v].parent].state = "waits"
  BY <1>6, NoneWaits
<1>7. ASSUME NEW v \in Thread \ {t}
      PROVE  /\ z.thd[v].waited = s.thd[v].waited /\ z.thd[v].parent = s.thd[v].parent
             /\ z.thd[v].loops = s.thd[v].loops /\ z.thd[v].stack = s.thd[v].stack
             /\ z.thd[v].calls = s.thd[v].calls /\ DOMAIN z.thd[v] = Fields
             /\ z.thd[v].state = IF v \in Awake(s.thd, t) THEN "ready" ELSE s.thd[v].state
  <2>1. DOMAIN s.thd[v] = Fields  BY <1>1 DEF Sound, Typed, IsThread
  <2>. QED  BY <2>1 DEF Fields
<1>8. ASSUME NEW v \in Awake(s.thd, t)  PROVE v \in Thread \ {t} /\ s.thd[v].state = "waits"
  BY <1>1, <1>6, <1>8 DEF Awake
<1>9. ASSUME NEW v \in Thread \ {t}  PROVE IsThread(z.thd[v]) /\ Fine(v, z.thd[v])
  <2>1. IsThread(s.thd[v]) /\ Fine(v, s.thd[v])  BY <1>1 DEF Sound, Typed
  <2>2. IsThread(z.thd[v])  BY <1>7, <2>1 DEF IsThread
  <2>3. Fine(v, z.thd[v])
    <3>1. CASE v \in Awake(s.thd, t)  BY <1>7, <1>8, <2>1, <3>1 DEF Fine
    <3>2. CASE v \notin Awake(s.thd, t)  BY <2>1, <3>2
    <3>. QED  BY <3>1, <3>2
  <2>. QED  BY <2>2, <2>3
<1>10. Typed(z) /\ \A v \in Thread : Fine(v, z.thd[v])  BY <1>4, <1>9 DEF Typed
<1>11. ~z.thd[t].waited /\ z.thd[t].loops = 0  BY <1>2
<1>12. ASSUME NEW v \in Thread, z.thd[v].waited  PROVE v # t /\ s.thd[v].waited
  BY <1>7, <1>11, <1>12
<1>13. Family(z.thd)
  <2>1. ASSUME NEW v \in Thread, z.thd[v].waited  PROVE z.thd[z.thd[v].parent].state = "waits"
    <3>1. v # t /\ s.thd[v].waited  BY <1>12, <2>1
    <3>2. /\ z.thd[v].parent = s.thd[v].parent
          /\ s.thd[v].parent \in Thread \ {t} /\ s.thd[s.thd[v].parent].state = "waits"
      BY <1>6, <1>7, <3>1
    <3>3. s.thd[v].parent \notin Awake(s.thd, t)
      BY <1>1, <3>1 DEF Awake, Sound, Family
    <3>. QED  BY <1>7, <3>2, <3>3
  <2>2. ASSUME NEW v \in Thread, NEW w \in Thread, z.thd[v].waited, z.thd[w].waited,
               z.thd[v].parent = z.thd[w].parent
        PROVE  v = w
    BY <1>1, <1>7, <1>12, <2>2 DEF Sound, Family
  <2>. QED  BY <2>1, <2>2 DEF Family
<1>14. Counted(z.thd, NULL, 0)
  <2>1. ASSUME NEW v \in Thread \ {t}
        PROVE  z.thd[v].loops + (IF v = NULL THEN 0 ELSE 0) = Cardinality(LoopsIn(z.thd[v].stack))
                 + (IF z.thd[v].waited THEN z.thd[z.thd[v].parent].loops ELSE 0)
    <3>1. s.thd[v].loops + (IF v = t THEN 0 ELSE 0) = Cardinality(LoopsIn(s.thd[v].stack))
                 + (IF s.thd[v].waited THEN s.thd[s.thd[v].parent].loops ELSE 0)
      BY <1>1 DEF Sound, Counted
    <3>2. s.thd[v].waited => z.thd[s.thd[v].parent].loops = s.thd[s.thd[v].parent].loops
      BY <1>6, <1>7
    <3>. QED  BY <1>7, <3>1, <3>2
  <2>2. z.thd[t].loops + (IF t = NULL THEN 0 ELSE 0) = Cardinality(LoopsIn(z.thd[t].stack))
          + (IF z.thd[t].waited THEN z.thd[z.thd[t].parent].loops ELSE 0)
    BY <1>5, <1>11
  <2>. QED  BY <2>1, <2>2 DEF Counted
<1>15. Covered(z.thd, NULL, 0)
  <2>1. ASSUME NEW v \in Thread \ {t}
        PROVE  Cardinality(CallersIn(z.thd[v].stack)) <= Len(z.thd[v].calls) + (IF v = NULL THEN 0 ELSE 0)
    BY <1>1, <1>7 DEF Sound, Covered
  <2>2. Cardinality(CallersIn(z.thd[t].stack)) <= Len(z.thd[t].calls) + (IF t = NULL THEN 0 ELSE 0)
    BY <1>2, <1>3, <1>5
  <2>. QED  BY <2>1, <2>2 DEF Covered
<1>. QED  BY <1>10, <1>13, <1>14, <1>15 DEF Sound

LEMMA ZeroSound ==
  ASSUME NEW s, NEW t, NEW u, Sound(s, t, 0, 0)  PROVE Sound(s, u, 0, 0)
<1>1. Counted(s.thd, u, 0)  BY DEF Sound, Counted
<1>2. Covered(s.thd, u, 0)  BY DEF Sound, Covered
<1>. QED  BY <1>1, <1>2 DEF Sound

(* delete_thread, with its macros and its calls.                           *)
LEMMA DeletedThread ==
  ASSUME NEW s, NEW t \in Block, Good(s, t, 0, 0)
  PROVE  LET z == Deleted(s, t)
         IN /\ Sound(z, NULL, 0, 0)
            /\ s.thd[t].waited => /\ z.thd[s.thd[t].parent].state = "ready"
                                  /\ z.thd[s.thd[t].parent].loops = s.thd[s.thd[t].parent].loops
<1>. DEFINE freed == FoldSet(LAMBDA k, z : delete_dict(z, k), s,
                             {k \in {t} \X Macro : Defined(s, k)})
            calls == freed.thd[t].calls
            u == unlock_calls(freed, calls)
            gone == [[u EXCEPT !.thd[t].calls = <<>>] EXCEPT !.thd[t] = NoThread]
            p == s.thd[t].parent
            z == IF s.thd[t].waited THEN [gone EXCEPT !.thd[p].state = "ready"] ELSE gone
<1>1. Deleted(s, t) = z  BY Zenon DEF Deleted, Unlock
<1>2. Typed(s) /\ t \in Thread  BY GoodThread
<1>3. Frame(s, freed)
  <2>1. IsFiniteSet({k \in {t} \X Macro : Defined(s, k)})  BY LocalsFinite
  <2>. QED  BY <1>2, <2>1, NamesFrame
<1>. HIDE DEF freed
<1>4. Frame(s, u)
  <2>1. Typed(freed)  BY <1>3 DEF Frame
  <2>2. IsList(calls)  BY <1>2, <2>1 DEF Typed, IsThread
  <2>3. Frame(freed, u)  BY <2>1, <2>2, UnlockFrame
  <2>. QED  BY <1>3, <2>3, FrameTrans
<1>. HIDE DEF u
<1>5. Good(u, t, 0, 0) /\ DOMAIN u = Parts /\ DOMAIN u.thd = Thread
  <2>1. Good(u, t, 0, 0)  BY <1>4, FrameGood
  <2>. QED  BY <2>1, GoodThread
<1>6. /\ DOMAIN gone = Parts /\ gone.thd = [u.thd EXCEPT ![t] = NoThread]  BY <1>5 DEF Parts
<1>7. Sound(s, t, 0, 0) /\ Same(s.thd[t], u.thd[t])  BY <1>2, <1>4, FrameSame DEF Good
<1>8. u.thd[t].waited = s.thd[t].waited /\ u.thd[t].parent = p  BY <1>7 DEF Same
<1>. HIDE DEF gone
<1>9. s.thd[t].waited => p \in Thread \ {t}  BY <1>2, NoneWaits
<1>10. /\ DOMAIN z = Parts /\ DOMAIN z.thd = Thread /\ z.thd[t] = NoThread
       /\ \A v \in Thread \ {t} :
            z.thd[v] = IF v \in Awake(u.thd, t) THEN [u.thd[v] EXCEPT !.state = "ready"] ELSE u.thd[v]
  <2>1. CASE s.thd[t].waited
    <3>1. /\ z = [gone EXCEPT !.thd[p].state = "ready"] /\ Awake(u.thd, t) = {p}
      BY <1>8, <2>1 DEF Awake
    <3>2. p \in Thread \ {t}  BY <1>9, <2>1
    <3>. HIDE DEF p, z
    <3>3. z.thd = [gone.thd EXCEPT ![p].state = "ready"] /\ DOMAIN z = Parts  BY <1>6, <3>1 DEF Parts
    <3>4. DOMAIN gone.thd = Thread /\ gone.thd[t] = NoThread
          /\ \A v \in Thread \ {t} : gone.thd[v] = u.thd[v]
      BY <1>2, <1>5, <1>6
    <3>. QED  BY <1>2, <3>1, <3>2, <3>3, <3>4
  <2>2. CASE ~s.thd[t].waited
    <3>1. z = gone /\ Awake(u.thd, t) = {}  BY <1>8, <2>2 DEF Awake
    <3>. QED  BY <1>2, <1>5, <1>6, <3>1
  <2>. QED  BY <2>1, <2>2
<1>. HIDE DEF z
<1>11. Sound(z, NULL, 0, 0)  BY <1>5, <1>10, GoneSound
<1>12. ASSUME s.thd[t].waited
       PROVE  z.thd[p].state = "ready" /\ z.thd[p].loops = s.thd[p].loops
  <2>1. p \in Thread \ {t} /\ p \in Awake(u.thd, t)  BY <1>8, <1>9, <1>12 DEF Awake
  <2>2. IsThread(u.thd[p])  BY <1>5, <2>1 DEF Good, Sound, Typed
  <2>3. Same(s.thd[p], u.thd[p])  BY <1>4, <1>7, <2>1, FrameSame
  <2>. HIDE DEF p
  <2>4. z.thd[p] = [u.thd[p] EXCEPT !.state = "ready"]  BY <1>10, <2>1
  <2>5. z.thd[p].state = "ready" /\ z.thd[p].loops = u.thd[p].loops
    BY <2>2, <2>4 DEF IsThread, Fields
  <2>. QED  BY <2>3, <2>5 DEF Same
<1>. QED  BY <1>1, <1>11, <1>12

LEMMA EofInv == ASSUME MacroInv, do_eof  PROVE MacroInv'
<1>. DEFINE z == IF cur \in Block THEN Deleted(State, cur)
                 ELSE [State EXCEPT !.thd[cur].state = "sleeps"]
            p == thd[cur].parent
<1>1. /\ Running /\ Top.type = "eof"
      /\ \/ Fails("local")
         \/ /\ Becomes(z) /\ breaking' = breaking
            /\ IF thd[cur].waited THEN cur' = p ELSE cur' \in Turn(z)
  BY Zenon DEF do_eof
<1>2. /\ Good(State, cur, 0, 0) /\ TopType(State.thd[cur]) = "eof" /\ cur \in Thread
      /\ breaking \in Nat /\ breaking <= thd[cur].loops
  BY <1>1, Begin
<1>3. thd[cur].loops = IF thd[cur].waited THEN thd[p].loops ELSE 0
  BY <1>2, AtEof, StateParts
<1>4. thd[cur].waited => cur \in Block /\ p \in Thread
  BY <1>2, GoodThread, StateParts DEF Fine
<1>5. /\ Sound(z, NULL, 0, 0)
      /\ thd[cur].waited => z.thd[p].state = "ready" /\ z.thd[p].loops = thd[p].loops
  <2>1. CASE cur \in Block
    <3>1. z = Deleted(State, cur)  BY <2>1
    <3>. QED  BY <1>2, <2>1, <3>1, DeletedThread, StateParts
  <2>2. CASE cur \notin Block
    <3>1. z = [State EXCEPT !.thd[cur].state = "sleeps"]  BY <2>2
    <3>. HIDE DEF z
    <3>2. DOMAIN z = Parts /\ z.thd = [State.thd EXCEPT ![cur].state = "sleeps"]
      BY <3>1, StateParts DEF Parts
    <3>3. Sound(z, NULL, 0, 0)  BY <1>2, <3>2, SleepSound
    <3>. QED  BY <1>4, <2>2, <3>3
  <2>. QED  BY <2>1, <2>2
<1>. HIDE DEF z
<1>6. ASSUME Becomes(z), breaking' = breaking, thd[cur].waited, cur' = p  PROVE MacroInv'
  <2>1. Sound(z, p, 0, 0)  BY <1>5, ZeroSound
  <2>2. Good(z, p, 0, 0)  BY <1>4, <1>5, <1>6, <2>1 DEF Good
  <2>3. breaking' \in Nat /\ breaking' <= z.thd[p].loops  BY <1>2, <1>3, <1>5, <1>6
  <2>. QED  BY <1>6, <2>2, <2>3, InvGoes
<1>7. ASSUME Becomes(z), breaking' = breaking, ~thd[cur].waited, cur' \in Turn(z)  PROVE MacroInv'
  <2>1. breaking' = 0  BY <1>2, <1>3, <1>7
  <2>. QED  BY <1>5, <1>7, <2>1, InvTurn
<1>. QED  BY <1>1, <1>6, <1>7, InvFails

(* Tokens at the bottom of a stack move what is above them.                *)
LEMMA Shifted ==
  ASSUME NEW T \in SUBSET Nat, IsFiniteSet(T), NEW U, U = {i + 3 : i \in T}
  PROVE  Cardinality(U) = Cardinality(T)
<1>. DEFINE f == [i \in T |-> i + 3]
<1>1. f \in Bijection(T, U)
  <2>1. \A i \in T : f[i] = i + 3 /\ i + 3 \in U  OBVIOUS
  <2>2. f \in [T -> U]  BY <2>1
  <2>. HIDE DEF f
  <2>3. ASSUME NEW i \in T, NEW j \in T, f[i] = f[j]  PROVE i = j
    <3>1. i + 3 = j + 3 /\ i \in Int /\ j \in Int  BY <2>1, <2>3
    <3>. QED  BY <3>1
  <2>4. \A u \in U : \E i \in T : f[i] = u  BY <2>1
  <2>5. f \in Injection(T, U)  BY <2>2, <2>3 DEF Injection, IsInjective
  <2>6. f \in Surjection(T, U)  BY <2>2, <2>4 DEF Surjection
  <2>. QED  BY <2>5, <2>6 DEF Bijection
<1>2. ExistsBijection(T, U)  BY <1>1 DEF ExistsBijection
<1>. QED  BY <1>2, FS_Bijection

IsBelow(b) ==
  /\ IsList(b) /\ Len(b) = 4 /\ \A i \in 1..4 : IsElement(b[i]) /\ ~IsCaller(b[i])
  /\ b[1].type = "eof" /\ b[2].type = "eot" /\ b[3].type = "tokens" /\ b[4].type = "bot"
LEMMA Four ==
  ASSUME NEW e1, NEW e2, NEW e3, NEW e4
  PROVE  LET b == <<e1, e2, e3, e4>>
         IN IsList(b) /\ Len(b) = 4 /\ b[1] = e1 /\ b[2] = e2 /\ b[3] = e3 /\ b[4] = e4
<1>. DEFINE b == <<e1, e2, e3, e4>>
<1>1. b \in Seq({e1, e2, e3, e4}) /\ Len(b) = 4 /\ b[1] = e1 /\ b[2] = e2 /\ b[3] = e3 /\ b[4] = e4
  OBVIOUS
<1>. HIDE DEF b
<1>2. IsList(b)  BY <1>1, ListOf
<1>. QED  BY <1>1, <1>2 DEF b

LEMMA BelowIs ==
  ASSUME NEW e, IsElement(e), e.type = "tokens", ~IsCaller(e), NEW calls, IsList(calls)
  PROVE  IsBelow(<<[type |-> "eof"], [type |-> "eot"], e, [type |-> "bot", calls |-> calls]>>)
<1>. DEFINE e1 == [type |-> "eof"]
            e2 == [type |-> "eot"]
            e4 == [type |-> "bot", calls |-> calls]
            b == <<e1, e2, e, e4>>
<1>1. IsElement(e1) /\ e1.type = "eof" /\ ~IsCaller(e1)  BY DEF IsElement, IsCaller
<1>2. IsElement(e2) /\ e2.type = "eot" /\ ~IsCaller(e2)  BY DEF IsElement, IsCaller
<1>3. IsElement(e4) /\ e4.type = "bot" /\ ~IsCaller(e4)  BY DEF IsElement, IsCaller
<1>. HIDE DEF e1, e2, e4
<1>4. IsList(b) /\ Len(b) = 4 /\ b[1] = e1 /\ b[2] = e2 /\ b[3] = e /\ b[4] = e4  BY Four
<1>. HIDE DEF b
<1>5. \A i \in 1..4 : i = 1 \/ i = 2 \/ i = 3 \/ i = 4  OBVIOUS
<1>6. IsBelow(b)  BY <1>1, <1>2, <1>3, <1>4, <1>5 DEF IsBelow
<1>. QED  BY <1>6 DEF b, e1, e2, e4

(* The stack q above b, without its own end of file.                       *)
Shifts(b, q, r, n) ==
  /\ n \in Nat \ {0} /\ DOMAIN q = 1..n /\ DOMAIN r = 1..(n + 3)
  /\ \A i \in 1..4 : r[i] = b[i]
  /\ \A i \in 2..n : r[i + 3] = q[i]
LEMMA ShiftsSplit ==
  ASSUME NEW b, NEW q, NEW r, NEW n, Shifts(b, q, r, n), NEW i \in DOMAIN r
  PROVE  \/ i \in 1..4 /\ r[i] = b[i]
         \/ \E j \in 2..n : i = j + 3 /\ r[i] = q[j] /\ j \in DOMAIN q /\ j # 1 /\ j \in Nat
<1>1. CASE i \in 1..4  BY <1>1 DEF Shifts
<1>2. CASE i \notin 1..4
  <2>1. i \in 1..(n + 3) /\ n \in Nat \ {0}  BY DEF Shifts
  <2>2. i - 3 \in 2..n /\ i = (i - 3) + 3 /\ i - 3 \in 1..n /\ i - 3 # 1 /\ i - 3 \in Nat
    BY <1>2, <2>1
  <2>3. r[(i - 3) + 3] = q[i - 3]  BY <2>2 DEF Shifts
  <2>4. i - 3 \in DOMAIN q  BY <2>2 DEF Shifts
  <2>. QED  BY <2>2, <2>3, <2>4
<1>. QED  BY <1>1, <1>2

LEMMA ShiftsBack ==
  ASSUME NEW b, NEW q, NEW r, NEW n, Shifts(b, q, r, n), NEW j \in DOMAIN q, j # 1
  PROVE  j \in 2..n /\ j + 3 \in DOMAIN r /\ r[j + 3] = q[j] /\ j \in Nat
<1>1. j \in 1..n /\ n \in Nat \ {0} /\ DOMAIN r = 1..(n + 3)  BY DEF Shifts
<1>2. j \in 2..n /\ j + 3 \in 1..(n + 3) /\ j \in Nat  BY <1>1
<1>. QED  BY <1>1, <1>2 DEF Shifts

LEMMA BottomShifts ==
  ASSUME NEW q, IsStack(q), DOMAIN q # {}, NEW b, IsBelow(b)
  PROVE  LET r == b \o Tail(q)
         IN IsList(r) /\ Len(r) = Len(q) + 3 /\ Shifts(b, q, r, Len(q))
<1>. DEFINE n == Len(q)
            s == Tail(q)
            r == b \o s
<1>1. /\ n \in Nat \ {0} /\ DOMAIN q = 1..n
      /\ IsList(s) /\ Len(s) = n - 1 /\ \A i \in 1..(n - 1) : s[i] = q[i + 1]
  BY StackLen, ListTail DEF IsStack
<1>2. IsList(b) /\ Len(b) = 4  BY DEF IsBelow
<1>. HIDE DEF s, n
<1>3. /\ IsList(r) /\ Len(r) = Len(b) + Len(s) /\ DOMAIN r = 1..(Len(b) + Len(s))
      /\ \A i \in 1..(Len(b) + Len(s)) : r[i] = IF i <= Len(b) THEN b[i] ELSE s[i - Len(b)]
  BY <1>1, <1>2, ListJoin
<1>4. Len(b) + Len(s) = n + 3
  <2>. DEFINE x == Len(b)
              y == Len(s)
  <2>1. x = 4 /\ y = n - 1 /\ n \in Nat  BY <1>1, <1>2
  <2>. HIDE DEF x, y
  <2>2. x + y = n + 3  BY <2>1
  <2>. QED  BY <2>2 DEF x, y
<1>. HIDE DEF r
<1>5. \A i \in 1..(n + 3) : r[i] = IF i <= 4 THEN b[i] ELSE s[i - 4]  BY <1>2, <1>3, <1>4
<1>6. \A i \in 1..4 : r[i] = b[i]
  <2>1. \A i \in 1..4 : i \in 1..(n + 3) /\ i <= 4  BY <1>1
  <2>. QED  BY <1>5, <2>1
<1>7. \A i \in 2..n : r[i + 3] = q[i]
  <2>1. ASSUME NEW i \in 2..n  PROVE r[i + 3] = q[i]
    <3>1. /\ i + 3 \in 1..(n + 3) /\ ~(i + 3 <= 4) /\ (i + 3) - 4 = i - 1
          /\ i - 1 \in 1..(n - 1) /\ (i - 1) + 1 = i
      BY <1>1
    <3>2. r[i + 3] = s[i - 1]  BY <1>5, <3>1
    <3>3. s[i - 1] = q[(i - 1) + 1]  BY <1>1, <3>1
    <3>. QED  BY <3>1, <3>2, <3>3
  <2>. QED  BY <2>1
<1>8. Shifts(b, q, r, n)  BY <1>1, <1>3, <1>4, <1>6, <1>7 DEF Shifts
<1>. QED  BY <1>3, <1>4, <1>8 DEF r, n, s

LEMMA BottomStack ==
  ASSUME NEW q, IsStack(q), Ground(q), DOMAIN q # {}, \A i \in DOMAIN q : q[i].type \in Types,
         NEW b, IsBelow(b), NEW r, IsList(r), Len(r) = Len(q) + 3, Shifts(b, q, r, Len(q))
  PROVE  /\ IsStack(r) /\ Ground(r) /\ DOMAIN r # {} /\ \A i \in DOMAIN r : r[i].type \in Types
         /\ Cardinality(LoopsIn(r)) = Cardinality(LoopsIn(q))
         /\ Cardinality(CallersIn(r)) = Cardinality(CallersIn(q))
         /\ q[Len(q)].type # "eof" => r[Len(r)] = q[Len(q)]
<1>. DEFINE n == Len(q)
<1>1. Shifts(b, q, r, n) /\ n \in Nat \ {0} /\ DOMAIN q = 1..n /\ DOMAIN r = 1..(n + 3)
      /\ Len(r) = n + 3
  BY DEF Shifts
<1>. HIDE DEF n
<1>2. /\ \A i \in 1..4 : IsElement(b[i]) /\ ~IsCaller(b[i]) /\ b[i].type \in Types \ {"loop"}
      /\ b[1].type = "eof" /\ \A i \in 1..4 : b[i].type = "eof" => i = 1
  <2>1. \A i \in 1..4 : i = 1 \/ i = 2 \/ i = 3 \/ i = 4  OBVIOUS
  <2>. QED  BY <2>1 DEF IsBelow, Types
<1>3. q[1].type = "eof" /\ ~IsCaller(q[1])
  <2>1. q[1].type = "eof"  BY DEF Ground
  <2>. QED  BY <2>1 DEF IsCaller
<1>4. IsStack(r) /\ DOMAIN r # {} /\ \A i \in DOMAIN r : r[i].type \in Types
  <2>1. ASSUME NEW i \in DOMAIN r  PROVE IsElement(r[i]) /\ r[i].type \in Types
    <3>1. \/ i \in 1..4 /\ r[i] = b[i]
          \/ \E j \in 2..n : i = j + 3 /\ r[i] = q[j] /\ j \in DOMAIN q /\ j # 1 /\ j \in Nat
      BY <1>1, ShiftsSplit
    <3>2. CASE i \in 1..4 /\ r[i] = b[i]  BY <1>2, <3>2
    <3>3. ASSUME NEW j \in DOMAIN q, r[i] = q[j]  PROVE IsElement(r[i]) /\ r[i].type \in Types
      BY <3>3 DEF IsStack
    <3>. QED  BY <3>1, <3>2, <3>3
  <2>2. 1 \in DOMAIN r  BY <1>1
  <2>. QED  BY <2>1, <2>2 DEF IsStack
<1>5. Ground(r)
  <2>1. r[1].type = "eof"
    <3>1. 1 \in 1..4  OBVIOUS
    <3>2. r[1] = b[1]  BY <1>1, <3>1 DEF Shifts
    <3>. QED  BY <1>2, <3>2
  <2>2. ASSUME NEW i \in DOMAIN r, r[i].type = "eof"  PROVE i = 1
    <3>1. \/ i \in 1..4 /\ r[i] = b[i]
          \/ \E j \in 2..n : i = j + 3 /\ r[i] = q[j] /\ j \in DOMAIN q /\ j # 1 /\ j \in Nat
      BY <1>1, ShiftsSplit
    <3>2. CASE i \in 1..4 /\ r[i] = b[i]  BY <1>2, <2>2, <3>2
    <3>3. ASSUME NEW j \in DOMAIN q, j # 1, r[i] = q[j]  PROVE FALSE
      BY <2>2, <3>3 DEF Ground
    <3>. QED  BY <3>1, <3>2, <3>3
  <2>3. ASSUME NEW i \in DOMAIN r, NEW j \in DOMAIN r, i < j, r[j].type \in {"bot", "eot"}
        PROVE  ~IsCaller(r[i])
    <3>1. \/ i \in 1..4 /\ r[i] = b[i]
          \/ \E k \in 2..n : i = k + 3 /\ r[i] = q[k] /\ k \in DOMAIN q /\ k # 1 /\ k \in Nat
      BY <1>1, ShiftsSplit
    <3>2. CASE i \in 1..4 /\ r[i] = b[i]  BY <1>2, <3>2
    <3>3. ASSUME NEW k \in DOMAIN q, k \in Nat, k # 1, i = k + 3, r[i] = q[k]  PROVE ~IsCaller(r[i])
      <4>1. \/ j \in 1..4 /\ r[j] = b[j]
            \/ \E m \in 2..n : j = m + 3 /\ r[j] = q[m] /\ m \in DOMAIN q /\ m # 1 /\ m \in Nat
        BY <1>1, ShiftsSplit
      <4>2. j \notin 1..4
        <5>1. k \in 1..n /\ k # 1 /\ n \in Nat /\ j \in 1..(n + 3)  BY <1>1, <3>3
        <5>. QED  BY <2>3, <3>3, <5>1
      <4>3. PICK m \in 2..n : j = m + 3 /\ r[j] = q[m] /\ m \in DOMAIN q  BY <4>1, <4>2
      <4>4. k < m
        <5>1. k \in Int /\ m \in Int /\ k + 3 < m + 3  BY <2>3, <3>3, <4>3
        <5>. QED  BY <5>1
      <4>. QED  BY <2>3, <3>3, <4>3, <4>4 DEF Ground
    <3>. QED  BY <3>1, <3>2, <3>3
  <2>. QED  BY <2>1, <2>2, <2>3 DEF Ground
<1>6. LoopsIn(r) = {i + 3 : i \in LoopsIn(q)} /\ LoopsIn(q) \in SUBSET Nat
  <2>1. ASSUME NEW i \in LoopsIn(r)  PROVE \E j \in LoopsIn(q) : i = j + 3
    <3>1. i \in DOMAIN r /\ r[i].type = "loop"  BY DEF LoopsIn
    <3>2. \/ i \in 1..4 /\ r[i] = b[i]
          \/ \E j \in 2..n : i = j + 3 /\ r[i] = q[j] /\ j \in DOMAIN q /\ j # 1 /\ j \in Nat
      BY <1>1, <3>1, ShiftsSplit
    <3>. QED  BY <1>2, <3>1, <3>2 DEF LoopsIn
  <2>2. ASSUME NEW i \in LoopsIn(q)  PROVE i + 3 \in LoopsIn(r) /\ i \in Nat
    <3>1. i \in DOMAIN q /\ i # 1 /\ q[i].type = "loop"  BY <1>3 DEF LoopsIn
    <3>2. i + 3 \in DOMAIN r /\ r[i + 3] = q[i] /\ i \in Nat  BY <1>1, <3>1, ShiftsBack
    <3>. QED  BY <3>1, <3>2 DEF LoopsIn
  <2>3. LoopsIn(q) \in SUBSET Nat  BY <2>2
  <2>. QED  BY <2>1, <2>2, <2>3, Zenon
<1>7. CallersIn(r) = {i + 3 : i \in CallersIn(q)} /\ CallersIn(q) \in SUBSET Nat
  <2>1. ASSUME NEW i \in CallersIn(r)  PROVE \E j \in CallersIn(q) : i = j + 3
    <3>1. i \in DOMAIN r /\ IsCaller(r[i])  BY DEF CallersIn
    <3>2. \/ i \in 1..4 /\ r[i] = b[i]
          \/ \E j \in 2..n : i = j + 3 /\ r[i] = q[j] /\ j \in DOMAIN q /\ j # 1 /\ j \in Nat
      BY <1>1, <3>1, ShiftsSplit
    <3>. QED  BY <1>2, <3>1, <3>2 DEF CallersIn
  <2>2. ASSUME NEW i \in CallersIn(q)  PROVE i + 3 \in CallersIn(r) /\ i \in Nat
    <3>1. i \in DOMAIN q /\ i # 1 /\ IsCaller(q[i])  BY <1>3 DEF CallersIn
    <3>2. i + 3 \in DOMAIN r /\ r[i + 3] = q[i] /\ i \in Nat  BY <1>1, <3>1, ShiftsBack
    <3>. QED  BY <3>1, <3>2 DEF CallersIn
  <2>3. CallersIn(q) \in SUBSET Nat  BY <2>2
  <2>. QED  BY <2>1, <2>2, <2>3, Zenon
<1>8. q[n].type # "eof" => r[n + 3] = q[n]
  <2>1. ASSUME q[n].type # "eof"  PROVE n # 1  BY <1>3, <2>1
  <2>2. n \in DOMAIN q  BY <1>1
  <2>3. n # 1 => r[n + 3] = q[n]  BY <1>1, <2>2, ShiftsBack
  <2>. QED  BY <2>1, <2>3
<1>9. Cardinality(LoopsIn(r)) = Cardinality(LoopsIn(q))
  <2>1. IsFiniteSet(LoopsIn(q))  BY LoopsFinite
  <2>. QED  BY <1>6, <2>1, Shifted
<1>10. Cardinality(CallersIn(r)) = Cardinality(CallersIn(q))
  <2>1. IsFiniteSet(CallersIn(q))  BY LoopsFinite
  <2>. QED  BY <1>7, <2>1, Shifted
<1>11. q[n].type # "eof" => r[Len(r)] = q[n]  BY <1>1, <1>8
<1>. QED  BY <1>4, <1>5, <1>9, <1>10, <1>11 DEF n

(* Tokens for a named thread.                                              *)
GivesTokens(s, t, b, z) ==
  /\ DOMAIN z = Parts /\ DOMAIN z.thd = Thread
  /\ \A v \in Thread : v # t => z.thd[v] = s.thd[v]
  /\ DOMAIN z.thd[t] = Fields /\ z.thd[t].stack = b \o Tail(s.thd[t].stack)
  /\ z.thd[t].state = IF TopType(s.thd[t]) = "eof" THEN "ready" ELSE s.thd[t].state
  /\ z.thd[t].calls = s.thd[t].calls /\ z.thd[t].loops = s.thd[t].loops
  /\ z.thd[t].parent = s.thd[t].parent /\ z.thd[t].waited = s.thd[t].waited
LEMMA GivenSound ==
  ASSUME NEW s, NEW u, Sound(s, u, 0, 0), NEW t \in Named, NEW b, IsBelow(b),
         NEW z, GivesTokens(s, t, b, z)
  PROVE  Sound(z, NULL, 0, 0)
<1>. DEFINE h == s.thd[t]
            q == h.stack
            g == z.thd[t]
            r == g.stack
<1>1. t \in Thread /\ t \notin Block /\ IsThread(h) /\ Fine(t, h)
  BY ThreadAssumption DEF Thread, Sound, Typed
<1>2. /\ IsStack(q) /\ Ground(q) /\ DOMAIN q # {} /\ \A i \in DOMAIN q : q[i].type \in Types
      /\ ~h.waited /\ h.state # "none" /\ IsList(h.calls) /\ h.loops \in Int
      /\ h.state = "waits" => TopType(h) \in {"source", "tokens"}
  BY <1>1 DEF IsThread, Fine, TopType, TopOf
<1>3. /\ DOMAIN g = Fields /\ r = b \o Tail(q)
      /\ g.state = (IF TopType(h) = "eof" THEN "ready" ELSE h.state)
      /\ g.calls = h.calls /\ g.loops = h.loops /\ g.parent = h.parent /\ g.waited = h.waited
      /\ DOMAIN z = Parts /\ DOMAIN z.thd = Thread /\ \A v \in Thread : v # t => z.thd[v] = s.thd[v]
  BY DEF GivesTokens
<1>. HIDE DEF q, r
<1>4. IsList(r) /\ Len(r) = Len(q) + 3 /\ Shifts(b, q, r, Len(q))
  <2>1. r = b \o Tail(q)  BY <1>3
  <2>. QED  BY <1>2, <2>1, BottomShifts
<1>5. /\ IsStack(r) /\ Ground(r) /\ DOMAIN r # {} /\ \A i \in DOMAIN r : r[i].type \in Types
      /\ Cardinality(LoopsIn(r)) = Cardinality(LoopsIn(q))
      /\ Cardinality(CallersIn(r)) = Cardinality(CallersIn(q))
      /\ q[Len(q)].type # "eof" => r[Len(r)] = q[Len(q)]
  BY <1>2, <1>4, BottomStack
<1>6. TopType(h) = q[Len(q)].type  BY DEF TopType, TopOf, q
<1>7. g.state = "waits" <=> h.state = "waits"
  BY <1>2, <1>3
<1>8. IsThread(g)  BY <1>2, <1>3, <1>5 DEF IsThread, r
<1>9. Fine(t, g)
  <2>1. g.state # "none" /\ ~g.waited  BY <1>2, <1>3
  <2>2. g.state = "waits" => r[Len(r)].type \in {"source", "tokens"}
    BY <1>2, <1>5, <1>6, <1>7
  <2>3. r = g.stack /\ g.loops \in Int  BY <1>2, <1>3 DEF r
  <2>. HIDE DEF g, h
  <2>. QED  BY <1>5, <2>1, <2>2, <2>3 DEF Fine
<1>10. r = g.stack /\ q = h.stack  BY DEF r, q
<1>. HIDE DEF g, h
<1>11. ASSUME NEW v \in Thread
       PROVE  /\ z.thd[v].waited = s.thd[v].waited /\ z.thd[v].parent = s.thd[v].parent
              /\ z.thd[v].loops = s.thd[v].loops /\ z.thd[v].calls = s.thd[v].calls
              /\ Cardinality(LoopsIn(z.thd[v].stack)) = Cardinality(LoopsIn(s.thd[v].stack))
              /\ Cardinality(CallersIn(z.thd[v].stack)) = Cardinality(CallersIn(s.thd[v].stack))
              /\ z.thd[v].state = "waits" <=> s.thd[v].state = "waits"
  <2>1. CASE v = t
    <3>1. z.thd[v] = g /\ s.thd[v] = h  BY <2>1 DEF g, h
    <3>. QED  BY <1>3, <1>5, <1>7, <1>10, <3>1
  <2>2. CASE v # t
    <3>1. z.thd[v] = s.thd[v]  BY <1>3, <2>2
    <3>. QED  BY <3>1
  <2>. QED  BY <2>1, <2>2
<1>12. Typed(z) /\ \A v \in Thread : Fine(v, z.thd[v])
  <2>1. \A v \in Thread : IsThread(s.thd[v]) /\ Fine(v, s.thd[v])  BY DEF Sound, Typed
  <2>2. \A v \in Thread : IsThread(z.thd[v]) /\ Fine(v, z.thd[v])
    BY <1>3, <1>8, <1>9, <2>1 DEF g
  <2>. QED  BY <1>3, <2>2 DEF Typed
<1>13. \A v \in Thread : s.thd[v].waited => s.thd[v].parent \in Thread  BY DEF Sound, Fine
<1>14. Family(s.thd) /\ Counted(s.thd, u, 0) /\ Covered(s.thd, u, 0)  BY DEF Sound
<1>15. Family(z.thd)  BY <1>11, <1>13, <1>14 DEF Family
<1>16. Counted(z.thd, NULL, 0)  BY <1>11, <1>13, <1>14 DEF Counted
<1>17. Covered(z.thd, NULL, 0)  BY <1>11, <1>14 DEF Covered
<1>. QED  BY <1>12, <1>15, <1>16, <1>17 DEF Sound

LEMMA ThreadInv == ASSUME MacroInv, do_thread  PROVE MacroInv'
<1>. DEFINE Idle(t) == Last(thd[t].stack).type = "eof"
            Awoken(s, t) == [s EXCEPT !.thd[t].state = IF Idle(t) THEN "ready" ELSE @]
            Given(s, t, c) == push_tklist_at_bottom(Awoken(s, t), t, c.list, thd[cur].calls)
<1>1. /\ Reads /\ breaking' = breaking
      /\ \E t \in Named, c \in scan_tklist(Advanced) :
           /\ Becomes(Given(lock_calls(c.s, thd[cur].calls), t, c))
           /\ cur' = IF Idle(t) THEN t ELSE cur
  BY Zenon DEF do_thread
<1>2. PICK t \in Named, c \in scan_tklist(Advanced) :
           /\ Becomes(Given(lock_calls(c.s, thd[cur].calls), t, c))
           /\ cur' = IF Idle(t) THEN t ELSE cur
  BY <1>1
<1>. DEFINE s == lock_calls(c.s, thd[cur].calls)
            z == Given(s, t, c)
            aw == Awoken(s, t)
            calls == thd[cur].calls
            e == Tokens(aw, c.list, NULL, TRUE)
            b == <<[type |-> "eof"], [type |-> "eot"], e, [type |-> "bot", calls |-> calls]>>
<1>3. Running /\ breaking = 0  BY <1>1 DEF Reads
<1>4. Frame(State, s)
  <2>1. Frame(State, Advanced)  BY <1>1, ReadsFrame
  <2>2. Frame(Advanced, c.s)  BY <2>1, ScanFrame DEF Frame
  <2>3. Frame(c.s, s)  BY <2>2, LockFrame DEF Frame
  <2>. QED  BY <2>1, <2>2, <2>3, FrameTrans
<1>. HIDE DEF s
<1>5. /\ Good(State, cur, 0, 0) /\ IsList(calls) /\ t \in Thread
      /\ Top.type \in {"source", "tokens"} /\ TopType(State.thd[cur]) = Top.type
  <2>1. Good(State, cur, 0, 0) /\ TopType(State.thd[cur]) = Top.type  BY <1>3, Begin
  <2>2. IsList(State.thd[cur].calls)  BY <2>1, GoodThread
  <2>. QED  BY <1>1, <2>1, <2>2, StateParts DEF Reads, Thread
<1>6. Good(s, cur, 0, 0)  BY <1>4, <1>5, FrameGood
<1>7. Sound(State, cur, 0, 0) /\ Sound(s, cur, 0, 0)  BY <1>5, <1>6 DEF Good
<1>8. Idle(t) <=> TopType(s.thd[t]) = "eof"
  <2>1. Same(State.thd[t], s.thd[t])  BY <1>4, <1>5, <1>7, FrameSame
  <2>2. IsStack(thd[t].stack) /\ Fine(t, thd[t])
    BY <1>5, <1>7, StateParts DEF Sound, Typed, IsThread
  <2>3. thd[t].state # "none" /\ DOMAIN thd[t].stack # {}  BY <2>2 DEF Fine
  <2>4. Last(thd[t].stack) = thd[t].stack[Len(thd[t].stack)]  BY <2>2, <2>3, FrontStack
  <2>5. TopType(s.thd[t]) = TopType(thd[t])  BY <2>1, <2>3, StateParts DEF Same
  <2>. QED  BY <2>4, <2>5 DEF TopType, TopOf
<1>9. IsBelow(b)
  <2>1. IsElement(e) /\ e.type = "tokens" /\ ~IsCaller(e)  BY DEF Tokens, IsElement, IsCaller
  <2>. HIDE DEF e, calls
  <2>. QED  BY <1>5, <2>1, BelowIs
<1>10. GivesTokens(s, t, b, z)
  <2>0. DOMAIN s = Parts /\ DOMAIN s.thd = Thread /\ IsThread(s.thd[t])
    BY <1>5, <1>7 DEF Sound, Typed
  <2>1. /\ DOMAIN aw = Parts /\ DOMAIN aw.thd = Thread
        /\ aw.thd[t] = [s.thd[t] EXCEPT !.state = IF Idle(t) THEN "ready" ELSE @]
        /\ \A v \in Thread : v # t => aw.thd[v] = s.thd[v]
    <3>. HIDE DEF Idle
    <3>. QED  BY <1>5, <2>0 DEF Parts
  <2>. HIDE DEF aw, Awoken, e
  <2>2. z = [aw EXCEPT !.thd[t].stack = b \o Tail(@),
                       !.atl = [k \in DOMAIN @ |-> IF @[k][1] = t THEN <<t, @[k][2] + 3>> ELSE @[k]]]
    BY Zenon DEF push_tklist_at_bottom, aw, e
  <2>. HIDE DEF z, b, Idle, Given
  <2>3. /\ DOMAIN z = Parts /\ DOMAIN z.thd = Thread
        /\ z.thd[t] = [aw.thd[t] EXCEPT !.stack = b \o Tail(@)]
        /\ \A v \in Thread : v # t => z.thd[v] = aw.thd[v]
    BY <1>5, <2>1, <2>2 DEF Parts
  <2>4. /\ DOMAIN z.thd[t] = Fields /\ z.thd[t].stack = b \o Tail(s.thd[t].stack)
        /\ z.thd[t].state = (IF Idle(t) THEN "ready" ELSE s.thd[t].state)
        /\ z.thd[t].calls = s.thd[t].calls /\ z.thd[t].loops = s.thd[t].loops
        /\ z.thd[t].parent = s.thd[t].parent /\ z.thd[t].waited = s.thd[t].waited
    BY <2>0, <2>1, <2>3 DEF IsThread, Fields
  <2>. QED  BY <1>8, <2>1, <2>3, <2>4 DEF GivesTokens
<1>11. Becomes(z) /\ cur' = IF Idle(t) THEN t ELSE cur  BY <1>2 DEF s
<1>. HIDE DEF z, b
<1>12. Sound(z, NULL, 0, 0)  BY <1>7, <1>9, <1>10, GivenSound
<1>13. cur' \in Thread /\ z.thd[cur'].state = "ready"
  <2>1. CASE Idle(t)
    BY <1>5, <1>8, <1>10, <1>11, <2>1 DEF GivesTokens
  <2>2. CASE ~Idle(t)
    <3>1. cur' = cur /\ cur \in Thread /\ s.thd[cur].state = "ready"  BY <1>6, <1>11, <2>2 DEF Good
    <3>. HIDE DEF Idle
    <3>2. CASE cur = t  BY <1>8, <1>10, <2>2, <3>1, <3>2 DEF GivesTokens
    <3>3. CASE cur # t  BY <1>10, <3>1, <3>3 DEF GivesTokens
    <3>. QED  BY <3>2, <3>3
  <2>. QED  BY <2>1, <2>2
<1>14. Sound(z, cur', 0, 0)
  <2>. DEFINE v == cur'
  <2>. HIDE DEF v
  <2>1. Sound(z, v, 0, 0)  BY <1>12, ZeroSound
  <2>. QED  BY <2>1 DEF v
<1>15. Good(z, cur', 0, 0)  BY <1>13, <1>14 DEF Good
<1>16. z.thd[cur'].loops \in Nat  BY <1>12, <1>13, LoopsNat
<1>17. breaking' \in Nat /\ breaking' <= z.thd[cur'].loops  BY <1>1, <1>3, <1>16
<1>. QED  BY <1>11, <1>15, <1>17, InvGoes

-----------------------------------------------------------------------------
(* The first state, every step, and what the invariant says of break.      *)
Starts(t, h) ==
  /\ IsThread(h) /\ Fine(t, h) /\ h.loops = 0 /\ ~h.waited
  /\ Cardinality(LoopsIn(h.stack)) = 0 /\ Cardinality(CallersIn(h.stack)) = 0
  /\ Len(h.calls) = 0

LEMMA StartsWith ==
  ASSUME NEW t, NEW h, DOMAIN h = Fields, h.calls = <<>>, h.loops = 0, ~h.waited,
         h.state \in {"ready", "sleeps", "none"}, h.state = "none" <=> DOMAIN h.stack = {},
         t \in Named => h.state # "none", IsList(h.stack),
         \A i \in DOMAIN h.stack : h.stack[i] = [type |-> IF i = 1 THEN "eof" ELSE "source"]
  PROVE  Starts(t, h)
<1>. DEFINE q == h.stack
<1>1. \A i \in DOMAIN q : /\ "type" \in DOMAIN q[i]
                          /\ q[i].type = IF i = 1 THEN "eof" ELSE "source"
  <2>. TAKE i \in DOMAIN q
  <2>1. CASE i = 1
    <3>1. q[i] = [type |-> "eof"]  BY <2>1
    <3>. QED  BY <2>1, <3>1
  <2>2. CASE i # 1
    <3>1. q[i] = [type |-> "source"]  BY <2>2
    <3>. QED  BY <2>2, <3>1
  <2>. QED  BY <2>1, <2>2
<1>2. IsStack(q)  BY <1>1 DEF IsStack, IsElement
<1>3. Len(q) \in Nat /\ DOMAIN q = 1..Len(q)  BY <1>2, StackLen
<1>4. DOMAIN q # {} => q[1].type = "eof"  BY <1>1, <1>3
<1>. HIDE DEF q
<1>5. Ground(q) /\ \A i \in DOMAIN q : q[i].type \in Types
  BY <1>1, <1>4 DEF Ground, Types
<1>6. LoopsIn(q) = {} /\ CallersIn(q) = {}  BY <1>1 DEF LoopsIn, CallersIn, IsCaller
<1>7. Cardinality(LoopsIn(q)) = 0 /\ Cardinality(CallersIn(q)) = 0  BY <1>6, FS_EmptySet
<1>8. IsList(h.calls) /\ Len(h.calls) = 0  BY ListEmpty
<1>9. IsThread(h)  BY <1>2, <1>8 DEF IsThread, q
<1>10. Fine(t, h)  BY <1>5 DEF Fine, q
<1>. QED  BY <1>7, <1>8, <1>9, <1>10 DEF Starts, q

LEMMA FirstThreads ==
  ASSUME Init, NEW t \in Thread
  PROVE  Starts(t, thd[t]) /\ (t = Root => thd[t].state = "ready")
<1>. DEFINE e == [type |-> "eof"]
            f == [type |-> "source"]
<1>1. CASE t = Root
  <2>. DEFINE q == <<e>> \o <<f>>
  <2>. DEFINE r == [NewThread("ready", NULL) EXCEPT !.stack = @ \o <<[type |-> "source"]>>]
  <2>1. thd[t] = r
    <3>1. thd = [u \in Thread |-> CASE u = Root -> r [] u \in Named -> NewThread("sleeps", Root)
                                     [] OTHER -> NoThread]
      BY DEF Init
    <3>. HIDE DEF r
    <3>. QED  BY <1>1, <3>1, ThreadAssumption
  <2>2. /\ DOMAIN thd[t] = Fields /\ thd[t].calls = <<>> /\ thd[t].loops = 0
        /\ thd[t].waited = FALSE /\ thd[t].state = "ready" /\ thd[t].stack = q
    BY <2>1 DEF NewThread, Fields
  <2>3. /\ IsList(q) /\ Len(q) = 2 /\ DOMAIN q = 1..2
        /\ \A i \in 1..2 : q[i] = IF i = 1 THEN e ELSE f
    <3>. HIDE DEF e, f
    <3>1. /\ IsList(<<e>>) /\ Len(<<e>>) = 1 /\ <<e>>[1] = e
          /\ IsList(<<f>>) /\ Len(<<f>>) = 1 /\ <<f>>[1] = f
      BY ListOne
    <3>. DEFINE a == <<e>>
                b == <<f>>
    <3>. HIDE DEF a, b
    <3>2. /\ IsList(a) /\ Len(a) = 1 /\ a[1] = e /\ IsList(b) /\ Len(b) = 1 /\ b[1] = f
      BY <3>1 DEF a, b
    <3>3. /\ IsList(a \o b) /\ Len(a \o b) = Len(a) + Len(b)
          /\ DOMAIN (a \o b) = 1..(Len(a) + Len(b))
          /\ \A i \in 1..(Len(a) + Len(b)) : (a \o b)[i] = IF i <= Len(a) THEN a[i] ELSE b[i - Len(a)]
      BY <3>2, ListJoin
    <3>4. q = a \o b  BY DEF a, b
    <3>. HIDE DEF q
    <3>. QED  BY <3>2, <3>3, <3>4
  <2>. HIDE DEF q
  <2>4. \A i \in DOMAIN q : q[i] = [type |-> IF i = 1 THEN "eof" ELSE "source"]  BY <2>3
  <2>5. DOMAIN q # {}  BY <2>3
  <2>6. Starts(t, thd[t])  BY <2>2, <2>3, <2>4, <2>5, StartsWith
  <2>. QED  BY <2>2, <2>6
<1>2. CASE t # Root /\ t \in Named
  <2>1. thd[t] = NewThread("sleeps", Root)  BY <1>2 DEF Init
  <2>2. /\ DOMAIN thd[t] = Fields /\ thd[t].calls = <<>> /\ thd[t].loops = 0
        /\ thd[t].waited = FALSE /\ thd[t].state = "sleeps" /\ thd[t].stack = <<e>>
    BY <2>1 DEF NewThread, Fields
  <2>3. IsList(<<e>>) /\ DOMAIN <<e>> = {1} /\ <<e>>[1] = e
    <3>. HIDE DEF e
    <3>1. IsList(<<e>>) /\ Len(<<e>>) = 1 /\ <<e>>[1] = e  BY ListOne
    <3>2. DOMAIN <<e>> = 1..Len(<<e>>)  BY <3>1, ListOf DEF IsList
    <3>. QED  BY <3>1, <3>2
  <2>4. \A i \in DOMAIN <<e>> : <<e>>[i] = [type |-> IF i = 1 THEN "eof" ELSE "source"]  BY <2>3
  <2>5. Starts(t, thd[t])  BY <2>2, <2>3, <2>4, StartsWith
  <2>. QED  BY <1>2, <2>5
<1>3. CASE t # Root /\ t \notin Named
  <2>1. thd[t] = NoThread  BY <1>3 DEF Init
  <2>2. /\ DOMAIN thd[t] = Fields /\ thd[t].calls = <<>> /\ thd[t].loops = 0
        /\ thd[t].waited = FALSE /\ thd[t].state = "none" /\ thd[t].stack = <<>>
    BY <2>1 DEF NoThread, NewThread, Fields
  <2>3. Starts(t, thd[t])  BY <1>3, <2>2, ListEmpty, StartsWith
  <2>. QED  BY <1>3, <2>3
<1>. QED  BY <1>1, <1>2, <1>3

LEMMA InitInv == ASSUME Init  PROVE MacroInv
<1>1. \A t \in Thread : Starts(t, thd[t])  BY FirstThreads
<1>2. DOMAIN thd = Thread  BY DEF Init
<1>3. Typed(State)  BY <1>1, <1>2, StateParts DEF Starts, Typed
<1>4. Family(thd)  BY <1>1 DEF Starts, Family
<1>5. Counted(thd, NULL, 0)  BY <1>1 DEF Starts, Counted
<1>6. Covered(thd, NULL, 0)  BY <1>1 DEF Starts, Covered
<1>7. Sound(State, NULL, 0, 0)  BY <1>1, <1>3, <1>4, <1>5, <1>6, StateParts DEF Starts, Sound
<1>8. cur = Root /\ breaking = 0 /\ Root \in Thread  BY DEF Init, Thread
<1>9. thd[Root].state = "ready" /\ thd[Root].loops = 0  BY <1>1, <1>8, FirstThreads DEF Starts
<1>. QED  BY <1>7, <1>8, <1>9 DEF MacroInv

LEMMA NextInv == ASSUME MacroInv, [Next]_vars  PROVE MacroInv'
<1>1. ASSUME thd' = thd, cur' = cur, breaking' = breaking  PROVE MacroInv'
  <2>1. Sound(State, NULL, 0, 0)  BY DEF MacroInv
  <2>2. Typed(State')  BY <1>1, <2>1, StateParts DEF Sound, Typed
  <2>3. Sound(State', NULL, 0, 0)  BY <1>1, <2>1, <2>2, StateParts DEF Sound
  <2>. QED  BY <1>1, <2>3 DEF MacroInv
<1>2. CASE UNCHANGED vars  BY <1>1, <1>2 DEF vars
<1>3. CASE terminated  BY <1>1, <1>3 DEF terminated, vars
<1>4. CASE note \/ get_token \/ strong_token_list \/ end_of_source
  BY <1>4, NoteInv, TokenInv, StrongInv, SourceInv
<1>5. CASE do_def \/ assign \/ do_undef \/ call \/ do_if
  BY <1>5, DefInv, AssignInv, UndefInv, CallInv, IfInv
<1>6. CASE do_for  BY <1>6, ForInv DEF do_for
<1>7. CASE do_foreach  BY <1>7, ForInv DEF do_foreach
<1>8. CASE do_while \/ end_while \/ end_for \/ end_foreach \/ do_break \/ skip
  BY <1>8, WhileInv, EndWhileInv, EndForInv, EndForeachInv, BreakInv, SkipInv
<1>9. CASE do_lbrace \/ do_thread \/ begin_of_named_thread \/ end_of_named_thread \/ do_eof
  BY <1>9, BlockInv, ThreadInv, BotInv, EotInv, EofInv
<1>. QED  BY <1>2, <1>3, <1>4, <1>5, <1>6, <1>7, <1>8, <1>9 DEF Next

LEMMA InvCount == ASSUME MacroInv  PROVE LoopCount
<1>1. \A t \in Thread :
        /\ thd[t].loops \in Int
        /\ thd[t].loops + (IF t = NULL THEN 0 ELSE 0) = Cardinality(LoopsIn(thd[t].stack)) +
             (IF thd[t].waited THEN thd[thd[t].parent].loops ELSE 0)
  BY StateParts DEF MacroInv, Sound, Counted, Fine
<1>2. \A t \in Thread :
        thd[t].loops = Cardinality(LoopsIn(thd[t].stack)) +
          (IF thd[t].waited THEN thd[thd[t].parent].loops ELSE 0)
  <2>. TAKE t \in Thread
  <2>. DEFINE l == thd[t].loops
              r == Cardinality(LoopsIn(thd[t].stack)) +
                     (IF thd[t].waited THEN thd[thd[t].parent].loops ELSE 0)
  <2>1. l \in Int /\ l + (IF t = NULL THEN 0 ELSE 0) = r  BY <1>1
  <2>. HIDE DEF l, r
  <2>2. l = r  BY <2>1
  <2>. QED  BY <2>2 DEF l, r
<1>3. \A t \in Thread : LoopsOf(t) = LoopsIn(thd[t].stack)  BY DEF LoopsOf, LoopsIn
<1>4. cur # NULL => breaking <= thd[cur].loops  BY DEF MacroInv
<1>. QED  BY <1>2, <1>3, <1>4 DEF LoopCount

(* break finds its loops: loop_count is, after every command and while a   *)
(* break is being done, the number of loops that the thread has yet to end *)
(* with those of the thread that waits for it, whatever the blocks, calls  *)
(* and named threads of the program (do_break, do_lbrace, do_eof).         *)
THEOREM LoopCounts == Spec => []LoopCount
<1>1. Init => MacroInv  BY InitInv
<1>2. MacroInv /\ [Next]_vars => MacroInv'  BY NextInv
<1>3. MacroInv => LoopCount  BY InvCount
<1>. QED  BY <1>1, <1>2, <1>3, PTL DEF Spec

=============================================================================
