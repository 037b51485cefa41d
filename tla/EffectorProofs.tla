--------------------------- MODULE EffectorProofs ---------------------------
(* What TLAPS proves of Effectors: nothing refers to what was freed, for   *)
(* every program.  An effector is detached by the thread that attached it, *)
(* and that thread is deleted only when no thread below it is left; events *)
(* are in one buffer or queue, and note-ons and note-offs are partners of  *)
(* each other.                                                             *)
EXTENDS EffectorProperties, FiniteSetTheorems, SequenceTheorems,
        WellFoundedInduction, TLAPS

-----------------------------------------------------------------------------
(* Types.                                                                  *)
Where == {"new", "buffer", "queue", "lost", "freed", "written"}
EventRec ==
  [type : Type, time : Int, track : Track, ch : Chan, irregular : BOOLEAN, partner : Nat,
   eebv : Seq(BOOLEAN), on : SUBSET Nat, at : Where]
ThreadRec ==
  [kind : {"thread", "effector"}, live : BOOLEAN, exiting : BOOLEAN, parent : Nat,
   nchild : Int, effs : Seq(Nat), eebv : Seq(BOOLEAN), on : SUBSET Nat]
EffRec ==
  [class : Class, live : BOOLEAN, thd : Nat, cthru : SUBSET Chan, ethru : SUBSET Type,
   buf : [Track -> Seq(Seq(Nat))], marks : Seq(Int)]
CallRec == [op : {"delete", "detach", "error"}, of : Nat, queue : Seq(Nat)]

EffsOf(s, h) == ToSet(s.thd[h].effs)
Typed(s) ==
  /\ s \in [ev : Seq(EventRec), thd : Seq(ThreadRec), eff : Seq(EffRec)]
  /\ \A h \in DOMAIN s.thd : EffsOf(s, h) \subseteq DOMAIN s.eff
  /\ \A e \in DOMAIN s.eff : s.eff[e].thd \in DOMAIN s.thd

TypeOK ==
  /\ Typed(State)
  /\ classes \in (SUBSET Class) \ {{}} /\ calls \in Seq(CallRec) /\ fuel \in Nat
  /\ \A e \in DOMAIN eff : eff[e].class \in classes \cup {Smfout}

-----------------------------------------------------------------------------
(* Events.  The places of the buffers, and the event in each.              *)
Slots(q) == {x \in Nat \X Nat : x[1] \in DOMAIN q /\ x[2] \in DOMAIN q[x[1]]}
Slot(q, x) == q[x[1]][x[2]]
Places(s) ==
  {p \in (DOMAIN s.eff) \X Track \X (Nat \X Nat) : p[3] \in Slots(s.eff[p[1]].buf[p[2]])}
InPlace(s, p) == Slot(s.eff[p[1]].buf[p[2]], p[3])

Buffered(s) ==
  /\ \A p \in Places(s) : InPlace(s, p) \in DOMAIN s.ev /\ s.ev[InPlace(s, p)].at = "buffer"
  /\ \A p, q \in Places(s) : InPlace(s, p) = InPlace(s, q) => p = q

(* The partners, when those in X are being made or output.                 *)
Mutual(evs, X) ==
  \A i \in DOMAIN evs : evs[i].partner # 0 =>
    /\ evs[i].partner \in DOMAIN evs /\ evs[i].partner # i
    /\ evs[evs[i].partner].partner = i
    /\ evs[i].at \in {"buffer", "queue"} \/ i \in X

Queued(evs, q) ==
  /\ \A j \in DOMAIN q : q[j] \in DOMAIN evs /\ evs[q[j]].at = "queue"
  /\ \A j, k \in DOMAIN q : q[j] = q[k] => j = k

Queues == calls # <<>> => Queued(ev, Call.queue)
EventInv == Buffered(State) /\ Mutual(ev, {}) /\ Queues

-----------------------------------------------------------------------------
(* Threads and their lists of effectors.                                   *)
OwnerOf(s, e) == s.thd[s.eff[e].thd].parent
LiveOf(s) == {h \in DOMAIN s.thd : s.thd[h].live}
ChildrenOf(s, h) == {g \in LiveOf(s) : s.thd[g].kind = "thread" /\ s.thd[g].parent = h}

(* Threads are made after their parents and live no longer, effector       *)
(* threads have only effector threads below them, and every effector has   *)
(* an effector thread of its own.                                          *)
Tree(s) ==
  /\ 1 \in DOMAIN s.thd /\ s.thd[1].parent = 0 /\ s.thd[1].kind = "thread"
  /\ \A h \in DOMAIN s.thd \ {1} :
       /\ s.thd[h].parent \in DOMAIN s.thd /\ s.thd[h].parent < h
       /\ s.thd[h].live => s.thd[s.thd[h].parent].live
       /\ s.thd[h].kind = "thread" => s.thd[s.thd[h].parent].kind = "thread"
  /\ \A e \in DOMAIN s.eff : s.eff[e].thd # 1 /\ s.thd[s.eff[e].thd].kind = "effector"
  /\ \A d, e \in DOMAIN s.eff : s.eff[d].thd = s.eff[e].thd => d = e
  /\ \A g \in DOMAIN s.thd : s.thd[g].kind = "effector" => \E e \in DOMAIN s.eff : s.eff[e].thd = g

(* The list of a thread: the newest first, its own before those that its   *)
(* parent had, all of them attached still.                                 *)
Lists(s) ==
  /\ \A h \in DOMAIN s.thd : \A j, k \in DOMAIN s.thd[h].effs :
       j < k => s.thd[h].effs[j] > s.thd[h].effs[k]
  /\ \A h \in LiveOf(s) : \A e \in EffsOf(s, h) :
       /\ s.eff[e].live
       /\ OwnerOf(s, e) = h \/ (h # 1 /\ e \in EffsOf(s, s.thd[h].parent))
       /\ OwnerOf(s, e) = h => \A d \in EffsOf(s, h) : OwnerOf(s, d) # h => d < e
  /\ \A e \in DOMAIN s.eff : \A d \in EffsOf(s, s.eff[e].thd) :
       OwnerOf(s, d) # s.eff[e].thd => d < e
  /\ \A e \in DOMAIN s.eff : s.eff[e].live => s.eff[e].thd \in LiveOf(s)

(* delete_thread and detach_effector call each other: the thread at the    *)
(* bottom, and above it each the effector thread of one that the one below *)
(* attached.                                                               *)
Chained(s, cs) ==
  /\ \A n \in DOMAIN cs :
       \/ cs[n].op = "delete" /\ cs[n].queue = <<>> /\ cs[n].of \in LiveOf(s)
       \/ n = 1 /\ cs[n].op = "detach" /\ cs[n].of \in DOMAIN s.eff /\ s.eff[cs[n].of].live
  /\ \A n \in DOMAIN cs \ {Len(cs)} :
       LET h == IF cs[n].op = "delete" THEN cs[n].of ELSE s.eff[cs[n].of].thd
       IN h \in LiveOf(s) /\ s.thd[h].kind = "effector" /\ s.thd[h].parent = cs[n + 1].of
  /\ cs # <<>> => cs[Len(cs)].op = "delete" /\ s.thd[cs[Len(cs)].of].kind = "thread"
  /\ \A m, n \in DOMAIN cs : m < n /\ cs[m].op = "delete" => cs[n].of < cs[m].of
  /\ \A n \in DOMAIN cs : cs[n].op = "delete" =>
       \A e \in DOMAIN s.eff : s.eff[e].thd = cs[n].of => ~s.eff[e].live

(* The effector of a live effector thread is in the list of the thread     *)
(* that attached it, or being detached.                                    *)
Detaches(cs, e, g) ==
  \E n \in DOMAIN cs : \/ cs[n].op = "detach" /\ cs[n].of = e
                       \/ cs[n].op = "delete" /\ cs[n].of = g
Attached(s, cs) ==
  \A e \in DOMAIN s.eff : s.eff[e].thd \in LiveOf(s) =>
    e \in EffsOf(s, OwnerOf(s, e)) \/ Detaches(cs, e, s.eff[e].thd)

(* Once a thread detaches its effectors, it has no threads below it; what  *)
(* is being detached is in no list.                                        *)
Detaching(s, cs) ==
  /\ \A n \in DOMAIN cs \ {1} : s.thd[cs[n].of].nchild <= 0 /\ ChildrenOf(s, cs[n].of) = {}
  /\ \A n \in DOMAIN cs : cs[n].op = "detach" => \A h \in LiveOf(s) : cs[n].of \notin EffsOf(s, h)

(* nchild counts the threads, and drops below 0 when effector threads are  *)
(* deleted too.                                                            *)
Counted(s, cs) ==
  \A h \in LiveOf(s) :
    \/ s.thd[h].nchild = Cardinality(ChildrenOf(s, h))
    \/ /\ s.thd[h].nchild <= 0 /\ ChildrenOf(s, h) = {}
       /\ \E n \in DOMAIN cs : cs[n].op = "delete" /\ cs[n].of = h

CallInv(s, cs) == Chained(s, cs) /\ Attached(s, cs) /\ Detaching(s, cs) /\ Counted(s, cs)
ThreadInv == Tree(State) /\ Lists(State) /\ (calls # Error => CallInv(State, calls))

EffectorInv == TypeOK /\ ThreadInv /\ EventInv

-----------------------------------------------------------------------------
(* Numbers and sequences.                                                  *)
LEMMA Least ==
  ASSUME NEW T \in SUBSET Nat, T # {}
  PROVE  \E m \in T : \A k \in T : m <= k
<1>1. IsWellFoundedOn(OpToRel(<, Nat), Nat)  BY NatLessThanWellFounded
<1>2. PICK m \in T : \A k \in T : ~(<<k, m>> \in OpToRel(<, Nat))  BY <1>1, WFMin
<1>3. ASSUME NEW k \in T  PROVE m <= k
  <2>1. ~(k < m)  BY <1>2 DEF OpToRel
  <2>. QED  BY <2>1
<1>. QED  BY <1>3

LEMMA MinIs ==
  ASSUME NEW T \in SUBSET Nat, T # {}
  PROVE  Min(T) \in T /\ \A k \in T : Min(T) <= k
<1>1. PICK m \in T : \A k \in T : m <= k  BY Least
<1>. QED  BY <1>1 DEF Min

LEMMA MaxIs ==
  ASSUME NEW n \in Nat, NEW T \in SUBSET (1..n), T # {}
  PROVE  Max(T) \in T
<1>. DEFINE U == {n - k : k \in T}
<1>1. U \in SUBSET Nat /\ U # {}
  <2>1. ASSUME NEW k \in T  PROVE n - k \in Nat  OBVIOUS
  <2>. QED  BY <2>1
<1>2. PICK m \in U : \A k \in U : m <= k
  <2>. HIDE DEF U
  <2>. QED  BY <1>1, Least
<1>3. PICK x \in T : m = n - x  OBVIOUS
<1>4. ASSUME NEW k \in T  PROVE x >= k
  <2>1. n - k \in U  OBVIOUS
  <2>2. m <= n - k  BY <1>2, <2>1
  <2>. QED  BY <1>3, <2>2
<1>. QED  BY <1>4 DEF Max

LEMMA MaxOfTwo ==
  ASSUME NEW x \in Int
  PROVE  Max({x, 0}) \in Int
<1>1. \E m \in {x, 0} : \A y \in {x, 0} : m >= y
  <2>1. CASE x >= 0  BY <2>1
  <2>2. CASE x < 0  BY <2>2
  <2>. QED  BY <2>1, <2>2
<1>. QED  BY <1>1 DEF Max

LEMMA Changed ==
  ASSUME NEW S, NEW q \in Seq(S), NEW i \in DOMAIN q, NEW e \in S
  PROVE  /\ [q EXCEPT ![i] = e] \in Seq(S)
         /\ DOMAIN [q EXCEPT ![i] = e] = DOMAIN q
         /\ Len([q EXCEPT ![i] = e]) = Len(q)
         /\ [q EXCEPT ![i] = e][i] = e
         /\ \A j \in DOMAIN q \ {i} : [q EXCEPT ![i] = e][j] = q[j]
<1>1. i \in 1..Len(q) /\ DOMAIN q = 1..Len(q)  BY LenProperties
<1>2. [q EXCEPT ![i] = e] \in Seq(S) /\ Len([q EXCEPT ![i] = e]) = Len(q)
  BY <1>1, ExceptSeq
<1>. QED  BY <1>1, <1>2

LEMMA Added ==
  ASSUME NEW S, NEW q \in Seq(S), NEW e \in S
  PROVE  /\ Append(q, e) \in Seq(S) /\ Len(Append(q, e)) = Len(q) + 1
         /\ Len(q) \in Nat /\ DOMAIN q = 1..Len(q)
         /\ DOMAIN Append(q, e) = DOMAIN q \cup {Len(q) + 1}
         /\ Append(q, e)[Len(q) + 1] = e
         /\ \A j \in DOMAIN q : Append(q, e)[j] = q[j]
<1>1. DOMAIN q = 1..Len(q) /\ Len(q) \in Nat  BY LenProperties
<1>2. /\ Append(q, e) \in Seq(S) /\ Len(Append(q, e)) = Len(q) + 1
      /\ \A j \in 1..Len(q) : Append(q, e)[j] = q[j]
      /\ Append(q, e)[Len(q) + 1] = e
  BY AppendProperties
<1>3. DOMAIN Append(q, e) = 1..(Len(q) + 1)  BY <1>2, LenProperties
<1>4. 1..(Len(q) + 1) = 1..Len(q) \cup {Len(q) + 1}  BY <1>1
<1>. QED  BY <1>1, <1>2, <1>3, <1>4

LEMMA Rested ==
  ASSUME NEW S, NEW q \in Seq(S), q # <<>>
  PROVE  /\ Tail(q) \in Seq(S) /\ Len(Tail(q)) = Len(q) - 1
         /\ Len(q) \in Nat \ {0} /\ DOMAIN q = 1..Len(q)
         /\ DOMAIN Tail(q) = 1..(Len(q) - 1)
         /\ Head(q) = q[1] /\ q[1] \in S
         /\ \A j \in DOMAIN Tail(q) : j + 1 \in DOMAIN q /\ Tail(q)[j] = q[j + 1]
<1>1. DOMAIN q = 1..Len(q) /\ Len(q) \in Nat \ {0}  BY LenProperties, EmptySeq
<1>2. /\ Tail(q) \in Seq(S) /\ Len(Tail(q)) = Len(q) - 1
      /\ \A j \in 1..Len(Tail(q)) : Tail(q)[j] = q[j + 1]
  BY HeadTailProperties
<1>3. DOMAIN Tail(q) = 1..(Len(q) - 1)  BY <1>2, LenProperties
<1>4. Head(q) = q[1] /\ q[1] \in S  BY <1>1, ElementOfSeq
<1>. QED  BY <1>1, <1>2, <1>3, <1>4

(* One before the others.                                                  *)
LEMMA Before ==
  ASSUME NEW S, NEW q \in Seq(S), NEW e \in S
  PROVE  /\ <<e>> \o q \in Seq(S) /\ Len(<<e>> \o q) = Len(q) + 1
         /\ Len(q) \in Nat /\ DOMAIN q = 1..Len(q)
         /\ DOMAIN (<<e>> \o q) = 1..(Len(q) + 1)
         /\ (<<e>> \o q)[1] = e
         /\ \A j \in DOMAIN q : (<<e>> \o q)[j + 1] = q[j]
         /\ Tail(<<e>> \o q) = q
<1>1. DOMAIN q = 1..Len(q) /\ Len(q) \in Nat  BY LenProperties
<1>2. <<e>> \in Seq(S) /\ Len(<<e>>) = 1 /\ <<e>>[1] = e  OBVIOUS
<1>3. /\ <<e>> \o q \in Seq(S) /\ Len(<<e>> \o q) = Len(q) + 1
      /\ \A i \in 1..(Len(q) + 1) :
           (<<e>> \o q)[i] = IF i <= 1 THEN <<e>>[i] ELSE q[i - 1]
  BY <1>1, <1>2, ConcatProperties
<1>4. DOMAIN (<<e>> \o q) = 1..(Len(q) + 1)  BY <1>3, LenProperties
<1>5. \A j \in DOMAIN q : j + 1 \in 1..(Len(q) + 1) /\ ~(j + 1 <= 1) /\ j + 1 - 1 = j
  BY <1>1
<1>6. (<<e>> \o q)[1] = e /\ \A j \in DOMAIN q : (<<e>> \o q)[j + 1] = q[j]
  BY <1>1, <1>2, <1>3, <1>5
<1>7. Tail(<<e>> \o q) = q
  <2>1. <<e>> \o q # <<>>  BY <1>1, <1>3, EmptySeq
  <2>2. /\ Tail(<<e>> \o q) \in Seq(S) /\ Len(Tail(<<e>> \o q)) = Len(q)
        /\ \A j \in 1..Len(q) : Tail(<<e>> \o q)[j] = (<<e>> \o q)[j + 1]
    BY <1>1, <1>3, <2>1, Rested
  <2>. QED  BY <1>1, <1>6, <2>2, SeqEqual
<1>. QED  BY <1>1, <1>3, <1>4, <1>6, <1>7

-----------------------------------------------------------------------------
(* Changes of events.  Those that are not in X stay where they are.        *)
Stay(evs, r, X) ==
  /\ r \in Seq(EventRec) /\ DOMAIN evs \subseteq DOMAIN r
  /\ \A j \in DOMAIN evs \ X : r[j].at = evs[j].at

(* A change of other members of an event than partner and at.              *)
LEMMA Revised ==
  ASSUME NEW evs \in Seq(EventRec), NEW i \in DOMAIN evs, NEW e \in EventRec,
         e.partner = evs[i].partner, e.at = evs[i].at, NEW X, Mutual(evs, X)
  PROVE  LET r == [evs EXCEPT ![i] = e]
         IN Mutual(r, X) /\ Stay(evs, r, {}) /\ DOMAIN r = DOMAIN evs
<1>. DEFINE r == [evs EXCEPT ![i] = e]
<1>1. /\ r \in Seq(EventRec) /\ DOMAIN r = DOMAIN evs /\ r[i] = e
      /\ \A j \in DOMAIN evs \ {i} : r[j] = evs[j]
  BY Changed
<1>2. \A j \in DOMAIN evs : r[j].partner = evs[j].partner /\ r[j].at = evs[j].at
  BY <1>1
<1>. HIDE DEF r
<1>3. Mutual(r, X)  BY <1>1, <1>2 DEF Mutual
<1>. QED  BY <1>1, <1>2, <1>3 DEF Stay, r

(* An event that leaves for another place, partner or not.                 *)
LEMMA Moved ==
  ASSUME NEW evs \in Seq(EventRec), NEW i \in DOMAIN evs, NEW e \in EventRec,
         e.partner = evs[i].partner, e.at \in {"buffer", "queue"},
         NEW X, Mutual(evs, X)
  PROVE  LET r == [evs EXCEPT ![i] = e]
         IN /\ Mutual(r, X \ {i}) /\ Stay(evs, r, {i}) /\ DOMAIN r = DOMAIN evs
            /\ r[i] = e
<1>. DEFINE r == [evs EXCEPT ![i] = e]
<1>1. /\ r \in Seq(EventRec) /\ DOMAIN r = DOMAIN evs /\ r[i] = e
      /\ \A j \in DOMAIN evs \ {i} : r[j] = evs[j]
  BY Changed
<1>2. \A j \in DOMAIN evs : r[j].partner = evs[j].partner
  BY <1>1
<1>. HIDE DEF r
<1>3. Mutual(r, X \ {i})  BY <1>1, <1>2 DEF Mutual
<1>. QED  BY <1>1, <1>3 DEF Stay, r

LEMMA EventFree ==
  ASSUME NEW evs \in Seq(EventRec), NEW i \in DOMAIN evs, NEW where \in Where,
         NEW X, Mutual(evs, X)
  PROVE  LET r == event_free(evs, i, where)
         IN /\ Mutual(r, X \ {i}) /\ Stay(evs, r, {i}) /\ DOMAIN r = DOMAIN evs
            /\ r[i].at = where
<1>. DEFINE p == IF evs[i].partner = 0 THEN i ELSE evs[i].partner
            a == [evs[i] EXCEPT !.at = where]
            b == [a EXCEPT !.partner = 0]
            q == [evs EXCEPT ![i] = b]
            c == [q[p] EXCEPT !.partner = 0]
            r == [q EXCEPT ![p] = c]
<1>0. evs[i] \in EventRec /\ p \in DOMAIN evs
  <2>1. evs[i] \in EventRec  BY LenProperties, ElementOfSeq
  <2>. QED  BY <2>1 DEF Mutual
<1>1. b \in EventRec /\ b.partner = 0 /\ b.at = where
  BY <1>0 DEF EventRec
<1>2. /\ q \in Seq(EventRec) /\ DOMAIN q = DOMAIN evs /\ q[i] = b
      /\ \A j \in DOMAIN evs \ {i} : q[j] = evs[j]
  BY <1>1, Changed
<1>3. q[p] \in EventRec  BY <1>0, <1>2, LenProperties, ElementOfSeq
<1>4. c \in EventRec /\ c.partner = 0 /\ c.at = q[p].at
  BY <1>3 DEF EventRec
<1>5. /\ r \in Seq(EventRec) /\ DOMAIN r = DOMAIN evs /\ r[p] = c
      /\ \A j \in DOMAIN evs \ {p} : r[j] = q[j]
  <2>. HIDE DEF c, q, p
  <2>. QED  BY <1>0, <1>2, <1>4, Changed
<1>6. r = event_free(evs, i, where)
  BY DEF event_free
<1>. HIDE DEF r, c, q, b, a
<1>7. /\ r[i].at = where /\ r[i].partner = 0 /\ r[p].partner = 0
      /\ \A j \in DOMAIN evs \ {i} : r[j].at = evs[j].at
      /\ \A j \in DOMAIN evs \ {i, p} : r[j].partner = evs[j].partner
  BY <1>0, <1>1, <1>2, <1>4, <1>5
<1>8. Mutual(r, X \ {i})
  <2>1. SUFFICES ASSUME NEW j \in DOMAIN r, r[j].partner # 0
                 PROVE  /\ r[j].partner \in DOMAIN r /\ r[j].partner # j
                        /\ r[r[j].partner].partner = j
                        /\ r[j].at \in {"buffer", "queue"} \/ j \in X \ {i}
    BY DEF Mutual
  <2>2. j \in DOMAIN evs \ {i, p} /\ r[j].partner = evs[j].partner /\ r[j].at = evs[j].at
    BY <1>5, <1>7, <2>1
  <2>3. /\ evs[j].partner \in DOMAIN evs /\ evs[j].partner # j
        /\ evs[evs[j].partner].partner = j
        /\ evs[j].at \in {"buffer", "queue"} \/ j \in X
    BY <2>1, <2>2 DEF Mutual
  <2>4. evs[j].partner \notin {i, p}
    <3>1. CASE evs[j].partner = i
      <4>1. evs[i].partner = j /\ j # 0  BY <2>3, <3>1, <1>0, LenProperties
      <4>. QED  BY <2>2, <4>1
    <3>2. CASE evs[j].partner = p /\ p # i
      <4>1. evs[p].partner = i  BY <3>2 DEF Mutual
      <4>. QED  BY <2>2, <2>3, <3>2, <4>1
    <3>. QED  BY <3>1, <3>2
  <2>. QED  BY <1>5, <1>7, <2>2, <2>3, <2>4
<1>. QED  BY <1>5, <1>6, <1>7, <1>8 DEF Stay

-----------------------------------------------------------------------------
(* An event that is inserted gets a place of its own.                      *)
Gets(q, r, x, i) ==
  /\ x \in Nat \X Nat /\ x \notin Slots(q) /\ Slots(r) = Slots(q) \cup {x}
  /\ Slot(r, x) = i /\ \A y \in Slots(q) : Slot(r, y) = Slot(q, y)

LEMMA NewSequence ==
  ASSUME NEW q \in Seq(Seq(Nat)), NEW i \in Nat
  PROVE  /\ Append(q, <<i>>) \in Seq(Seq(Nat))
         /\ Gets(q, Append(q, <<i>>), <<Len(q) + 1, 1>>, i)
<1>. DEFINE r == Append(q, <<i>>)
            n == Len(q) + 1
            x == <<n, 1>>
<1>1. <<i>> \in Seq(Nat) /\ DOMAIN <<i>> = {1} /\ <<i>>[1] = i  OBVIOUS
<1>2. /\ r \in Seq(Seq(Nat)) /\ DOMAIN r = DOMAIN q \cup {n} /\ n \in Nat
      /\ n \notin DOMAIN q /\ r[n] = <<i>> /\ \A j \in DOMAIN q : r[j] = q[j]
  <2>1. /\ r \in Seq(Seq(Nat)) /\ DOMAIN r = DOMAIN q \cup {n} /\ DOMAIN q = 1..Len(q)
        /\ Len(q) \in Nat /\ r[n] = <<i>> /\ \A j \in DOMAIN q : r[j] = q[j]
    BY <1>1, Added
  <2>. QED  BY <2>1
<1>. HIDE DEF r, n
<1>3. x \in Nat \X Nat /\ x[1] = n /\ x[2] = 1  BY <1>2
<1>. HIDE DEF x
<1>4. x \notin Slots(q) /\ Slot(r, x) = i  BY <1>1, <1>2, <1>3 DEF Slots, Slot
<1>5. \A y \in Slots(q) : Slot(r, y) = Slot(q, y) /\ y \in Slots(r)
  BY <1>2 DEF Slots, Slot
<1>6. x \in Slots(r)  BY <1>1, <1>2, <1>3 DEF Slots
<1>7. ASSUME NEW y \in Slots(r)  PROVE y \in Slots(q) \cup {x}
  <2>1. y \in Nat \X Nat /\ y[1] \in DOMAIN r /\ y[2] \in DOMAIN r[y[1]]
    BY DEF Slots
  <2>2. CASE y[1] = n
    <3>1. y[2] = 1  BY <1>1, <1>2, <2>1, <2>2
    <3>. QED  BY <1>3, <2>1, <2>2, <3>1
  <2>3. CASE y[1] # n  BY <1>2, <2>1, <2>3 DEF Slots
  <2>. QED  BY <2>2, <2>3
<1>. QED  BY <1>2, <1>3, <1>4, <1>5, <1>6, <1>7 DEF Gets, r, x, n

LEMMA LongerSequence ==
  ASSUME NEW q \in Seq(Seq(Nat)), q # <<>>, NEW i \in Nat
  PROVE  LET r == Front(q) \o <<Append(Last(q), i)>>
         IN /\ r \in Seq(Seq(Nat))
            /\ Gets(q, r, <<Len(q), Len(q[Len(q)]) + 1>>, i)
<1>. DEFINE n == Len(q)
            l == q[n]
            m == Append(l, i)
            r == Front(q) \o <<m>>
            x == <<n, Len(l) + 1>>
<1>1. n \in Nat \ {0} /\ DOMAIN q = 1..n  BY EmptySeq, LenProperties
<1>2. l \in Seq(Nat)  BY <1>1, ElementOfSeq
<1>3. /\ m \in Seq(Nat) /\ DOMAIN m = DOMAIN l \cup {Len(l) + 1} /\ DOMAIN l = 1..Len(l)
      /\ Len(l) \in Nat /\ m[Len(l) + 1] = i /\ \A j \in DOMAIN l : m[j] = l[j]
  <2>. HIDE DEF l
  <2>. QED  BY <1>2, Added
<1>4. /\ r \in Seq(Seq(Nat)) /\ DOMAIN r = DOMAIN q /\ r[n] = m
      /\ \A j \in DOMAIN q \ {n} : r[j] = q[j]
  <2>. HIDE DEF m
  <2>1. \A j \in 1..(n - 1) : q[j] \in Seq(Nat)  BY <1>1, ElementOfSeq
  <2>2. /\ Front(q) \in Seq(Seq(Nat)) /\ Len(Front(q)) = n - 1
        /\ \A j \in 1..(n - 1) : Front(q)[j] = q[j]
    <3>1. /\ SubSeq(q, 1, n - 1) \in Seq(Seq(Nat))
          /\ Len(SubSeq(q, 1, n - 1)) = IF 1 <= n - 1 THEN n - 1 - 1 + 1 ELSE 0
          /\ \A j \in 1..(n - 1 - 1 + 1) : SubSeq(q, 1, n - 1)[j] = q[1 + j - 1]
      BY <1>1, <2>1, SubSeqProperties
    <3>2. n - 1 - 1 + 1 = n - 1 /\ \A j \in 1..(n - 1) : 1 + j - 1 = j  BY <1>1
    <3>. QED  BY <1>1, <3>1, <3>2 DEF Front
  <2>3. <<m>> \in Seq(Seq(Nat)) /\ Len(<<m>>) = 1 /\ <<m>>[1] = m  BY <1>3
  <2>4. /\ r \in Seq(Seq(Nat)) /\ Len(r) = n - 1 + 1
        /\ \A j \in 1..(n - 1 + 1) : r[j] = IF j <= n - 1 THEN Front(q)[j] ELSE <<m>>[j - (n - 1)]
    BY <2>2, <2>3, ConcatProperties
  <2>5. r[n] = m  BY <1>1, <2>3, <2>4
  <2>. HIDE DEF r
  <2>6. ASSUME NEW j \in 1..n, j # n  PROVE r[j] = q[j]
    <3>. HIDE DEF n
    <3>1. j \in 1..(n - 1) /\ j \in 1..(n - 1 + 1) /\ j <= n - 1  BY <1>1, <2>6
    <3>. QED  BY <2>2, <2>4, <3>1
  <2>7. Len(r) = n  BY <1>1, <2>4
  <2>8. DOMAIN r = 1..n  BY <2>4, <2>7, LenProperties
  <2>. QED  BY <1>1, <2>4, <2>5, <2>6, <2>8
<1>5. x \in Nat \X Nat /\ x[1] = n /\ x[2] = Len(l) + 1  BY <1>1, <1>3
<1>6. r = Front(q) \o <<Append(Last(q), i)>>  BY DEF Last
<1>. HIDE DEF r, m, x
<1>7. x \notin Slots(q) /\ Slot(r, x) = i
  <2>1. Len(l) + 1 \notin DOMAIN l  BY <1>3
  <2>. QED  BY <1>3, <1>4, <1>5, <2>1 DEF Slots, Slot
<1>8. \A y \in Slots(q) : Slot(r, y) = Slot(q, y) /\ y \in Slots(r)
  BY <1>3, <1>4 DEF Slots, Slot
<1>9. x \in Slots(r)  BY <1>1, <1>3, <1>4, <1>5 DEF Slots
<1>10. ASSUME NEW y \in Slots(r)  PROVE y \in Slots(q) \cup {x}
  <2>1. y \in Nat \X Nat /\ y[1] \in DOMAIN r /\ y[2] \in DOMAIN r[y[1]]
    BY DEF Slots
  <2>2. CASE y[1] = n /\ y[2] = Len(l) + 1  BY <1>5, <2>1, <2>2
  <2>3. CASE y[1] = n /\ y[2] # Len(l) + 1  BY <1>3, <1>4, <2>1, <2>3 DEF Slots
  <2>4. CASE y[1] # n  BY <1>4, <2>1, <2>4 DEF Slots
  <2>. QED  BY <2>2, <2>3, <2>4
<1>. QED  BY <1>4, <1>5, <1>6, <1>7, <1>8, <1>9, <1>10 DEF Gets, x

LEMMA Inserted ==
  ASSUME NEW evs, NEW q \in Seq(Seq(Nat)), NEW i \in Nat
  PROVE  /\ insert_event(evs, q, i) \in Seq(Seq(Nat))
         /\ \E x : Gets(q, insert_event(evs, q, i), x, i)
<1>1. CASE q = <<>> \/ EV_LESS(evs[i], evs[Last(Last(q))])
  BY <1>1, NewSequence DEF insert_event
<1>2. CASE ~(q = <<>> \/ EV_LESS(evs[i], evs[Last(Last(q))]))
  <2>1. q # <<>>  BY <1>2
  <2>2. insert_event(evs, q, i) = Front(q) \o <<Append(Last(q), i)>>
    BY <1>2 DEF insert_event
  <2>. QED  BY <2>1, <2>2, LongerSequence
<1>. QED  BY <1>1, <1>2

-----------------------------------------------------------------------------
(* output_event changes nothing of the threads and effectors but buffers.  *)
SameTree(s, r) ==
  /\ DOMAIN r.thd = DOMAIN s.thd
  /\ \A h \in DOMAIN s.thd :
       /\ r.thd[h].kind = s.thd[h].kind /\ r.thd[h].live = s.thd[h].live
       /\ r.thd[h].parent = s.thd[h].parent /\ r.thd[h].nchild = s.thd[h].nchild
       /\ r.thd[h].effs = s.thd[h].effs
  /\ DOMAIN r.eff = DOMAIN s.eff
  /\ \A e \in DOMAIN s.eff :
       /\ r.eff[e].thd = s.eff[e].thd /\ r.eff[e].live = s.eff[e].live
       /\ r.eff[e].class = s.eff[e].class

OnePlace(s, r, e, k, x, i) ==
  /\ DOMAIN r.eff = DOMAIN s.eff /\ e \in DOMAIN s.eff /\ k \in Track
  /\ Gets(s.eff[e].buf[k], r.eff[e].buf[k], x, i)
  /\ \A d \in DOMAIN s.eff, l \in Track :
       ~(d = e /\ l = k) => r.eff[d].buf[l] = s.eff[d].buf[l]

LEMMA PlaceGot ==
  ASSUME NEW s, NEW r, NEW e, NEW k, NEW x, NEW i, OnePlace(s, r, e, k, x, i)
  PROVE  LET p == <<e, k, x>>
         IN /\ p \notin Places(s) /\ Places(r) = Places(s) \cup {p}
            /\ InPlace(r, p) = i /\ \A y \in Places(s) : InPlace(r, y) = InPlace(s, y)
<1>. DEFINE p == <<e, k, x>>
<1>0. /\ DOMAIN r.eff = DOMAIN s.eff /\ e \in DOMAIN s.eff /\ k \in Track
      /\ Gets(s.eff[e].buf[k], r.eff[e].buf[k], x, i)
      /\ \A d \in DOMAIN s.eff, l \in Track :
           ~(d = e /\ l = k) => r.eff[d].buf[l] = s.eff[d].buf[l]
  BY DEF OnePlace
<1>1. /\ x \in Nat \X Nat /\ x \notin Slots(s.eff[e].buf[k])
      /\ Slots(r.eff[e].buf[k]) = Slots(s.eff[e].buf[k]) \cup {x}
      /\ Slot(r.eff[e].buf[k], x) = i
      /\ \A y \in Slots(s.eff[e].buf[k]) : Slot(r.eff[e].buf[k], y) = Slot(s.eff[e].buf[k], y)
  BY <1>0 DEF Gets
<1>2. /\ p \in (DOMAIN s.eff) \X Track \X (Nat \X Nat) /\ p[1] = e /\ p[2] = k /\ p[3] = x
  BY <1>0, <1>1
<1>3. p \notin Places(s) /\ InPlace(r, p) = i
  BY <1>0, <1>1, <1>2 DEF Places, InPlace
<1>4. p \in Places(r)
  BY <1>0, <1>1, <1>2 DEF Places
<1>5. ASSUME NEW y \in Places(s)
      PROVE  y \in Places(r) /\ InPlace(r, y) = InPlace(s, y)
  <2>1. /\ y \in (DOMAIN s.eff) \X Track \X (Nat \X Nat) /\ y[1] \in DOMAIN s.eff
        /\ y[2] \in Track /\ y[3] \in Slots(s.eff[y[1]].buf[y[2]])
    BY <1>0 DEF Places
  <2>2. CASE y[1] = e /\ y[2] = k
    BY <1>0, <1>1, <2>1, <2>2 DEF Places, InPlace
  <2>3. CASE ~(y[1] = e /\ y[2] = k)
    <3>1. r.eff[y[1]].buf[y[2]] = s.eff[y[1]].buf[y[2]]  BY <1>0, <2>1, <2>3
    <3>. QED  BY <1>0, <2>1, <3>1 DEF Places, InPlace
  <2>. QED  BY <1>0, <2>2, <2>3
<1>6. ASSUME NEW y \in Places(r), y \notin Places(s)
      PROVE  y = p
  <2>1. /\ y \in (DOMAIN s.eff) \X Track \X (Nat \X Nat) /\ y[1] \in DOMAIN s.eff
        /\ y[2] \in Track /\ y[3] \in Slots(r.eff[y[1]].buf[y[2]])
        /\ y = <<y[1], y[2], y[3]>>
    BY <1>0 DEF Places
  <2>2. CASE y[1] = e /\ y[2] = k
    <3>1. y[3] \notin Slots(s.eff[e].buf[k])
      BY <1>0, <1>6, <2>1, <2>2 DEF Places
    <3>2. y[3] = x  BY <1>0, <1>1, <2>1, <2>2, <3>1
    <3>. QED  BY <1>0, <2>1, <2>2, <3>2
  <2>3. CASE ~(y[1] = e /\ y[2] = k)
    <3>1. r.eff[y[1]].buf[y[2]] = s.eff[y[1]].buf[y[2]]  BY <1>0, <2>1, <2>3
    <3>. QED  BY <1>0, <1>6, <2>1, <3>1 DEF Places
  <2>. QED  BY <1>0, <2>2, <2>3
<1>. HIDE DEF p
<1>7. Places(r) = Places(s) \cup {p}  BY <1>0, <1>4, <1>5, <1>6
<1>. QED  BY <1>0, <1>3, <1>5, <1>7 DEF p

(* The buffers when the events that they have stay in their places.        *)
LEMMA StillBuffered ==
  ASSUME NEW s, NEW r, Buffered(s), Places(r) = Places(s),
         \A y \in Places(s) : InPlace(r, y) = InPlace(s, y),
         NEW X, Stay(s.ev, r.ev, X), \A i \in X \cap DOMAIN s.ev : s.ev[i].at # "buffer"
  PROVE  Buffered(r)
<1>1. ASSUME NEW y \in Places(r)
      PROVE  InPlace(r, y) \in DOMAIN r.ev /\ r.ev[InPlace(r, y)].at = "buffer"
  <2>1. InPlace(r, y) \in DOMAIN s.ev /\ s.ev[InPlace(r, y)].at = "buffer"
    BY DEF Buffered
  <2>2. InPlace(r, y) \notin X  BY <2>1
  <2>. QED  BY <2>1, <2>2 DEF Stay
<1>2. ASSUME NEW y \in Places(r), NEW z \in Places(r), InPlace(r, y) = InPlace(r, z)
      PROVE  y = z
  BY <1>2 DEF Buffered
<1>. QED  BY <1>1, <1>2 DEF Buffered

LEMMA OneMoreBuffered ==
  ASSUME NEW s, NEW r, Buffered(s), NEW p, NEW i \in DOMAIN s.ev,
         p \notin Places(s), Places(r) = Places(s) \cup {p}, InPlace(r, p) = i,
         \A y \in Places(s) : InPlace(r, y) = InPlace(s, y),
         Stay(s.ev, r.ev, {i}), s.ev[i].at # "buffer", r.ev[i].at = "buffer"
  PROVE  Buffered(r)
<1>1. \A y \in Places(s) : InPlace(r, y) # i
  BY DEF Buffered
<1>2. ASSUME NEW y \in Places(r)
      PROVE  InPlace(r, y) \in DOMAIN r.ev /\ r.ev[InPlace(r, y)].at = "buffer"
  <2>1. CASE y = p  BY <2>1 DEF Stay
  <2>2. CASE y # p
    <3>1. y \in Places(s) /\ InPlace(r, y) = InPlace(s, y)  BY <2>2
    <3>2. InPlace(r, y) \in DOMAIN s.ev \ {i} /\ s.ev[InPlace(r, y)].at = "buffer"
      BY <1>1, <3>1 DEF Buffered
    <3>. QED  BY <3>2 DEF Stay
  <2>. QED  BY <2>1, <2>2
<1>3. ASSUME NEW y \in Places(r), NEW z \in Places(r), InPlace(r, y) = InPlace(r, z)
      PROVE  y = z
  <2>1. CASE y \in Places(s) /\ z \in Places(s)
    BY <1>3, <2>1 DEF Buffered
  <2>2. CASE ~(y \in Places(s) /\ z \in Places(s))
    <3>1. y = p \/ z = p  BY <2>2
    <3>. QED  BY <1>1, <1>3, <3>1
  <2>. QED  BY <2>1, <2>2
<1>. QED  BY <1>2, <1>3 DEF Buffered

-----------------------------------------------------------------------------
(* What the states hold: the types that a state says.                      *)
LEMMA TypedIs ==
  ASSUME NEW s, Typed(s)
  PROVE  /\ s = [ev |-> s.ev, thd |-> s.thd, eff |-> s.eff]
         /\ s.ev \in Seq(EventRec) /\ s.thd \in Seq(ThreadRec) /\ s.eff \in Seq(EffRec)
         /\ DOMAIN s.ev = 1..Len(s.ev) /\ Len(s.ev) \in Nat
         /\ DOMAIN s.thd = 1..Len(s.thd) /\ Len(s.thd) \in Nat
         /\ DOMAIN s.eff = 1..Len(s.eff) /\ Len(s.eff) \in Nat
         /\ \A i \in DOMAIN s.ev : s.ev[i] \in EventRec
         /\ \A h \in DOMAIN s.thd : s.thd[h] \in ThreadRec
         /\ \A e \in DOMAIN s.eff : s.eff[e] \in EffRec
<1>1. s \in [ev : Seq(EventRec), thd : Seq(ThreadRec), eff : Seq(EffRec)]
  BY DEF Typed
<1>2. s.ev \in Seq(EventRec) /\ s.thd \in Seq(ThreadRec) /\ s.eff \in Seq(EffRec)
  BY <1>1
<1>3. s = [ev |-> s.ev, thd |-> s.thd, eff |-> s.eff]  BY <1>1
<1>4. /\ DOMAIN s.ev = 1..Len(s.ev) /\ Len(s.ev) \in Nat
      /\ DOMAIN s.thd = 1..Len(s.thd) /\ Len(s.thd) \in Nat
      /\ DOMAIN s.eff = 1..Len(s.eff) /\ Len(s.eff) \in Nat
  BY <1>2, LenProperties
<1>. QED  BY <1>2, <1>3, <1>4, ElementOfSeq

LEMMA TypedOf ==
  ASSUME NEW evs \in Seq(EventRec), NEW hs \in Seq(ThreadRec), NEW es \in Seq(EffRec),
         \A h \in DOMAIN hs : ToSet(hs[h].effs) \subseteq DOMAIN es,
         \A e \in DOMAIN es : es[e].thd \in DOMAIN hs
  PROVE  Typed([ev |-> evs, thd |-> hs, eff |-> es])
BY DEF Typed, EffsOf

(* One effector with other buffers or marks.                               *)
LEMMA OneChanged ==
  ASSUME NEW s, Typed(s), NEW e \in DOMAIN s.eff, NEW f \in EffRec,
         f.thd = s.eff[e].thd, f.live = s.eff[e].live, f.class = s.eff[e].class,
         NEW evs \in Seq(EventRec)
  PROVE  LET r == [ev |-> evs, thd |-> s.thd, eff |-> [s.eff EXCEPT ![e] = f]]
         IN /\ Typed(r) /\ SameTree(s, r) /\ r.eff[e] = f
            /\ \A d \in DOMAIN s.eff \ {e} : r.eff[d] = s.eff[d]
<1>. DEFINE es == [s.eff EXCEPT ![e] = f]
            r == [ev |-> evs, thd |-> s.thd, eff |-> es]
<1>1. s.eff \in Seq(EffRec) /\ s.thd \in Seq(ThreadRec)  BY TypedIs
<1>2. /\ es \in Seq(EffRec) /\ DOMAIN es = DOMAIN s.eff /\ es[e] = f
      /\ \A d \in DOMAIN s.eff \ {e} : es[d] = s.eff[d]
  BY <1>1, Changed
<1>. HIDE DEF es
<1>3. Typed(r)
  <2>1. \A h \in DOMAIN s.thd : ToSet(s.thd[h].effs) \subseteq DOMAIN es
    BY <1>2 DEF Typed, EffsOf
  <2>2. \A d \in DOMAIN es : es[d].thd \in DOMAIN s.thd
    BY <1>2 DEF Typed
  <2>. QED  BY <1>1, <1>2, <2>1, <2>2, TypedOf
<1>4. SameTree(s, r)  BY <1>2 DEF SameTree
<1>. QED  BY <1>2, <1>3, <1>4 DEF es

LEMMA Output ==
  ASSUME NEW s, Typed(s), Buffered(s), NEW h \in DOMAIN s.thd, NEW i \in DOMAIN s.ev,
         s.ev[i].at # "buffer", NEW X, Mutual(s.ev, X)
  PROVE  LET r == output_event(s, h, i)
         IN /\ Typed(r) /\ Buffered(r) /\ Mutual(r.ev, X \ {i}) /\ SameTree(s, r)
            /\ Stay(s.ev, r.ev, {i}) /\ DOMAIN r.ev = DOMAIN s.ev /\ r.thd = s.thd
<1>. DEFINE t == s.thd[h]
            k == Min(Takers(s, h, i))
            e == t.effs[k]
            moves == "MoveTimeEv" \in s.eff[e].class.flags /\ s.ev[i].type \in IsTime
            tk == IF moves THEN 1 ELSE s.ev[i].track
            bv == Below(t.eebv, k)
            o == IF s.ev[i].at = "new" THEN t.on ELSE s.ev[i].on
            a == [s.ev[i] EXCEPT !.at = "buffer", !.track = tk, !.eebv = bv, !.on = o]
            evs == [s.ev EXCEPT ![i].at = "buffer", ![i].track = tk, ![i].eebv = bv,
                                ![i].on = IF s.ev[i].at = "new" THEN t.on ELSE @]
            q == s.eff[e].buf[tk]
            marks == "CollectMarker" \in s.eff[e].class.flags /\ s.ev[i].type \in IsTime
            f == [s.eff[e] EXCEPT !.buf[tk] = insert_event(evs, @, i),
                                  !.marks = IF marks THEN Append(@, s.ev[i].time) ELSE @]
            r == [ev |-> evs, thd |-> s.thd, eff |-> [s.eff EXCEPT ![e] = f]]
<1>1. /\ s = [ev |-> s.ev, thd |-> s.thd, eff |-> s.eff]
      /\ s.ev \in Seq(EventRec) /\ s.thd \in Seq(ThreadRec) /\ s.eff \in Seq(EffRec)
      /\ s.ev[i] \in EventRec /\ t \in ThreadRec /\ DOMAIN s.ev = 1..Len(s.ev)
  BY TypedIs
<1>2. CASE Takers(s, h, i) = {}
  <2>1. output_event(s, h, i) = [s EXCEPT !.ev = event_free(@, i, "lost")]
    BY <1>2 DEF output_event
  <2>2. output_event(s, h, i) = [ev |-> event_free(s.ev, i, "lost"), thd |-> s.thd, eff |-> s.eff]
    BY <1>1, <2>1
  <2>. DEFINE z == event_free(s.ev, i, "lost")
              u == [ev |-> z, thd |-> s.thd, eff |-> s.eff]
  <2>3. Mutual(z, X \ {i}) /\ Stay(s.ev, z, {i}) /\ DOMAIN z = DOMAIN s.ev
    <3>1. "lost" \in Where  BY DEF Where
    <3>. QED  BY <1>1, <3>1, EventFree
  <2>. HIDE DEF z
  <2>4. z \in Seq(EventRec)  BY <2>3 DEF Stay
  <2>5. Typed(u)  BY <1>1, <2>4, TypedOf DEF Typed, EffsOf
  <2>6. SameTree(s, u)  BY DEF SameTree
  <2>7. Places(u) = Places(s) /\ \A y \in Places(s) : InPlace(u, y) = InPlace(s, y)
    BY DEF Places, InPlace
  <2>8. Buffered(u)
    <3>1. Stay(s.ev, u.ev, {i}) /\ \A j \in {i} \cap DOMAIN s.ev : s.ev[j].at # "buffer"
      BY <2>3
    <3>. HIDE DEF u
    <3>. QED  BY <2>7, <3>1, StillBuffered
  <2>. QED  BY <2>2, <2>3, <2>5, <2>6, <2>8 DEF z
<1>3. CASE Takers(s, h, i) # {}
  <2>0. output_event(s, h, i) = [s EXCEPT !.ev = evs, !.eff[e] = f]
    <3>1. output_event(s, h, i) = Taken(s, h, i, k)  BY <1>3 DEF output_event
    <3>. QED  BY <3>1 DEF Taken
  <2>1. t.effs \in Seq(Nat) /\ t.eebv \in Seq(BOOLEAN) /\ t.on \in SUBSET Nat
    BY <1>1 DEF ThreadRec
  <2>2. Takers(s, h, i) \in SUBSET DOMAIN t.effs /\ DOMAIN t.effs = 1..Len(t.effs)
    <3>1. DOMAIN t.effs = 1..Len(t.effs) /\ Len(t.effs) \in Nat  BY <2>1, LenProperties
    <3>. QED  BY <3>1 DEF Takers
  <2>3. k \in DOMAIN t.effs /\ k \in Nat
    <3>1. k \in Takers(s, h, i)
      <4>1. Takers(s, h, i) \in SUBSET Nat  BY <2>2
      <4>. QED  BY <1>3, <4>1, MinIs
    <3>. QED  BY <2>2, <3>1
  <2>. HIDE DEF k
  <2>4. e \in DOMAIN s.eff
    BY <2>3 DEF Typed, EffsOf, ToSet
  <2>. HIDE DEF e
  <2>5. s.eff[e] \in EffRec  BY <2>4, TypedIs
  <2>6. tk \in Track
    <3>1. 1 \in Track  BY BoundAssumption DEF Track
    <3>2. s.ev[i].track \in Track  BY <1>1 DEF EventRec
    <3>. QED  BY <3>1, <3>2
  <2>. HIDE DEF tk
  <2>7. bv \in Seq(BOOLEAN)
    <3>1. Len(t.eebv) \in Nat /\ \A j \in 1..Len(t.eebv) : t.eebv[j] \in BOOLEAN
      BY <2>1, LenProperties, ElementOfSeq
    <3>2. \A j \in (k + 1)..Len(t.eebv) : t.eebv[j] \in BOOLEAN  BY <2>3, <3>1
    <3>3. k + 1 \in Int /\ Len(t.eebv) \in Int  BY <2>3, <3>1
    <3>. QED  BY <3>2, <3>3, SubSeqProperties DEF Below
  <2>8. o \in SUBSET Nat  BY <1>1, <2>1 DEF EventRec
  <2>. HIDE DEF bv, o
  <2>9. a \in EventRec /\ a.partner = s.ev[i].partner /\ a.at = "buffer"
    BY <1>1, <2>6, <2>7, <2>8 DEF EventRec, Where
  <2>10. evs = [s.ev EXCEPT ![i] = a]  BY <1>1 DEF o
  <2>. HIDE DEF a
  <2>11. /\ Mutual(evs, X \ {i}) /\ Stay(s.ev, evs, {i}) /\ DOMAIN evs = DOMAIN s.ev
         /\ evs[i].at = "buffer"
    BY <1>1, <2>9, <2>10, Moved
  <2>12. evs \in Seq(EventRec)  BY <2>11 DEF Stay
  <2>. HIDE DEF evs
  <2>13. q \in Seq(Seq(Nat)) /\ i \in Nat
    BY <1>1, <2>5, <2>6 DEF EffRec
  <2>14. /\ insert_event(evs, q, i) \in Seq(Seq(Nat))
         /\ \E x : Gets(q, insert_event(evs, q, i), x, i)
    BY <2>13, Inserted
  <2>15. s.eff[e].marks \in Seq(Int) /\ Append(s.eff[e].marks, s.ev[i].time) \in Seq(Int)
    <3>1. s.eff[e].marks \in Seq(Int) /\ s.ev[i].time \in Int  BY <1>1, <2>5 DEF EffRec, EventRec
    <3>. QED  BY <3>1, AppendProperties
  <2>16. /\ f \in EffRec /\ f.buf = [s.eff[e].buf EXCEPT ![tk] = insert_event(evs, q, i)]
         /\ f.thd = s.eff[e].thd /\ f.live = s.eff[e].live /\ f.class = s.eff[e].class
    BY <2>5, <2>6, <2>14, <2>15 DEF EffRec
  <2>17. output_event(s, h, i) = r  BY <1>1, <2>0
  <2>. HIDE DEF f
  <2>18. /\ Typed(r) /\ SameTree(s, r) /\ r.eff[e] = f
         /\ \A d \in DOMAIN s.eff \ {e} : r.eff[d] = s.eff[d]
    BY <2>4, <2>12, <2>16, OneChanged
  <2>19. r.ev = evs /\ r.thd = s.thd  OBVIOUS
  <2>. HIDE DEF r
  <2>20. PICK x : Gets(q, insert_event(evs, q, i), x, i)  BY <2>14
  <2>. DEFINE p == <<e, tk, x>>
  <2>21. /\ p \notin Places(s) /\ Places(r) = Places(s) \cup {p}
         /\ InPlace(r, p) = i /\ \A y \in Places(s) : InPlace(r, y) = InPlace(s, y)
    <3>1. DOMAIN r.eff = DOMAIN s.eff  BY <2>18 DEF SameTree
    <3>2. s.eff[e].buf \in [Track -> Seq(Seq(Nat))]  BY <2>5 DEF EffRec
    <3>3. r.eff[e].buf[tk] = insert_event(evs, q, i)
      BY <2>6, <2>16, <2>18, <3>2
    <3>4. \A l \in Track : l # tk => r.eff[e].buf[l] = s.eff[e].buf[l]
      BY <2>6, <2>16, <2>18, <3>2
    <3>5. \A d \in DOMAIN s.eff, l \in Track :
            ~(d = e /\ l = tk) => r.eff[d].buf[l] = s.eff[d].buf[l]
      BY <2>18, <3>4
    <3>6. Gets(s.eff[e].buf[tk], r.eff[e].buf[tk], x, i)  BY <2>20, <3>3
    <3>7. OnePlace(s, r, e, tk, x, i)  BY <2>4, <2>6, <3>1, <3>5, <3>6 DEF OnePlace
    <3>. HIDE DEF q, t, moves, marks
    <3>. QED  BY <3>7, PlaceGot
  <2>22. Buffered(r)
    <3>. HIDE DEF p
    <3>. QED  BY <2>11, <2>19, <2>21, OneMoreBuffered
  <2>. QED  BY <2>11, <2>17, <2>18, <2>19, <2>22
<1>. QED  BY <1>2, <1>3


-----------------------------------------------------------------------------
(* States whose events are in order, but for the partners in X; and what   *)
(* an operation on events does, which those in Y may leave their places.   *)
Good(s, X) == Typed(s) /\ Buffered(s) /\ Mutual(s.ev, X)
Kept(s, r, X, Y) == Good(r, X) /\ SameTree(s, r) /\ Stay(s.ev, r.ev, Y)
NotBuffered(s, Y) == \A i \in Y \cap DOMAIN s.ev : s.ev[i].at # "buffer"

LEMMA ChangedEvents ==
  ASSUME NEW s, NEW X, Good(s, X), NEW Y, NotBuffered(s, Y),
         NEW evs, Stay(s.ev, evs, Y), NEW Z, Mutual(evs, Z)
  PROVE  LET r == [s EXCEPT !.ev = evs]
         IN Kept(s, r, Z, Y) /\ r.ev = evs /\ r.thd = s.thd /\ r.eff = s.eff
<1>. DEFINE r == [ev |-> evs, thd |-> s.thd, eff |-> s.eff]
<1>1. /\ s = [ev |-> s.ev, thd |-> s.thd, eff |-> s.eff]
      /\ s.thd \in Seq(ThreadRec) /\ s.eff \in Seq(EffRec)
  BY TypedIs DEF Good
<1>2. [s EXCEPT !.ev = evs] = r  BY <1>1
<1>3. Typed(r)
  <2>1. evs \in Seq(EventRec)  BY DEF Stay
  <2>. QED  BY <1>1, <2>1, TypedOf DEF Typed, EffsOf, Good
<1>4. SameTree(s, r)  BY DEF SameTree
<1>5. Places(r) = Places(s) /\ \A y \in Places(s) : InPlace(r, y) = InPlace(s, y)
  BY DEF Places, InPlace
<1>6. r.ev = evs /\ r.thd = s.thd /\ r.eff = s.eff  OBVIOUS
<1>. HIDE DEF r
<1>7. Buffered(r)
  <2>1. Stay(s.ev, r.ev, Y)  BY <1>6
  <2>. QED  BY <1>5, <2>1, StillBuffered DEF Good, NotBuffered
<1>. QED  BY <1>2, <1>3, <1>4, <1>6, <1>7 DEF Kept, Good

(* Threads with other flags.                                               *)
LEMMA ChangedFlags ==
  ASSUME NEW s, NEW X, Good(s, X), NEW h \in DOMAIN s.thd,
         NEW bv \in Seq(BOOLEAN), NEW o \in SUBSET Nat
  PROVE  LET r == WithFlags(s, h, bv, o)
         IN Kept(s, r, X, {}) /\ r.ev = s.ev
<1>. DEFINE t == [s.thd[h] EXCEPT !.eebv = bv, !.on = o]
            hs == [s.thd EXCEPT ![h] = t]
            r == [ev |-> s.ev, thd |-> hs, eff |-> s.eff]
<1>1. /\ s = [ev |-> s.ev, thd |-> s.thd, eff |-> s.eff] /\ s.ev \in Seq(EventRec)
      /\ s.thd \in Seq(ThreadRec) /\ s.eff \in Seq(EffRec) /\ s.thd[h] \in ThreadRec
  BY TypedIs DEF Good
<1>2. /\ t \in ThreadRec /\ t.kind = s.thd[h].kind /\ t.live = s.thd[h].live
      /\ t.parent = s.thd[h].parent /\ t.nchild = s.thd[h].nchild /\ t.effs = s.thd[h].effs
  BY <1>1 DEF ThreadRec
<1>3. WithFlags(s, h, bv, o) = [s EXCEPT !.thd[h] = t]  BY DEF WithFlags
<1>. HIDE DEF t
<1>0. WithFlags(s, h, bv, o) = r  BY <1>1, <1>3
<1>4. /\ hs \in Seq(ThreadRec) /\ DOMAIN hs = DOMAIN s.thd /\ hs[h] = t
      /\ \A g \in DOMAIN s.thd \ {h} : hs[g] = s.thd[g]
  BY <1>1, <1>2, Changed
<1>. HIDE DEF hs
<1>5. \A g \in DOMAIN s.thd :
        /\ hs[g].kind = s.thd[g].kind /\ hs[g].live = s.thd[g].live
        /\ hs[g].parent = s.thd[g].parent /\ hs[g].nchild = s.thd[g].nchild
        /\ hs[g].effs = s.thd[g].effs
  BY <1>2, <1>4
<1>6. Typed(r)
  <2>1. \A g \in DOMAIN hs : ToSet(hs[g].effs) \subseteq DOMAIN s.eff
    BY <1>4, <1>5 DEF Typed, EffsOf, Good
  <2>2. \A e \in DOMAIN s.eff : s.eff[e].thd \in DOMAIN hs
    BY <1>4 DEF Typed, Good
  <2>. QED  BY <1>1, <1>4, <2>1, <2>2, TypedOf
<1>7. SameTree(s, r)  BY <1>4, <1>5 DEF SameTree
<1>8. Places(r) = Places(s) /\ \A y \in Places(s) : InPlace(r, y) = InPlace(s, y)
  BY DEF Places, InPlace
<1>9. r.ev = s.ev  OBVIOUS
<1>10. Stay(s.ev, s.ev, {})  BY <1>1 DEF Stay
<1>. HIDE DEF r
<1>11. Buffered(r)
  <2>1. Stay(s.ev, r.ev, {}) /\ \A i \in {} \cap DOMAIN s.ev : s.ev[i].at # "buffer"
    BY <1>9, <1>10
  <2>. QED  BY <1>8, <2>1, StillBuffered DEF Good
<1>. QED  BY <1>0, <1>6, <1>7, <1>9, <1>10, <1>11 DEF Kept, Good

LEMMA OutputKeeps ==
  ASSUME NEW s, NEW X, Good(s, X), NEW h \in DOMAIN s.thd, NEW i \in DOMAIN s.ev,
         s.ev[i].at # "buffer"
  PROVE  /\ Kept(s, output_event(s, h, i), X \ {i}, {i})
         /\ DOMAIN output_event(s, h, i).ev = DOMAIN s.ev
BY Output DEF Good, Kept

LEMMA MutualMore ==
  ASSUME NEW evs, NEW X, NEW Y, X \cap DOMAIN evs \subseteq Y, Mutual(evs, X)
  PROVE  Mutual(evs, Y)
BY DEF Mutual

LEMMA StayAlso ==
  ASSUME NEW a, NEW b, NEW c, NEW X, NEW Y, NEW Z, Stay(a, b, X), Stay(b, c, Y),
         X \cup Y \subseteq Z \cup (Nat \ DOMAIN a)
  PROVE  Stay(a, c, Z)
<1>1. ASSUME NEW j \in DOMAIN a \ Z  PROVE c[j].at = a[j].at
  <2>1. j \notin X /\ j \notin Y  OBVIOUS
  <2>. QED  BY <2>1 DEF Stay
<1>. QED  BY <1>1 DEF Stay

LEMMA SameTreeAlso ==
  ASSUME NEW a, NEW b, NEW c, SameTree(a, b), SameTree(b, c)
  PROVE  SameTree(a, c)
BY DEF SameTree

LEMMA KeptAlso ==
  ASSUME NEW a, NEW b, NEW c, NEW V, NEW W, NEW X, NEW Y, NEW Z,
         Kept(a, b, V, X), Kept(b, c, W, Y), X \cup Y \subseteq Z \cup (Nat \ DOMAIN a.ev)
  PROVE  Kept(a, c, W, Z)
BY StayAlso, SameTreeAlso DEF Kept

-----------------------------------------------------------------------------
(* New events and notes.                                                   *)
LEMMA EventIs ==
  ASSUME NEW type \in Type, NEW time \in Int, NEW track \in Track, NEW ch \in Chan
  PROVE  LET e == Event(type, time, track, ch)
         IN e \in EventRec /\ e.partner = 0 /\ e.at = "new" /\ e.type = type /\ e.time = time
<1>1. <<>> \in Seq(BOOLEAN) /\ {} \in SUBSET Nat /\ 0 \in Nat /\ "new" \in Where
  BY DEF Where
<1>. QED  BY <1>1 DEF Event, EventRec

LEMMA NewEvents ==
  ASSUME NEW evs \in Seq(EventRec), NEW X, Mutual(evs, X), NEW e \in EventRec, e.partner = 0
  PROVE  LET r == Append(evs, e)
         IN /\ Mutual(r, X) /\ Stay(evs, r, {}) /\ Len(r) = Len(evs) + 1
            /\ DOMAIN r = DOMAIN evs \cup {Len(evs) + 1} /\ r[Len(evs) + 1] = e
<1>. DEFINE r == Append(evs, e)
<1>1. /\ r \in Seq(EventRec) /\ Len(r) = Len(evs) + 1
      /\ DOMAIN r = DOMAIN evs \cup {Len(evs) + 1} /\ r[Len(evs) + 1] = e
      /\ \A j \in DOMAIN evs : r[j] = evs[j]
  BY Added
<1>. HIDE DEF r
<1>2. Mutual(r, X)  BY <1>1 DEF Mutual
<1>3. Stay(evs, r, {})  BY <1>1 DEF Stay
<1>. QED  BY <1>1, <1>2, <1>3 DEF r

NoteOf(evs, on, off) ==
  /\ on \in EventRec /\ on.partner = Len(evs) + 2
  /\ off \in EventRec /\ off.partner = Len(evs) + 1

NoteAdded(evs, r, X, i, on, off) ==
  /\ Mutual(r, X \cup {i, i + 1}) /\ Stay(evs, r, {}) /\ i \in Nat
  /\ i \notin DOMAIN evs /\ i + 1 \notin DOMAIN evs
  /\ DOMAIN r = DOMAIN evs \cup {i, i + 1} /\ r[i] = on /\ r[i + 1] = off

LEMMA NewNote ==
  ASSUME NEW evs \in Seq(EventRec), NEW X, Mutual(evs, X),
         NEW on, NEW off, NoteOf(evs, on, off)
  PROVE  NoteAdded(evs, evs \o <<on, off>>, X, Len(evs) + 1, on, off)
<1>. DEFINE p == <<on, off>>
            r == evs \o p
            n == Len(evs)
<1>0. /\ on \in EventRec /\ on.partner = Len(evs) + 2
      /\ off \in EventRec /\ off.partner = Len(evs) + 1
  BY DEF NoteOf
<1>1. p \in Seq(EventRec) /\ Len(p) = 2 /\ p[1] = on /\ p[2] = off  BY <1>0
<1>2. n \in Nat /\ DOMAIN evs = 1..n  BY LenProperties
<1>. HIDE DEF p
<1>3. /\ r \in Seq(EventRec) /\ Len(r) = n + 2
      /\ \A j \in 1..(n + 2) : r[j] = IF j <= n THEN evs[j] ELSE p[j - n]
  <2>1. /\ r \in Seq(EventRec) /\ Len(r) = n + Len(p)
        /\ \A j \in 1..(n + Len(p)) : r[j] = IF j <= n THEN evs[j] ELSE p[j - n]
    BY <1>1, ConcatProperties
  <2>. HIDE DEF r, n
  <2>. QED  BY <1>1, <2>1
<1>4. DOMAIN r = 1..(n + 2)  BY <1>3, LenProperties
<1>. HIDE DEF r
<1>5. /\ \A j \in DOMAIN evs : r[j] = evs[j]
      /\ r[n + 1] = on /\ r[n + 2] = off
  BY <1>1, <1>2, <1>3
<1>6. DOMAIN r = DOMAIN evs \cup {n + 1, n + 2}  BY <1>2, <1>4
<1>7. n + 1 \notin DOMAIN evs /\ n + 2 \notin DOMAIN evs  BY <1>2
<1>. HIDE DEF n
<1>8. Mutual(r, X \cup {n + 1, n + 2})
  <2>1. SUFFICES ASSUME NEW j \in DOMAIN r, r[j].partner # 0
                 PROVE  /\ r[j].partner \in DOMAIN r /\ r[j].partner # j
                        /\ r[r[j].partner].partner = j
                        /\ r[j].at \in {"buffer", "queue"} \/ j \in X \cup {n + 1, n + 2}
    BY DEF Mutual
  <2>2. CASE j \in DOMAIN evs
    <3>1. r[j] = evs[j]  BY <1>5, <2>2
    <3>2. /\ evs[j].partner \in DOMAIN evs /\ evs[j].partner # j
          /\ evs[evs[j].partner].partner = j
          /\ evs[j].at \in {"buffer", "queue"} \/ j \in X
      BY <2>1, <2>2, <3>1 DEF Mutual
    <3>3. r[evs[j].partner] = evs[evs[j].partner]  BY <1>5, <3>2
    <3>. QED  BY <1>6, <3>1, <3>2, <3>3
  <2>3. CASE j = n + 1  BY <1>0, <1>2, <1>5, <1>6, <2>3 DEF n
  <2>4. CASE j = n + 2  BY <1>0, <1>2, <1>5, <1>6, <2>4 DEF n
  <2>. QED  BY <1>6, <2>2, <2>3, <2>4
<1>9. Stay(evs, r, {})  BY <1>3, <1>5, <1>6 DEF Stay
<1>10. n + 1 + 1 = n + 2  BY <1>2
<1>11. NoteAdded(evs, r, X, n + 1, on, off)
  BY <1>2, <1>5, <1>6, <1>7, <1>8, <1>9, <1>10 DEF NoteAdded
<1>. QED  BY <1>11 DEF r, p, n

LEMMA Partnered ==
  ASSUME NEW e \in EventRec, NEW j \in Nat
  PROVE  LET r == [e EXCEPT !.partner = j]
         IN r \in EventRec /\ r.partner = j /\ r.at = e.at
BY DEF EventRec

LEMMA GoodMore ==
  ASSUME NEW s, NEW r, NEW X, NEW Y, NEW Z, X \cap DOMAIN r.ev \subseteq Y, Kept(s, r, X, Z)
  PROVE  Kept(s, r, Y, Z)
BY MutualMore DEF Kept, Good

LEMMA PutEventKeeps ==
  ASSUME NEW s, NEW X, Good(s, X), NEW h \in DOMAIN s.thd,
         NEW e \in EventRec, e.partner = 0, e.at = "new"
  PROVE  Kept(s, PutEvent(s, h, e), X, {})
<1>. DEFINE evs == Append(s.ev, e)
            i == Len(s.ev) + 1
            t == [s EXCEPT !.ev = evs]
            r == output_event(t, h, i)
<1>1. s.ev \in Seq(EventRec) /\ Len(s.ev) \in Nat /\ DOMAIN s.ev = 1..Len(s.ev)
  BY TypedIs DEF Good
<1>2. /\ Mutual(evs, X) /\ Stay(s.ev, evs, {}) /\ DOMAIN evs = DOMAIN s.ev \cup {i}
      /\ evs[i] = e
  BY <1>1, NewEvents DEF Good
<1>3. i \in Nat \ DOMAIN s.ev  BY <1>1
<1>4. NotBuffered(s, {})  BY DEF NotBuffered
<1>. HIDE DEF evs, i
<1>5. Kept(s, t, X, {}) /\ t.ev = evs /\ t.thd = s.thd
  BY <1>2, <1>4, ChangedEvents
<1>. HIDE DEF t
<1>6. Kept(t, r, X \ {i}, {i})
  <2>1. Good(t, X) /\ h \in DOMAIN t.thd /\ i \in DOMAIN t.ev /\ t.ev[i].at # "buffer"
    BY <1>2, <1>5 DEF Kept
  <2>. QED  BY <2>1, OutputKeeps
<1>. HIDE DEF r
<1>7. Kept(t, r, X, {i})  BY <1>6, GoodMore
<1>8. Kept(s, r, X, {})  BY <1>3, <1>5, <1>7, KeptAlso
<1>. QED  BY <1>8 DEF r, t, i, evs, PutEvent

LEMMA PutNoteKeeps ==
  ASSUME NEW s, NEW X, Good(s, X), NEW h \in DOMAIN s.thd,
         NEW time \in Int, NEW length \in Int, NEW track \in Track, NEW ch \in Chan
  PROVE  Kept(s, PutNote(s, h, time, length, track, ch), X, {})
<1>. DEFINE i == Len(s.ev) + 1
            on == [Event("on", time, track, ch) EXCEPT !.partner = i + 1]
            e == Event("off", time + length, track, ch)
            off == [e EXCEPT !.partner = i,
                                                                  !.irregular = length = 0]
            evs == s.ev \o <<on, off>>
            t == [s EXCEPT !.ev = evs]
            u == output_event(t, h, i)
            r == output_event(u, h, i + 1)
<1>1. s.ev \in Seq(EventRec) /\ Len(s.ev) \in Nat /\ DOMAIN s.ev = 1..Len(s.ev)
  BY TypedIs DEF Good
<1>2. on \in EventRec /\ on.partner = Len(s.ev) + 2 /\ on.at = "new"
  <2>1. Event("on", time, track, ch) \in EventRec /\ Event("on", time, track, ch).at = "new"
    BY EventIs DEF Type
  <2>2. i + 1 = Len(s.ev) + 2 /\ i + 1 \in Nat  BY <1>1
  <2>. HIDE DEF i
  <2>. QED  BY <2>1, <2>2, Partnered
<1>3. off \in EventRec /\ off.partner = Len(s.ev) + 1 /\ off.at = "new"
  <2>1. e \in EventRec /\ e.at = "new"
    <3>1. time + length \in Int  OBVIOUS
    <3>. QED  BY <3>1, EventIs DEF Type
  <2>2. i \in Nat  BY <1>1
  <2>3. i = Len(s.ev) + 1  OBVIOUS
  <2>. HIDE DEF i, e
  <2>4. off \in EventRec /\ off.partner = i /\ off.at = e.at
    BY <2>1, <2>2 DEF EventRec
  <2>. QED  BY <2>1, <2>3, <2>4
<1>. HIDE DEF on, off
<1>4. /\ Mutual(evs, X \cup {i, i + 1}) /\ Stay(s.ev, evs, {}) /\ i \in Nat
      /\ i \notin DOMAIN s.ev /\ i + 1 \notin DOMAIN s.ev
      /\ DOMAIN evs = DOMAIN s.ev \cup {i, i + 1} /\ evs[i] = on /\ evs[i + 1] = off
  <2>1. s.ev \in Seq(EventRec) /\ Mutual(s.ev, X)  BY <1>1 DEF Good
  <2>2. NoteOf(s.ev, on, off)  BY <1>2, <1>3 DEF NoteOf
  <2>3. NoteAdded(s.ev, evs, X, i, on, off)  BY <2>1, <2>2, NewNote
  <2>. HIDE DEF evs, i
  <2>. QED  BY <2>3 DEF NoteAdded
<1>5. NotBuffered(s, {})  BY DEF NotBuffered
<1>. HIDE DEF evs, i
<1>6. Kept(s, t, X \cup {i, i + 1}, {}) /\ t.ev = evs /\ t.thd = s.thd
  BY <1>4, <1>5, ChangedEvents
<1>. HIDE DEF t
<1>7. Kept(t, u, (X \cup {i, i + 1}) \ {i}, {i}) /\ DOMAIN u.ev = DOMAIN t.ev
  <2>1. Good(t, X \cup {i, i + 1}) /\ h \in DOMAIN t.thd /\ i \in DOMAIN t.ev
        /\ t.ev[i].at # "buffer"
    BY <1>2, <1>4, <1>6 DEF Kept
  <2>. QED  BY <2>1, OutputKeeps
<1>. HIDE DEF u
<1>8. Kept(u, r, ((X \cup {i, i + 1}) \ {i}) \ {i + 1}, {i + 1})
  <2>1. Good(u, (X \cup {i, i + 1}) \ {i}) /\ h \in DOMAIN u.thd /\ i + 1 \in DOMAIN u.ev
    BY <1>4, <1>6, <1>7 DEF Kept, SameTree
  <2>2. u.ev[i + 1].at # "buffer"
    <3>1. i + 1 \in DOMAIN t.ev \ {i} /\ t.ev[i + 1].at = "new"  BY <1>3, <1>4, <1>6
    <3>. QED  BY <1>7, <3>1 DEF Kept, Stay
  <2>. QED  BY <2>1, <2>2, OutputKeeps
<1>. HIDE DEF r
<1>9. Kept(u, r, X, {i + 1})  BY <1>8, GoodMore
<1>10. Kept(t, r, X, {i, i + 1})  BY <1>7, <1>9, KeptAlso
<1>11. Kept(s, r, X, {})
  <2>1. i + 1 \in Nat  BY <1>4
  <2>2. {} \cup {i, i + 1} \subseteq {} \cup (Nat \ DOMAIN s.ev)  BY <1>4, <2>1
  <2>. QED  BY <1>6, <1>10, <2>2, KeptAlso
<1>. QED  BY <1>11 DEF r, u, t, evs, on, off, e, i, PutNote

-----------------------------------------------------------------------------
(* A thread attaches an effector.                                          *)
Attaches(s, h, r) ==
  LET g == Len(s.thd) + 1
      e == Len(s.eff) + 1
  IN /\ DOMAIN r.thd = DOMAIN s.thd \cup {g} /\ DOMAIN r.eff = DOMAIN s.eff \cup {e}
     /\ \A f \in DOMAIN s.thd :
          /\ r.thd[f].kind = s.thd[f].kind /\ r.thd[f].live = s.thd[f].live
          /\ r.thd[f].parent = s.thd[f].parent /\ r.thd[f].nchild = s.thd[f].nchild
     /\ \A f \in DOMAIN s.thd \ {h} : r.thd[f].effs = s.thd[f].effs
     /\ r.thd[h].effs = <<e>> \o s.thd[h].effs
     /\ r.thd[g].kind = "effector" /\ r.thd[g].live = TRUE /\ r.thd[g].parent = h
     /\ r.thd[g].nchild = 0 /\ r.thd[g].effs = s.thd[h].effs
     /\ \A d \in DOMAIN s.eff :
          /\ r.eff[d].thd = s.eff[d].thd /\ r.eff[d].live = s.eff[d].live
          /\ r.eff[d].class = s.eff[d].class
     /\ r.eff[e].thd = g /\ r.eff[e].live = TRUE /\ r.eff[e].class \in classes

LEMMA InstanceIs ==
  ASSUME NEW class \in Class, NEW g \in Nat
  PROVE  LET f == Instance(class, g)
         IN /\ f \in EffRec /\ f.class = class /\ f.live = TRUE /\ f.thd = g
            /\ \A k \in Track : f.buf[k] = <<>>
<1>. DEFINE eth == IF class = Smfout THEN {} ELSE Type \ RuleTypes(class)
            b == [k \in Track |-> <<>>]
<1>1. eth \in SUBSET Type /\ {} \in SUBSET Chan  OBVIOUS
<1>2. b \in [Track -> Seq(Seq(Nat))] /\ <<>> \in Seq(Int) /\ TRUE \in BOOLEAN
      /\ \A k \in Track : b[k] = <<>>
  OBVIOUS
<1>. HIDE DEF eth, b
<1>3. Instance(class, g) = [class |-> class, live |-> TRUE, thd |-> g, cthru |-> {},
                            ethru |-> eth, buf |-> b, marks |-> <<>>]
  BY DEF Instance, eth, b
<1>. QED  BY <1>1, <1>2, <1>3 DEF EffRec

LEMMA ThreadIs ==
  ASSUME NEW kind \in {"thread", "effector"}, NEW p \in Nat, NEW effs \in Seq(Nat),
         NEW bv \in Seq(BOOLEAN), NEW o \in SUBSET Nat
  PROVE  LET t == Thread(kind, p, effs, bv, o)
         IN /\ t \in ThreadRec /\ t.kind = kind /\ t.live = TRUE /\ t.parent = p
            /\ t.nchild = 0 /\ t.effs = effs
BY DEF Thread, ThreadRec

LEMMA Attach ==
  ASSUME NEW s, NEW X, Good(s, X), NEW h \in DOMAIN s.thd,
         NEW class \in classes, class \in Class, NEW enable \in BOOLEAN
  PROVE  LET r == attach_effector(s, h, class, enable)
         IN Good(r, X) /\ Attaches(s, h, r) /\ r.ev = s.ev
<1>. DEFINE t == s.thd[h]
            e == Len(s.eff) + 1
            g == Len(s.thd) + 1
            effs == <<e>> \o t.effs
            bv == <<enable>> \o t.eebv
            o == IF enable THEN t.on \cup {e} ELSE t.on
            u == [t EXCEPT !.effs = effs, !.eebv = bv, !.on = o]
            us == [s.thd EXCEPT ![h].effs = <<e>> \o @,
                                ![h].eebv = <<enable>> \o @,
                                ![h].on = IF enable THEN @ \cup {e} ELSE @]
            v == Thread("effector", h, t.effs, t.eebv, t.on)
            f == Instance(class, g)
            hs == Append(us, v)
            es == Append(s.eff, f)
            r == [ev |-> s.ev, thd |-> hs, eff |-> es]
<1>1. /\ s = [ev |-> s.ev, thd |-> s.thd, eff |-> s.eff]
      /\ s.ev \in Seq(EventRec) /\ s.thd \in Seq(ThreadRec) /\ s.eff \in Seq(EffRec)
      /\ DOMAIN s.thd = 1..Len(s.thd) /\ Len(s.thd) \in Nat
      /\ DOMAIN s.eff = 1..Len(s.eff) /\ Len(s.eff) \in Nat /\ t \in ThreadRec
  BY TypedIs DEF Good
<1>2. attach_effector(s, h, class, enable) = r
  <2>1. attach_effector(s, h, class, enable) = [s EXCEPT !.thd = hs, !.eff = es]
    BY DEF attach_effector
  <2>. HIDE DEF hs, es
  <2>. QED  BY <1>1, <2>1
<1>3. us = [s.thd EXCEPT ![h] = u]  BY <1>1
<1>. HIDE DEF us
<1>4. e \in Nat /\ g \in Nat /\ h \in Nat /\ e \notin DOMAIN s.eff /\ g \notin DOMAIN s.thd
  BY <1>1
<1>5. t.effs \in Seq(Nat) /\ t.eebv \in Seq(BOOLEAN) /\ t.on \in SUBSET Nat
  BY <1>1 DEF ThreadRec
<1>. HIDE DEF e, g
<1>6. /\ effs \in Seq(Nat) /\ bv \in Seq(BOOLEAN) /\ o \in SUBSET Nat
      /\ ToSet(effs) = {e} \cup ToSet(t.effs)
  <2>1. /\ effs \in Seq(Nat) /\ DOMAIN t.effs = 1..Len(t.effs) /\ Len(t.effs) \in Nat
        /\ DOMAIN effs = 1..(Len(t.effs) + 1) /\ effs[1] = e
        /\ \A j \in DOMAIN t.effs : effs[j + 1] = t.effs[j]
    <3>. HIDE DEF t
    <3>. QED  BY <1>4, <1>5, Before
  <2>2. bv \in Seq(BOOLEAN)
    <3>. HIDE DEF t
    <3>. QED  BY <1>5, Before
  <2>. HIDE DEF effs, t
  <2>3. ASSUME NEW j \in DOMAIN effs  PROVE effs[j] \in {e} \cup ToSet(t.effs)
    <3>1. CASE j = 1  BY <2>1, <3>1
    <3>2. CASE j # 1
      <4>1. j - 1 \in DOMAIN t.effs /\ j - 1 + 1 = j  BY <2>1, <3>2
      <4>2. effs[j] = t.effs[j - 1]  BY <2>1, <4>1
      <4>. QED  BY <4>1, <4>2 DEF ToSet
    <3>. QED  BY <3>1, <3>2
  <2>4. e \in ToSet(effs)  BY <2>1 DEF ToSet
  <2>5. ASSUME NEW j \in DOMAIN t.effs  PROVE t.effs[j] \in ToSet(effs)
    <3>1. j + 1 \in DOMAIN effs  BY <2>1
    <3>. QED  BY <2>1, <3>1 DEF ToSet
  <2>. QED  BY <1>4, <1>5, <2>1, <2>2, <2>3, <2>4, <2>5 DEF ToSet
<1>. HIDE DEF effs, bv, o
<1>7. /\ u \in ThreadRec /\ u.kind = t.kind /\ u.live = t.live /\ u.parent = t.parent
      /\ u.nchild = t.nchild /\ u.effs = effs
  BY <1>1, <1>6 DEF ThreadRec
<1>. HIDE DEF u
<1>8. /\ us \in Seq(ThreadRec) /\ DOMAIN us = DOMAIN s.thd /\ Len(us) = Len(s.thd)
      /\ us[h] = u /\ \A j \in DOMAIN s.thd \ {h} : us[j] = s.thd[j]
  BY <1>1, <1>3, <1>7, Changed
<1>9. /\ v \in ThreadRec /\ v.kind = "effector" /\ v.live = TRUE /\ v.parent = h
      /\ v.nchild = 0 /\ v.effs = t.effs
  <2>. HIDE DEF t
  <2>. QED  BY <1>4, <1>5 DEF Thread, ThreadRec
<1>10. /\ f \in EffRec /\ f.class = class /\ f.live = TRUE /\ f.thd = g
       /\ \A k \in Track : f.buf[k] = <<>>
  BY <1>4, InstanceIs
<1>. HIDE DEF v, f
<1>11. /\ hs \in Seq(ThreadRec) /\ DOMAIN hs = DOMAIN s.thd \cup {g} /\ hs[g] = v
       /\ \A j \in DOMAIN s.thd : hs[j] = us[j]
  BY <1>8, <1>9, Added DEF g
<1>12. /\ es \in Seq(EffRec) /\ DOMAIN es = DOMAIN s.eff \cup {e} /\ es[e] = f
       /\ \A d \in DOMAIN s.eff : es[d] = s.eff[d]
  BY <1>1, <1>10, Added DEF e
<1>. HIDE DEF hs, es
<1>13. /\ hs[h].kind = t.kind /\ hs[h].live = t.live
       /\ hs[h].parent = t.parent /\ hs[h].nchild = t.nchild /\ hs[h].effs = effs
       /\ \A j \in DOMAIN s.thd \ {h} : hs[j] = s.thd[j]
  BY <1>4, <1>7, <1>8, <1>11
<1>14. Attaches(s, h, r)
  BY <1>4, <1>9, <1>10, <1>11, <1>12, <1>13 DEF Attaches, e, g, effs
<1>15. Typed(r)
  <2>1. \A j \in DOMAIN s.thd : ToSet(s.thd[j].effs) \subseteq DOMAIN s.eff
    BY DEF Good, Typed, EffsOf
  <2>2. \A d \in DOMAIN s.eff : s.eff[d].thd \in DOMAIN s.thd
    BY DEF Good, Typed
  <2>3. \A j \in DOMAIN hs : ToSet(hs[j].effs) \subseteq DOMAIN es
    <3>1. ToSet(hs[h].effs) \subseteq DOMAIN es  BY <1>6, <1>12, <1>13, <2>1
    <3>2. ToSet(hs[g].effs) \subseteq DOMAIN es  BY <1>9, <1>11, <1>12, <2>1
    <3>. QED  BY <1>11, <1>12, <1>13, <2>1, <3>1, <3>2
  <2>4. \A d \in DOMAIN es : es[d].thd \in DOMAIN hs
    BY <1>10, <1>11, <1>12, <2>2
  <2>. QED  BY <1>1, <1>11, <1>12, <2>3, <2>4, TypedOf
<1>16. Places(r) = Places(s)
  <2>1. \A k \in Track : Slots(es[e].buf[k]) = {}  BY <1>10, <1>12 DEF Slots
  <2>2. \A d \in DOMAIN s.eff : es[d] = s.eff[d]  BY <1>12
  <2>3. DOMAIN r.eff = DOMAIN s.eff \cup {e} /\ r.eff = es  BY <1>12
  <2>. HIDE DEF r
  <2>4. ASSUME NEW p \in Places(r)  PROVE p \in Places(s)
    <3>1. /\ p \in (DOMAIN r.eff) \X Track \X (Nat \X Nat)
          /\ p[1] \in DOMAIN r.eff /\ p[2] \in Track /\ p[3] \in Slots(es[p[1]].buf[p[2]])
      BY <2>3 DEF Places
    <3>2. p[1] \in DOMAIN s.eff  BY <2>1, <2>3, <3>1
    <3>. QED  BY <2>2, <3>1, <3>2 DEF Places
  <2>5. ASSUME NEW p \in Places(s)  PROVE p \in Places(r)
    <3>1. /\ p \in (DOMAIN s.eff) \X Track \X (Nat \X Nat)
          /\ p[1] \in DOMAIN s.eff /\ p[2] \in Track /\ p[3] \in Slots(s.eff[p[1]].buf[p[2]])
      BY DEF Places
    <3>. QED  BY <2>2, <2>3, <3>1 DEF Places
  <2>. QED  BY <2>4, <2>5
<1>17. \A y \in Places(s) : InPlace(r, y) = InPlace(s, y)
  BY <1>12 DEF Places, InPlace
<1>18. r.ev = s.ev /\ Stay(s.ev, s.ev, {})  BY <1>1 DEF Stay
<1>. HIDE DEF r
<1>19. Buffered(r)
  <2>1. Stay(s.ev, r.ev, {}) /\ \A i \in {} \cap DOMAIN s.ev : s.ev[i].at # "buffer"
    BY <1>18
  <2>. QED  BY <1>16, <1>17, <2>1, StillBuffered DEF Good
<1>. QED  BY <1>2, <1>14, <1>15, <1>18, <1>19 DEF Good

LEMMA Enable ==
  ASSUME NEW s, NEW X, Good(s, X), NEW h \in DOMAIN s.thd, NEW e, NEW enable \in BOOLEAN
  PROVE  Kept(s, enable_effector(s, h, e, enable), X, {})
<1>. DEFINE t == s.thd[h]
            bv == [k \in DOMAIN t.effs |-> IF t.effs[k] = e THEN enable ELSE Bit(t.eebv, k)]
            o == IF e \notin ToSet(t.effs) THEN t.on
                 ELSE IF enable THEN t.on \cup {e} ELSE t.on \ {e}
<1>1. t \in ThreadRec  BY TypedIs DEF Good
<1>2. t.effs \in Seq(Nat) /\ t.on \in SUBSET Nat  BY <1>1 DEF ThreadRec
<1>3. /\ DOMAIN t.effs = 1..Len(t.effs) /\ Len(t.effs) \in Nat
      /\ \A k \in DOMAIN t.effs : t.effs[k] \in Nat
  BY <1>2, LenProperties, ElementOfSeq
<1>4. bv \in Seq(BOOLEAN)
  <2>1. \A k : Bit(t.eebv, k) \in BOOLEAN  BY DEF Bit
  <2>2. bv \in [1..Len(t.effs) -> BOOLEAN]  BY <1>3, <2>1
  <2>. HIDE DEF bv
  <2>. QED  BY <1>3, <2>2
<1>5. o \in SUBSET Nat  BY <1>2, <1>3 DEF ToSet
<1>. HIDE DEF bv, o
<1>6. enable_effector(s, h, e, enable) = WithFlags(s, h, bv, o)
  BY DEF enable_effector, bv, o
<1>. QED  BY <1>4, <1>5, <1>6, ChangedFlags

-----------------------------------------------------------------------------
(* What an action of thread h does: its events may leave their places.     *)
Does(s, h, r, Y) ==
  /\ Good(r, {}) /\ Stay(s.ev, r.ev, Y)
  /\ SameTree(s, r) \/ Attaches(s, h, r)

LEMMA DoesKept ==
  ASSUME NEW a, NEW b, NEW h, NEW Y, Kept(a, b, {}, Y)
  PROVE  Does(a, h, b, Y)
BY DEF Does, Kept

LEMMA DoesThen ==
  ASSUME NEW a, NEW b, NEW c, NEW h \in DOMAIN a.thd, NEW X, NEW Y,
         Does(a, h, b, X), Kept(b, c, {}, Y)
  PROVE  Does(a, h, c, X \cup Y)
<1>1. Stay(a.ev, c.ev, X \cup Y)  BY StayAlso DEF Does, Kept
<1>2. CASE SameTree(a, b)  BY <1>1, <1>2, SameTreeAlso DEF Does, Kept
<1>3. CASE Attaches(a, h, b)
  <2>1. SameTree(b, c)  BY DEF Kept
  <2>2. h \in DOMAIN b.thd  BY <1>3 DEF Attaches
  <2>3. Attaches(a, h, c)  BY <1>3, <2>1, <2>2 DEF Attaches, SameTree
  <2>. QED  BY <1>1, <2>3 DEF Does, Kept
<1>. QED  BY <1>2, <1>3 DEF Does

LEMMA KeptThen ==
  ASSUME NEW a, NEW b, NEW c, NEW h \in DOMAIN a.thd, NEW Y, Good(a, {}),
         Kept(a, b, {}, {}), Does(b, h, c, Y)
  PROVE  Does(a, h, c, Y)
<1>1. Stay(a.ev, c.ev, Y)  BY StayAlso DEF Does, Kept
<1>2. CASE SameTree(b, c)  BY <1>1, <1>2, SameTreeAlso DEF Does, Kept
<1>3. CASE Attaches(b, h, c)
  <2>1. SameTree(a, b)  BY DEF Kept
  <2>2. Len(a.thd) = Len(b.thd) /\ Len(a.eff) = Len(b.eff)
    <3>1. /\ DOMAIN a.thd = 1..Len(a.thd) /\ Len(a.thd) \in Nat
          /\ DOMAIN a.eff = 1..Len(a.eff) /\ Len(a.eff) \in Nat
      BY TypedIs DEF Good
    <3>2. /\ DOMAIN b.thd = 1..Len(b.thd) /\ Len(b.thd) \in Nat
          /\ DOMAIN b.eff = 1..Len(b.eff) /\ Len(b.eff) \in Nat
      BY TypedIs DEF Good, Kept
    <3>. QED  BY <2>1, <3>1, <3>2 DEF SameTree
  <2>. DEFINE g == Len(a.thd) + 1
              e == Len(a.eff) + 1
  <2>3. /\ DOMAIN c.thd = DOMAIN b.thd \cup {g} /\ DOMAIN c.eff = DOMAIN b.eff \cup {e}
        /\ \A f \in DOMAIN b.thd :
             /\ c.thd[f].kind = b.thd[f].kind /\ c.thd[f].live = b.thd[f].live
             /\ c.thd[f].parent = b.thd[f].parent /\ c.thd[f].nchild = b.thd[f].nchild
        /\ \A f \in DOMAIN b.thd \ {h} : c.thd[f].effs = b.thd[f].effs
        /\ c.thd[h].effs = <<e>> \o b.thd[h].effs
        /\ c.thd[g].kind = "effector" /\ c.thd[g].live = TRUE /\ c.thd[g].parent = h
        /\ c.thd[g].nchild = 0 /\ c.thd[g].effs = b.thd[h].effs
        /\ \A d \in DOMAIN b.eff :
             /\ c.eff[d].thd = b.eff[d].thd /\ c.eff[d].live = b.eff[d].live
             /\ c.eff[d].class = b.eff[d].class
        /\ c.eff[e].thd = g /\ c.eff[e].live = TRUE /\ c.eff[e].class \in classes
    BY <1>3, <2>2 DEF Attaches
  <2>. HIDE DEF g, e
  <2>4. /\ DOMAIN b.thd = DOMAIN a.thd /\ DOMAIN b.eff = DOMAIN a.eff
        /\ \A f \in DOMAIN a.thd :
             /\ b.thd[f].kind = a.thd[f].kind /\ b.thd[f].live = a.thd[f].live
             /\ b.thd[f].parent = a.thd[f].parent /\ b.thd[f].nchild = a.thd[f].nchild
             /\ b.thd[f].effs = a.thd[f].effs
        /\ \A d \in DOMAIN a.eff :
             /\ b.eff[d].thd = a.eff[d].thd /\ b.eff[d].live = a.eff[d].live
             /\ b.eff[d].class = a.eff[d].class
    BY <2>1 DEF SameTree
  <2>5. /\ DOMAIN c.thd = DOMAIN a.thd \cup {g} /\ DOMAIN c.eff = DOMAIN a.eff \cup {e}
        /\ c.thd[h].effs = <<e>> \o a.thd[h].effs /\ c.thd[g].effs = a.thd[h].effs
        /\ \A f \in DOMAIN a.thd \ {h} : c.thd[f].effs = a.thd[f].effs
    BY <2>3, <2>4
  <2>6. \A f \in DOMAIN a.thd :
             /\ c.thd[f].kind = a.thd[f].kind /\ c.thd[f].live = a.thd[f].live
             /\ c.thd[f].parent = a.thd[f].parent /\ c.thd[f].nchild = a.thd[f].nchild
    BY <2>3, <2>4
  <2>7. \A d \in DOMAIN a.eff :
             /\ c.eff[d].thd = a.eff[d].thd /\ c.eff[d].live = a.eff[d].live
             /\ c.eff[d].class = a.eff[d].class
    BY <2>3, <2>4
  <2>8. Attaches(a, h, c)
    BY <2>3, <2>5, <2>6, <2>7 DEF Attaches, g, e
  <2>. QED  BY <1>1, <2>8 DEF Does, Kept
<1>. QED  BY <1>2, <1>3 DEF Does

LEMMA CommandedDoes ==
  ASSUME NEW s, Good(s, {}), NEW h \in DOMAIN s.thd, NEW i \in DOMAIN s.ev, NEW act \in Act,
         classes \in (SUBSET Class) \ {{}}
  PROVE  Does(s, h, Commanded(s, h, i, act), {})
<1>. DEFINE e == s.ev[i]
            r == Commanded(s, h, i, act)
<1>1. e \in EventRec  BY TypedIs DEF Good
<1>2. /\ e.time \in Int /\ e.track \in Track /\ e.ch \in Chan /\ act.dt \in Int
      /\ e.time + act.dt \in Int
  <2>1. e.time \in Int /\ e.track \in Track /\ e.ch \in Chan  BY <1>1 DEF EventRec
  <2>2. act.dt \in Int  BY DEF Act
  <2>. QED  BY <2>1, <2>2
<1>3. CASE act.does = "attach" /\ CanAttach(s)
  <2>1. r = attach_effector(s, h, CHOOSE c \in classes : TRUE, TRUE)
    BY <1>3 DEF Commanded
  <2>. DEFINE c == CHOOSE c \in classes : TRUE
  <2>2. c \in classes /\ c \in Class /\ TRUE \in BOOLEAN  OBVIOUS
  <2>. HIDE DEF c
  <2>3. Good(r, {}) /\ Attaches(s, h, r) /\ r.ev = s.ev
    <3>1. r = attach_effector(s, h, c, TRUE)  BY <2>1 DEF c
    <3>. HIDE DEF r
    <3>. QED  BY <2>2, <3>1, Attach
  <2>4. Stay(s.ev, s.ev, {})  BY TypedIs DEF Good, Stay
  <2>. QED  BY <2>3, <2>4 DEF Does
<1>4. CASE act.does = "disable" /\ s.thd[h].effs # <<1>>
  <2>1. r = enable_effector(s, h, s.thd[h].effs[1], FALSE)
    BY <1>4 DEF Commanded
  <2>. QED  BY <2>1, Enable, DoesKept
<1>5. CASE act.does = "copy" /\ e.type = "ctrl" /\ Len(s.ev) < Events
  <2>1. r = PutEvent(s, h, Event("ctrl", e.time + act.dt, e.track, e.ch))
    BY <1>5 DEF Commanded
  <2>2. "ctrl" \in Type  BY DEF Type
  <2>. HIDE DEF e, r
  <2>. DEFINE n == Event("ctrl", e.time + act.dt, e.track, e.ch)
  <2>3. n \in EventRec /\ n.partner = 0 /\ n.at = "new"
    BY <1>2, <2>2, EventIs
  <2>. HIDE DEF n
  <2>4. Kept(s, PutEvent(s, h, n), {}, {})  BY <2>3, PutEventKeeps
  <2>. QED  BY <2>1, <2>4, DoesKept DEF n, r
<1>6. CASE act.does = "copy" /\ e.type = "on" /\ Len(s.ev) + 2 <= Events
  <2>1. r = PutNote(s, h, e.time + act.dt, 0, e.track, e.ch)
    BY <1>6 DEF Commanded
  <2>. HIDE DEF e, r
  <2>2. Kept(s, PutNote(s, h, e.time + act.dt, 0, e.track, e.ch), {}, {})
    BY <1>2, PutNoteKeeps
  <2>. QED  BY <2>1, <2>2, DoesKept DEF r
<1>7. CASE ~ \/ act.does = "attach" /\ CanAttach(s)
             \/ act.does = "disable" /\ s.thd[h].effs # <<1>>
             \/ act.does = "copy" /\ e.type = "ctrl" /\ Len(s.ev) < Events
             \/ act.does = "copy" /\ e.type = "on" /\ Len(s.ev) + 2 <= Events
  <2>1. r = s  BY <1>7 DEF Commanded
  <2>2. Stay(s.ev, s.ev, {})  BY TypedIs DEF Good, Stay
  <2>3. SameTree(s, s)  BY DEF SameTree
  <2>. QED  BY <2>1, <2>2, <2>3 DEF Does
<1>. QED  BY <1>3, <1>4, <1>5, <1>6, <1>7

-----------------------------------------------------------------------------
(* What an action makes of its event, and of the partner of that.          *)
Renewed(evs, r, Y) == Stay(evs, r, Y) /\ Mutual(r, {}) /\ DOMAIN r = DOMAIN evs

LEMMA RenewedThen ==
  ASSUME NEW a, NEW b, NEW c, NEW X, NEW Y, Renewed(a, b, X), Renewed(b, c, Y)
  PROVE  Renewed(a, c, X \cup Y)
BY DEF Renewed, Stay

LEMMA SingleRenews ==
  ASSUME NEW evs \in Seq(EventRec), Mutual(evs, {}), NEW i \in DOMAIN evs, NEW act \in Act
  PROVE  /\ Renewed(evs, Single(evs, i, act), {})
         /\ \A j \in DOMAIN evs : /\ Single(evs, i, act)[j].partner = evs[j].partner
                                  /\ Single(evs, i, act)[j].at = evs[j].at
<1>. DEFINE time == check_time(evs[i].time + act.dt)
            track == NewTrack(evs[i], act)
            e == [evs[i] EXCEPT !.time = time, !.track = track]
            r == [evs EXCEPT ![i] = e]
<1>1. evs[i] \in EventRec  BY LenProperties, ElementOfSeq
<1>2. time \in Int /\ track \in Track
  <2>1. evs[i].time \in Int /\ evs[i].track \in Track  BY <1>1 DEF EventRec
  <2>2. act.dt \in Int /\ act.tk \in Track \cup {0}  BY DEF Act
  <2>. QED  BY <2>1, <2>2 DEF check_time, NewTrack
<1>3. Single(evs, i, act) = r  BY <1>1 DEF Single
<1>. HIDE DEF time, track
<1>4. e \in EventRec /\ e.partner = evs[i].partner /\ e.at = evs[i].at
  BY <1>1, <1>2 DEF EventRec
<1>. HIDE DEF e
<1>5. Mutual(r, {}) /\ Stay(evs, r, {}) /\ DOMAIN r = DOMAIN evs
  BY <1>4, Revised
<1>6. \A j \in DOMAIN evs : r[j].partner = evs[j].partner /\ r[j].at = evs[j].at
  BY <1>4
<1>. QED  BY <1>3, <1>5, <1>6 DEF Renewed

LEMMA PairRenews ==
  ASSUME NEW evs \in Seq(EventRec), Mutual(evs, {}), NEW i \in DOMAIN evs, NEW act \in Act
  PROVE  Renewed(evs, PairMoved(evs, i, act), {})
<1>. DEFINE off == evs[i].partner
            dofs == evs[off].time - evs[i].time
            moved == Single(evs, i, act)
            time == check_time(moved[i].time + Max({dofs, 0}))
            track == moved[i].track
            r == [moved EXCEPT ![off].time = time, ![off].irregular = dofs <= 0,
                               ![off].track = track]
<1>1. PairMoved(evs, i, act) = r  BY DEF PairMoved
<1>2. /\ Renewed(evs, moved, {})
      /\ \A j \in DOMAIN evs : moved[j].partner = evs[j].partner /\ moved[j].at = evs[j].at
  BY SingleRenews
<1>. HIDE DEF moved
<1>3. moved \in Seq(EventRec) /\ DOMAIN moved = DOMAIN evs /\ Mutual(moved, {})
  BY <1>2 DEF Renewed, Stay
<1>4. CASE off \in DOMAIN evs
  <2>. DEFINE e == [moved[off] EXCEPT !.time = time, !.irregular = dofs <= 0, !.track = track]
  <2>1. /\ evs[i] \in EventRec /\ evs[off] \in EventRec /\ moved[i] \in EventRec
        /\ moved[off] \in EventRec
    BY <1>3, <1>4, LenProperties, ElementOfSeq
  <2>2. dofs \in Int
    <3>1. evs[i].time \in Int /\ evs[off].time \in Int  BY <2>1 DEF EventRec
    <3>. QED  BY <3>1
  <2>3. r = [moved EXCEPT ![off] = e]  BY <1>3, <1>4
  <2>4. time \in Int /\ track \in Track
    <3>. HIDE DEF dofs
    <3>1. moved[i].time \in Int /\ track \in Track  BY <2>1 DEF EventRec
    <3>2. Max({dofs, 0}) \in Int  BY <2>2, MaxOfTwo
    <3>. QED  BY <3>1, <3>2 DEF check_time
  <2>. HIDE DEF time, track
  <2>5. e \in EventRec /\ e.partner = moved[off].partner /\ e.at = moved[off].at
    <3>1. (dofs <= 0) \in BOOLEAN  OBVIOUS
    <3>. QED  BY <2>1, <2>4, <3>1 DEF EventRec
  <2>. HIDE DEF dofs, off
  <2>. HIDE DEF e
  <2>6. LET z == [moved EXCEPT ![off] = e]
        IN Mutual(z, {}) /\ Stay(moved, z, {}) /\ DOMAIN z = DOMAIN moved
    BY <1>3, <1>4, <2>5, Revised
  <2>. HIDE DEF r
  <2>7. Renewed(moved, r, {})  BY <2>3, <2>6 DEF Renewed
  <2>8. Renewed(evs, r, {} \cup {})  BY <1>2, <2>7, RenewedThen
  <2>. QED  BY <1>1, <2>8
<1>5. CASE off \notin DOMAIN evs
  <2>1. r = moved  BY <1>3, <1>5
  <2>. QED  BY <1>1, <1>2, <2>1
<1>. QED  BY <1>4, <1>5

LEMMA Unpaired ==
  ASSUME NEW evs \in Seq(EventRec), Mutual(evs, {}), NEW i \in DOMAIN evs,
         evs[i].partner # 0
  PROVE  Renewed(evs, [evs EXCEPT ![i].partner = 0, ![i].irregular = TRUE,
                                  ![evs[i].partner].partner = 0], {})
<1>. DEFINE p == evs[i].partner
            b == [evs[i] EXCEPT !.partner = 0, !.irregular = TRUE]
            c == [evs[p] EXCEPT !.partner = 0]
            q == [evs EXCEPT ![i] = b]
            r == [q EXCEPT ![p] = c]
<1>1. p \in DOMAIN evs /\ p # i /\ evs[p].partner = i
  BY DEF Mutual
<1>2. evs[i] \in EventRec /\ evs[p] \in EventRec
  BY <1>1, LenProperties, ElementOfSeq
<1>3. /\ b \in EventRec /\ b.partner = 0 /\ b.at = evs[i].at
      /\ c \in EventRec /\ c.partner = 0 /\ c.at = evs[p].at
  BY <1>2 DEF EventRec
<1>4. [evs EXCEPT ![i].partner = 0, ![i].irregular = TRUE, ![evs[i].partner].partner = 0] = r
  BY <1>1
<1>. HIDE DEF p, b, c
<1>5. /\ q \in Seq(EventRec) /\ DOMAIN q = DOMAIN evs /\ q[i] = b
      /\ \A j \in DOMAIN evs \ {i} : q[j] = evs[j]
  BY <1>3, Changed
<1>. HIDE DEF q
<1>6. /\ r \in Seq(EventRec) /\ DOMAIN r = DOMAIN evs /\ r[p] = c
      /\ \A j \in DOMAIN evs \ {p} : r[j] = q[j]
  BY <1>1, <1>3, <1>5, Changed
<1>. HIDE DEF r
<1>7. /\ r[i].partner = 0 /\ r[p].partner = 0
      /\ \A j \in DOMAIN evs : r[j].at = evs[j].at
      /\ \A j \in DOMAIN evs \ {i, p} : r[j].partner = evs[j].partner
  BY <1>1, <1>3, <1>5, <1>6
<1>8. Mutual(r, {})
  <2>1. SUFFICES ASSUME NEW j \in DOMAIN r, r[j].partner # 0
                 PROVE  /\ r[j].partner \in DOMAIN r /\ r[j].partner # j
                        /\ r[r[j].partner].partner = j /\ r[j].at \in {"buffer", "queue"}
    BY DEF Mutual
  <2>2. j \in DOMAIN evs \ {i, p} /\ r[j].partner = evs[j].partner /\ r[j].at = evs[j].at
    BY <1>6, <1>7, <2>1
  <2>3. /\ evs[j].partner \in DOMAIN evs /\ evs[j].partner # j
        /\ evs[evs[j].partner].partner = j /\ evs[j].at \in {"buffer", "queue"}
    BY <2>1, <2>2 DEF Mutual
  <2>4. evs[j].partner \notin {i, p}  BY <1>1, <2>2, <2>3 DEF p
  <2>. QED  BY <1>6, <1>7, <2>2, <2>3, <2>4
<1>9. Stay(evs, r, {})  BY <1>6, <1>7 DEF Stay
<1>. QED  BY <1>4, <1>6, <1>8, <1>9 DEF Renewed

LEMMA OffRenews ==
  ASSUME NEW evs \in Seq(EventRec), Mutual(evs, {}), NEW i \in DOMAIN evs, NEW act \in Act
  PROVE  Renewed(evs, OffMoved(evs, i, act), {})
<1>. DEFINE on == evs[i].partner
            time == evs[i].time + act.dt
            moved == Single(evs, i, act)
<1>2. /\ Renewed(evs, moved, {})
      /\ \A j \in DOMAIN evs : moved[j].partner = evs[j].partner /\ moved[j].at = evs[j].at
  BY SingleRenews
<1>. HIDE DEF moved
<1>3. moved \in Seq(EventRec) /\ DOMAIN moved = DOMAIN evs /\ Mutual(moved, {})
  BY <1>2 DEF Renewed, Stay
<1>4. CASE on = 0
  BY <1>2, <1>4 DEF OffMoved, moved
<1>5. CASE on # 0 /\ time < evs[on].time
  <2>. DEFINE r == [moved EXCEPT ![i].partner = 0, ![i].irregular = TRUE, ![on].partner = 0]
  <2>1. OffMoved(evs, i, act) = r  BY <1>5 DEF OffMoved, moved
  <2>2. moved[i].partner = on  BY <1>2
  <2>. HIDE DEF on
  <2>3. Renewed(moved, r, {})  BY <1>3, <1>5, <2>2, Unpaired
  <2>. HIDE DEF r
  <2>4. Renewed(evs, r, {} \cup {})  BY <1>2, <2>3, RenewedThen
  <2>. QED  BY <2>1, <2>4
<1>6. CASE on # 0 /\ ~(time < evs[on].time)
  <2>. DEFINE reg == time = evs[on].time
              e == [moved[i] EXCEPT !.irregular = reg]
              r == [moved EXCEPT ![i] = e]
  <2>1. OffMoved(evs, i, act) = r  BY <1>3, <1>6 DEF OffMoved, moved
  <2>2. moved[i] \in EventRec  BY <1>3, LenProperties, ElementOfSeq
  <2>3. e \in EventRec /\ e.partner = moved[i].partner /\ e.at = moved[i].at
    BY <2>2 DEF EventRec
  <2>. HIDE DEF e
  <2>4. Mutual(r, {}) /\ Stay(moved, r, {}) /\ DOMAIN r = DOMAIN moved
    BY <1>3, <2>3, Revised
  <2>. HIDE DEF r
  <2>5. Renewed(moved, r, {})  BY <2>4 DEF Renewed
  <2>6. Renewed(evs, r, {} \cup {})  BY <1>2, <2>5, RenewedThen
  <2>. QED  BY <2>1, <2>6
<1>. QED  BY <1>4, <1>5, <1>6

LEMMA RejectedRenews ==
  ASSUME NEW evs \in Seq(EventRec), Mutual(evs, {}), NEW i \in DOMAIN evs,
         NEW pair \in BOOLEAN
  PROVE  Renewed(evs, Rejected(evs, i, pair), {i})
<1>. DEFINE p == evs[i].partner
            q == IF pair THEN [evs EXCEPT ![p].type = "deleted"] ELSE evs
<1>1. "freed" \in Where /\ "deleted" \in Type  BY DEF Where, Type
<1>2. Mutual(q, {}) /\ Stay(evs, q, {}) /\ DOMAIN q = DOMAIN evs
  <2>1. CASE pair /\ p \in DOMAIN evs
    <3>. DEFINE e == [evs[p] EXCEPT !.type = "deleted"]
    <3>1. evs[p] \in EventRec  BY <2>1, LenProperties, ElementOfSeq
    <3>2. e \in EventRec /\ e.partner = evs[p].partner /\ e.at = evs[p].at
      BY <1>1, <3>1 DEF EventRec
    <3>3. q = [evs EXCEPT ![p] = e]  BY <2>1
    <3>. HIDE DEF e, p, q
    <3>. QED  BY <2>1, <3>2, <3>3, Revised
  <2>2. CASE ~(pair /\ p \in DOMAIN evs)
    <3>1. q = evs
      <4>1. CASE ~pair  BY <4>1
      <4>2. CASE pair /\ p \notin DOMAIN evs  BY <4>2
      <4>. QED  BY <2>2, <4>1, <4>2
    <3>2. Stay(evs, evs, {})  BY DEF Stay
    <3>. QED  BY <3>1, <3>2
  <2>. QED  BY <2>1, <2>2
<1>3. Rejected(evs, i, pair) = event_free(q, i, "freed")  BY DEF Rejected
<1>. HIDE DEF q
<1>. DEFINE r == event_free(q, i, "freed")
<1>4. q \in Seq(EventRec) /\ i \in DOMAIN q  BY <1>2 DEF Stay
<1>5. Mutual(r, {} \ {i}) /\ Stay(q, r, {i}) /\ DOMAIN r = DOMAIN q
  BY <1>1, <1>2, <1>4, EventFree
<1>. HIDE DEF r
<1>6. Renewed(evs, q, {})  BY <1>2 DEF Renewed
<1>7. Renewed(q, r, {i})
  <2>1. {} \ {i} = {}  OBVIOUS
  <2>. QED  BY <1>5, <2>1 DEF Renewed
<1>8. Renewed(evs, r, {} \cup {i})  BY <1>6, <1>7, RenewedThen
<1>. QED  BY <1>3, <1>8 DEF r

LEMMA OutputDoes ==
  ASSUME NEW s, NEW t, NEW h \in DOMAIN s.thd, NEW i \in DOMAIN s.ev, s.ev[i].at # "buffer",
         Does(s, h, t, {}), NEW evs, Renewed(t.ev, evs, {})
  PROVE  Does(s, h, output_event([t EXCEPT !.ev = evs], h, i), {i})
<1>. DEFINE u == [t EXCEPT !.ev = evs]
            r == output_event(u, h, i)
<1>1. Good(t, {}) /\ i \in DOMAIN t.ev /\ h \in DOMAIN t.thd /\ t.ev[i].at # "buffer"
  BY DEF Does, Stay, SameTree, Attaches
<1>2. Kept(t, u, {}, {}) /\ u.ev = evs /\ u.thd = t.thd
  BY <1>1, ChangedEvents DEF Renewed, NotBuffered
<1>. HIDE DEF u
<1>3. Does(s, h, u, {} \cup {})  BY <1>2, DoesThen
<1>4. Good(u, {}) /\ h \in DOMAIN u.thd /\ i \in DOMAIN u.ev /\ u.ev[i].at # "buffer"
  BY <1>1, <1>2 DEF Kept, Stay
<1>5. Kept(u, r, {} \ {i}, {i})  BY <1>4, OutputKeeps
<1>. HIDE DEF r
<1>6. Kept(u, r, {}, {i})  BY <1>5, GoodMore
<1>7. Does(s, h, r, ({} \cup {}) \cup {i})  BY <1>3, <1>6, DoesThen
<1>. QED  BY <1>7 DEF r, u

LEMMA ActedDoes ==
  ASSUME NEW s, Good(s, {}), NEW h \in DOMAIN s.thd, NEW i \in DOMAIN s.ev,
         s.ev[i].at # "buffer", NEW rule, NEW act \in Act, classes \in (SUBSET Class) \ {{}}
  PROVE  Does(s, h, Acted(s, h, i, rule, act), {i})
<1>. DEFINE pair == "pair" \in rule.scope
            e == s.ev[i]
            f == FlagsOf(s, h, i)
            d == Commanded(f, h, i, act)
            n == [d.ev[i] EXCEPT !.on = d.thd[h].on]
            evs == [d.ev EXCEPT ![i] = n]
            t == [d EXCEPT !.ev[i].on = d.thd[h].on]
            r == Acted(s, h, i, rule, act)
<1>1. e \in EventRec /\ i \in Nat
  <2>1. s.ev[i] \in EventRec /\ DOMAIN s.ev = 1..Len(s.ev) /\ Len(s.ev) \in Nat
    BY TypedIs DEF Good
  <2>. QED  BY <2>1
<1>2. Kept(s, f, {}, {}) /\ f.ev = s.ev
  <2>1. e.eebv \in Seq(BOOLEAN) /\ e.on \in SUBSET Nat  BY <1>1 DEF EventRec
  <2>. QED  BY <2>1, ChangedFlags DEF FlagsOf
<1>3. Good(f, {}) /\ h \in DOMAIN f.thd  BY <1>2 DEF Kept, SameTree
<1>. HIDE DEF f
<1>4. Does(f, h, d, {})  BY <1>2, <1>3, CommandedDoes
<1>. HIDE DEF d
<1>5. Does(s, h, d, {})  BY <1>2, <1>4, KeptThen
<1>6. /\ Good(d, {}) /\ i \in DOMAIN d.ev /\ h \in DOMAIN d.thd /\ d.ev[i].at # "buffer"
      /\ d.ev \in Seq(EventRec) /\ d.ev[i] \in EventRec /\ d.thd[h] \in ThreadRec
      /\ d \in [ev : Seq(EventRec), thd : Seq(ThreadRec), eff : Seq(EffRec)]
  <2>1. Good(d, {}) /\ i \in DOMAIN d.ev /\ h \in DOMAIN d.thd /\ d.ev[i].at # "buffer"
    BY <1>5 DEF Does, Stay, SameTree, Attaches
  <2>2. d \in [ev : Seq(EventRec), thd : Seq(ThreadRec), eff : Seq(EffRec)]
    BY <2>1 DEF Good, Typed
  <2>. QED  BY <2>1, <2>2, TypedIs DEF Good
<1>7. Renewed(d.ev, evs, {})
  <2>1. d.thd[h].on \in SUBSET Nat  BY <1>6 DEF ThreadRec
  <2>2. n \in EventRec /\ n.partner = d.ev[i].partner /\ n.at = d.ev[i].at
    BY <1>6, <2>1 DEF EventRec
  <2>. HIDE DEF n
  <2>3. Mutual(d.ev, {})  BY <1>6 DEF Good
  <2>. QED  BY <1>6, <2>2, <2>3, Revised DEF Renewed
<1>8. t = [d EXCEPT !.ev = evs]  BY <1>6
<1>. HIDE DEF evs, n
<1>9. Kept(d, t, {}, {}) /\ t.ev = evs /\ t.thd = d.thd
  <2>. HIDE DEF t
  <2>. QED  BY <1>6, <1>7, <1>8, ChangedEvents DEF Renewed, NotBuffered
<1>10. Does(s, h, t, {})
  <2>. HIDE DEF t
  <2>1. Does(s, h, t, {} \cup {})  BY <1>5, <1>9, DoesThen
  <2>. QED  BY <2>1
<1>11. r = CASE pair /\ e.type = "off" -> output_event(f, h, i)
             [] ~(pair /\ e.type = "off") /\ act.reject ->
                  [t EXCEPT !.ev = Rejected(@, i, pair)]
             [] pair /\ e.type = "on" /\ ~act.reject ->
                  output_event([t EXCEPT !.ev = PairMoved(@, i, act)], h, i)
             [] ~pair /\ e.type = "off" /\ ~act.reject ->
                  output_event([t EXCEPT !.ev = OffMoved(@, i, act)], h, i)
             [] OTHER -> output_event([t EXCEPT !.ev = Single(@, i, act)], h, i)
  BY DEF Acted, d, f
<1>. HIDE DEF t, r, e
<1>12. /\ t.ev \in Seq(EventRec) /\ Mutual(t.ev, {}) /\ i \in DOMAIN t.ev
       /\ t.ev[i].at # "buffer" /\ Good(t, {})
  <2>1. Good(t, {}) /\ Stay(s.ev, t.ev, {})  BY <1>10 DEF Does
  <2>. QED  BY <2>1 DEF Good, Stay
<1>13. CASE pair /\ e.type = "off"
  <2>. DEFINE u == output_event(f, h, i)
  <2>1. r = u  BY <1>11, <1>13
  <2>2. Kept(f, u, {} \ {i}, {i})  BY <1>2, <1>3, OutputKeeps
  <2>. HIDE DEF u
  <2>3. Kept(f, u, {}, {i})  BY <2>2, GoodMore
  <2>4. Does(f, h, u, {i})  BY <2>3, DoesKept
  <2>. QED  BY <1>2, <2>1, <2>4, KeptThen DEF r
<1>14. CASE ~(pair /\ e.type = "off") /\ act.reject
  <2>. DEFINE es == Rejected(t.ev, i, pair)
              u == [t EXCEPT !.ev = es]
  <2>1. r = u  BY <1>11, <1>14
  <2>2. Renewed(t.ev, es, {i})
    <3>1. CASE pair  BY <1>12, <3>1, RejectedRenews
    <3>2. CASE ~pair
      <4>1. es = Rejected(t.ev, i, FALSE)  BY <3>2 DEF Rejected
      <4>. QED  BY <1>12, <4>1, RejectedRenews
    <3>. QED  BY <3>1, <3>2
  <2>. HIDE DEF es
  <2>3. Kept(t, u, {}, {i})  BY <1>12, <2>2, ChangedEvents DEF Renewed, NotBuffered
  <2>. HIDE DEF u
  <2>4. Does(s, h, u, {} \cup {i})  BY <1>10, <2>3, DoesThen
  <2>. QED  BY <2>1, <2>4 DEF r
<1>15. CASE ~(pair /\ e.type = "off") /\ ~act.reject
  <2>. DEFINE Outputs(es) == r = output_event([t EXCEPT !.ev = es], h, i)
  <2>1. \/ Outputs(PairMoved(t.ev, i, act)) \/ Outputs(OffMoved(t.ev, i, act))
        \/ Outputs(Single(t.ev, i, act))
    <3>1. CASE pair /\ e.type = "on"  BY <1>11, <1>15, <3>1
    <3>2. CASE ~pair /\ e.type = "off"  BY <1>11, <1>15, <3>2
    <3>3. CASE ~(pair /\ e.type = "on") /\ ~(~pair /\ e.type = "off")
      BY <1>11, <1>15, <3>3
    <3>. QED  BY <3>1, <3>2, <3>3
  <2>2. \E es : Outputs(es) /\ Renewed(t.ev, es, {})
    <3>. HIDE DEF Outputs
    <3>1. Renewed(t.ev, PairMoved(t.ev, i, act), {})  BY <1>12, PairRenews
    <3>2. Renewed(t.ev, OffMoved(t.ev, i, act), {})  BY <1>12, OffRenews
    <3>3. Renewed(t.ev, Single(t.ev, i, act), {})  BY <1>12, SingleRenews
    <3>. QED  BY <2>1, <3>1, <3>2, <3>3
  <2>3. PICK es : Outputs(es) /\ Renewed(t.ev, es, {})  BY <2>2
  <2>. QED  BY <1>10, <2>3, OutputDoes DEF r
<1>. QED  BY <1>13, <1>14, <1>15

-----------------------------------------------------------------------------
(* A function that is defined by recursion over the first n numbers.       *)
Steps(n, S, a, step) == n \in Nat /\ a \in S /\ step \in [1..n -> [S -> S]]
Recurs(n, S, a, step, f) ==
  f \in [0..n -> S] /\ f[0] = a /\ \A i \in 1..n : f[i] = step[i][f[i - 1]]

LEMMA Recursion ==
  ASSUME NEW n, NEW S, NEW a, NEW step, Steps(n, S, a, step)
  PROVE  \E f : Recurs(n, S, a, step, f)
<1>. DEFINE To(m) == \E f \in [0..m -> S] : f[0] = a /\ \A i \in 1..m : f[i] = step[i][f[i - 1]]
            T == {m \in 0..n : ~To(m)}
<1>0. n \in Nat /\ a \in S /\ step \in [1..n -> [S -> S]]  BY DEF Steps
<1>1. To(0)
  <2>. DEFINE f == [i \in 0..0 |-> a]
  <2>1. f \in [0..0 -> S] /\ f[0] = a /\ 1..0 = {}  BY <1>0
  <2>. QED  BY <2>1
<1>2. ASSUME NEW m \in 0..n, m # 0, To(m - 1)  PROVE To(m)
  <2>0. m \in Nat /\ m - 1 \in Nat /\ m \in 1..n /\ m - 1 \in 0..(m - 1)  BY <1>0, <1>2
  <2>1. PICK f \in [0..(m - 1) -> S] : f[0] = a /\ \A i \in 1..(m - 1) : f[i] = step[i][f[i - 1]]
    BY <1>2
  <2>. DEFINE g == [i \in 0..m |-> IF i = m THEN step[m][f[m - 1]] ELSE f[i]]
  <2>2. \A i \in 0..m : i # m => i \in 0..(m - 1)  BY <2>0
  <2>3. step[m][f[m - 1]] \in S  BY <1>0, <2>0, <2>1
  <2>4. g \in [0..m -> S]  BY <2>1, <2>2, <2>3
  <2>5. g[0] = a  BY <2>0, <2>1, <1>2
  <2>6. ASSUME NEW i \in 1..m  PROVE g[i] = step[i][g[i - 1]]
    <3>1. i - 1 \in 0..(m - 1) /\ i - 1 # m /\ i \in 0..m /\ i - 1 \in 0..m  BY <2>0
    <3>2. g[i - 1] = f[i - 1]  BY <3>1
    <3>3. CASE i = m  BY <3>1, <3>2, <3>3
    <3>4. CASE i # m
      <4>1. i \in 1..(m - 1)  BY <2>0, <3>4
      <4>2. g[i] = f[i]  BY <3>1, <3>4
      <4>. QED  BY <2>1, <3>2, <4>1, <4>2
    <3>. QED  BY <3>3, <3>4
  <2>. QED  BY <2>4, <2>5, <2>6
<1>. HIDE DEF To
<1>3. ASSUME T # {}  PROVE FALSE
  <2>1. T \in SUBSET Nat  BY <1>0
  <2>2. PICK m \in T : \A k \in T : m <= k
    <3>. HIDE DEF T
    <3>. QED  BY <1>3, <2>1, Least
  <2>3. m # 0  BY <1>1, <2>2
  <2>4. m \in 0..n /\ m - 1 \in 0..n /\ m - 1 < m /\ m - 1 \notin T
    BY <1>0, <2>2, <2>3
  <2>5. To(m - 1)  BY <2>4
  <2>. QED  BY <1>2, <2>3, <2>4, <2>5
<1>4. n \in 0..n /\ n \notin T  BY <1>0, <1>3
<1>5. To(n)  BY <1>4
<1>. QED  BY <1>5 DEF To, Recurs

-----------------------------------------------------------------------------
(* The sequences of a buffer, one after the other.                         *)
Distinct(q) == \A x, y \in Slots(q) : Slot(q, x) = Slot(q, y) => x = y
Once(f) == \A j, k \in DOMAIN f : f[j] = f[k] => j = k
From(q, n, f) ==
  /\ f \in Seq(Nat)
  /\ \A j \in DOMAIN f : \E x \in Slots(q) : x[1] \in 1..n /\ f[j] = Slot(q, x)
  /\ Distinct(q) => Once(f)

LEMMA OneSequence ==
  ASSUME NEW q \in Seq(Seq(Nat)), NEW n \in 1..Len(q)
  PROVE  From(q, n, q[n])
<1>1. Len(q) \in Nat /\ DOMAIN q = 1..Len(q) /\ q[n] \in Seq(Nat)
  BY LenProperties, ElementOfSeq
<1>2. DOMAIN q[n] \subseteq Nat
  <2>1. DOMAIN q[n] = 1..Len(q[n]) /\ Len(q[n]) \in Nat  BY <1>1, LenProperties
  <2>. QED  BY <2>1
<1>3. ASSUME NEW j \in DOMAIN q[n]
      PROVE  /\ <<n, j>> \in Slots(q) /\ <<n, j>>[1] \in 1..n /\ q[n][j] = Slot(q, <<n, j>>)
  BY <1>1, <1>2 DEF Slots, Slot
<1>4. ASSUME Distinct(q), NEW j \in DOMAIN q[n], NEW k \in DOMAIN q[n], q[n][j] = q[n][k]
      PROVE  j = k
  <2>1. <<n, j>> = <<n, k>>  BY <1>3, <1>4 DEF Distinct
  <2>. QED  BY <2>1
<1>. QED  BY <1>1, <1>3, <1>4 DEF From, Once

LEMMA NextSequence ==
  ASSUME NEW q \in Seq(Seq(Nat)), NEW n \in 1..Len(q), NEW f, From(q, n - 1, f)
  PROVE  From(q, n, f \o q[n])
<1>. DEFINE u == q[n]
            r == f \o u
<1>1. n \in Nat /\ n - 1 \in Nat /\ n \notin 1..(n - 1) /\ 1..(n - 1) \subseteq 1..n
  BY LenProperties
<1>2. From(q, n, u)  BY OneSequence
<1>3. f \in Seq(Nat) /\ u \in Seq(Nat)  BY <1>2 DEF From
<1>. HIDE DEF u
<1>4. PICK a \in Nat : a = Len(f) /\ DOMAIN f = 1..a  BY <1>3, LenProperties
<1>5. PICK b \in Nat : b = Len(u) /\ DOMAIN u = 1..b  BY <1>3, LenProperties
<1>6. /\ r \in Seq(Nat) /\ Len(r) = a + b
      /\ \A j \in 1..(a + b) : r[j] = IF j <= a THEN f[j] ELSE u[j - a]
  BY <1>3, <1>4, <1>5, ConcatProperties
<1>7. DOMAIN r = 1..(a + b)  BY <1>6, LenProperties
<1>. HIDE DEF r
<1>8. ASSUME NEW j \in DOMAIN r
      PROVE  \/ j \in DOMAIN f /\ r[j] = f[j]
             \/ j \notin DOMAIN f /\ j - a \in DOMAIN u /\ r[j] = u[j - a]
  <2>1. CASE j <= a
    <3>1. j \in DOMAIN f  BY <1>4, <1>7, <2>1
    <3>. QED  BY <1>6, <1>7, <2>1, <3>1
  <2>2. CASE ~(j <= a)
    <3>1. j \notin DOMAIN f /\ j - a \in DOMAIN u  BY <1>4, <1>5, <1>7, <2>2
    <3>. QED  BY <1>6, <1>7, <2>2, <3>1
  <2>. QED  BY <2>1, <2>2
<1>9. \A j \in DOMAIN f : \E x \in Slots(q) : x[1] \in 1..(n - 1) /\ f[j] = Slot(q, x)
  BY DEF From
<1>10. ASSUME NEW j \in DOMAIN u
       PROVE  \E x \in Slots(q) : x[1] = n /\ u[j] = Slot(q, x)
  <2>1. DOMAIN q = 1..Len(q)  BY LenProperties
  <2>2. <<n, j>> \in Slots(q) /\ <<n, j>>[1] = n /\ u[j] = Slot(q, <<n, j>>)
    BY <1>1, <1>5, <2>1 DEF Slots, Slot, u
  <2>. QED  BY <2>2
<1>11. ASSUME NEW j \in DOMAIN r
       PROVE  \E x \in Slots(q) : x[1] \in 1..n /\ r[j] = Slot(q, x)
  <2>1. CASE j \in DOMAIN f /\ r[j] = f[j]  BY <1>1, <1>9, <2>1
  <2>2. CASE j - a \in DOMAIN u /\ r[j] = u[j - a]
    <3>1. n \in 1..n  BY <1>1
    <3>. QED  BY <1>10, <2>2, <3>1
  <2>. QED  BY <1>8, <2>1, <2>2
<1>12. ASSUME Distinct(q), NEW j \in DOMAIN f, NEW k \in DOMAIN u  PROVE f[j] # u[k]
  <2>1. PICK x \in Slots(q) : x[1] \in 1..(n - 1) /\ f[j] = Slot(q, x)  BY <1>9
  <2>2. PICK y \in Slots(q) : y[1] = n /\ u[k] = Slot(q, y)  BY <1>10
  <2>. QED  BY <1>1, <1>12, <2>1, <2>2 DEF Distinct
<1>13. ASSUME Distinct(q), NEW j \in DOMAIN r, NEW k \in DOMAIN r, r[j] = r[k]
       PROVE  j = k
  <2>0. Once(f) /\ Once(u)  BY <1>2, <1>13 DEF From
  <2>1. CASE j \in DOMAIN f /\ k \in DOMAIN f
    BY <1>8, <1>13, <2>0, <2>1 DEF Once
  <2>2. CASE j \notin DOMAIN f /\ k \notin DOMAIN f
    <3>1. j - a \in DOMAIN u /\ k - a \in DOMAIN u /\ u[j - a] = u[k - a]
      BY <1>8, <1>13, <2>2
    <3>2. j - a = k - a  BY <2>0, <3>1 DEF Once
    <3>. QED  BY <1>7, <3>2
  <2>3. CASE j \in DOMAIN f /\ k \notin DOMAIN f  BY <1>8, <1>12, <1>13, <2>3
  <2>4. CASE j \notin DOMAIN f /\ k \in DOMAIN f  BY <1>8, <1>12, <1>13, <2>4
  <2>. QED  BY <2>1, <2>2, <2>3, <2>4
<1>14. From(q, n, r)  BY <1>6, <1>11, <1>13 DEF From, Once
<1>. QED  BY <1>14 DEF r, u

LEMMA Flattened ==
  ASSUME NEW q \in Seq(Seq(Nat))
  PROVE  From(q, Len(q), FlattenSeq(q))
<1>. DEFINE n == Len(q)
<1>0. n \in Nat /\ DOMAIN q = 1..n /\ \A i \in 1..n : q[i] \in Seq(Nat)
  BY LenProperties, ElementOfSeq
<1>1. CASE n = 0
  <2>1. q = <<>>  BY <1>1, EmptySeq
  <2>2. FlattenSeq(q) = <<>>  BY <1>1, <2>1 DEF FlattenSeq
  <2>3. From(q, n, <<>>)  BY <2>1 DEF From, Once
  <2>. QED  BY <2>2, <2>3
<1>2. CASE n # 0
  <2>. DEFINE flat == CHOOSE g : g = [i \in 1..n |-> IF i = 1 THEN q[i] ELSE g[i - 1] \o q[i]]
              step == [i \in 1..n |-> [x \in Seq(Nat) |-> IF i = 1 THEN q[i] ELSE x \o q[i]]]
  <2>1. FlattenSeq(q) = flat[n]  BY <1>2 DEF FlattenSeq
  <2>2. step \in [1..n -> [Seq(Nat) -> Seq(Nat)]]
    <3>1. \A i \in 1..n : \A x \in Seq(Nat) : x \o q[i] \in Seq(Nat)  BY <1>0, ConcatProperties
    <3>. HIDE DEF n
    <3>. QED  BY <1>0, <3>1
  <2>3. \A i \in 1..n : \A x \in Seq(Nat) : step[i][x] = IF i = 1 THEN q[i] ELSE x \o q[i]
    OBVIOUS
  <2>4. <<>> \in Seq(Nat)  OBVIOUS
  <2>. HIDE DEF n, step
  <2>5. PICK f \in [0..n -> Seq(Nat)] :
          f[0] = <<>> /\ \A i \in 1..n : f[i] = step[i][f[i - 1]]
    <3>1. \E f \in [0..n -> Seq(Nat)] :
            f[0] = <<>> /\ \A i \in 1..n : f[i] = step[i][f[i - 1]]
      <4>1. Steps(n, Seq(Nat), <<>>, step)  BY <1>0, <2>2, <2>4 DEF Steps
      <4>2. \E f : Recurs(n, Seq(Nat), <<>>, step, f)  BY <4>1, Recursion
      <4>. QED  BY <4>2 DEF Recurs
    <3>. QED  BY <3>1
  <2>6. ASSUME NEW i \in 1..n  PROVE f[i] = IF i = 1 THEN q[i] ELSE f[i - 1] \o q[i]
    <3>1. i - 1 \in 0..n  BY <1>0
    <3>2. f[i - 1] \in Seq(Nat)  BY <2>5, <3>1
    <3>. QED  BY <2>3, <2>5, <3>2
  <2>. DEFINE g == [i \in 1..n |-> f[i]]
  <2>7. g = [i \in 1..n |-> IF i = 1 THEN q[i] ELSE g[i - 1] \o q[i]]
    <3>1. ASSUME NEW i \in 1..n  PROVE g[i] = IF i = 1 THEN q[i] ELSE g[i - 1] \o q[i]
      <4>1. CASE i = 1  BY <2>6, <4>1
      <4>2. CASE i # 1
        <5>1. i - 1 \in 1..n  BY <1>0, <4>2
        <5>. QED  BY <2>6, <4>2, <5>1
      <4>. QED  BY <4>1, <4>2
    <3>. QED  BY <3>1
  <2>. HIDE DEF g
  <2>8. flat = [i \in 1..n |-> IF i = 1 THEN q[i] ELSE flat[i - 1] \o q[i]]
    BY <2>7
  <2>. HIDE DEF flat
  <2>9. \A i \in 1..n : flat[i] = IF i = 1 THEN q[i] ELSE flat[i - 1] \o q[i]
    BY <2>8
  <2>. DEFINE T == {i \in 1..n : ~From(q, i, flat[i])}
  <2>10. ASSUME T # {}  PROVE FALSE
    <3>1. T \in SUBSET Nat  BY <1>0
    <3>2. PICK m \in T : \A k \in T : m <= k
      <4>. HIDE DEF T
      <4>. QED  BY <2>10, <3>1, Least
    <3>3. m \in 1..n /\ ~From(q, m, flat[m])  BY <3>2
    <3>4. CASE m = 1
      <4>1. flat[m] = q[m]  BY <2>9, <3>3, <3>4
      <4>2. From(q, m, q[m])  BY <3>3, OneSequence DEF n
      <4>. QED  BY <3>3, <4>1, <4>2
    <3>5. CASE m # 1
      <4>1. m - 1 \in 1..n /\ m - 1 < m /\ m - 1 \notin T  BY <1>0, <3>2, <3>3, <3>5
      <4>2. From(q, m - 1, flat[m - 1])  BY <4>1
      <4>3. flat[m] = flat[m - 1] \o q[m]  BY <2>9, <3>3, <3>5
      <4>4. From(q, m, flat[m - 1] \o q[m])  BY <3>3, <4>2, NextSequence DEF n
      <4>. QED  BY <3>3, <4>3, <4>4
    <3>. QED  BY <3>4, <3>5
  <2>11. n \in 1..n  BY <1>0, <1>2
  <2>12. From(q, n, flat[n])  BY <2>10, <2>11
  <2>. QED  BY <2>1, <2>12 DEF n
<1>. QED  BY <1>1, <1>2

-----------------------------------------------------------------------------
(* Events in order: the same events, each of them once.                    *)
Precedes(evs, s, i, j) ==
  EV_LESS(evs[s[i]], evs[s[j]]) \/ (~EV_LESS(evs[s[j]], evs[s[i]]) /\ i < j)
Preceding(evs, s, j) == {i \in DOMAIN s : Precedes(evs, s, i, j)}

LEMMA PriorityIs ==
  ASSUME NEW e
  PROVE  EPRI(e) \in Int
BY DEF EPRI

LEMMA PrecedesIsOrder ==
  ASSUME NEW evs \in Seq(EventRec), NEW s \in Seq(Nat),
         \A j \in DOMAIN s : s[j] \in DOMAIN evs,
         NEW i \in DOMAIN s, NEW j \in DOMAIN s, NEW k \in DOMAIN s
  PROVE  /\ ~Precedes(evs, s, i, i)
         /\ i # j => Precedes(evs, s, i, j) \/ Precedes(evs, s, j, i)
         /\ Precedes(evs, s, i, j) /\ Precedes(evs, s, j, k) => Precedes(evs, s, i, k)
<1>1. /\ evs[s[i]] \in EventRec /\ evs[s[j]] \in EventRec /\ evs[s[k]] \in EventRec
      /\ i \in Int /\ j \in Int /\ k \in Int
  <2>1. DOMAIN s = 1..Len(s) /\ Len(s) \in Nat  BY LenProperties
  <2>2. s[i] \in DOMAIN evs /\ s[j] \in DOMAIN evs /\ s[k] \in DOMAIN evs  OBVIOUS
  <2>3. \A n \in DOMAIN evs : evs[n] \in EventRec  BY LenProperties, ElementOfSeq
  <2>. QED  BY <2>1, <2>2, <2>3
<1>2. /\ evs[s[i]].time \in Int /\ evs[s[j]].time \in Int /\ evs[s[k]].time \in Int
      /\ EPRI(evs[s[i]]) \in Int /\ EPRI(evs[s[j]]) \in Int /\ EPRI(evs[s[k]]) \in Int
  BY <1>1, PriorityIs DEF EventRec
<1>3. PICK a \in Int, b \in Int, c \in Int :
        a = evs[s[i]].time /\ b = evs[s[j]].time /\ c = evs[s[k]].time
  BY <1>2
<1>4. PICK p \in Int, q \in Int, r \in Int :
        p = EPRI(evs[s[i]]) /\ q = EPRI(evs[s[j]]) /\ r = EPRI(evs[s[k]])
  BY <1>2
<1>. DEFINE Less(x, y, z, w) == x < z \/ (x = z /\ y < w)
<1>5. /\ Precedes(evs, s, i, i) <=> Less(a, p, a, p) \/ (~Less(a, p, a, p) /\ i < i)
      /\ Precedes(evs, s, i, j) <=> Less(a, p, b, q) \/ (~Less(b, q, a, p) /\ i < j)
      /\ Precedes(evs, s, j, i) <=> Less(b, q, a, p) \/ (~Less(a, p, b, q) /\ j < i)
      /\ Precedes(evs, s, j, k) <=> Less(b, q, c, r) \/ (~Less(c, r, b, q) /\ j < k)
      /\ Precedes(evs, s, i, k) <=> Less(a, p, c, r) \/ (~Less(c, r, a, p) /\ i < k)
  BY <1>3, <1>4 DEF Precedes, EV_LESS
<1>6. i \in Int /\ j \in Int /\ k \in Int  BY <1>1
<1>. QED  BY <1>5, <1>6

LEMMA OrderedOnce ==
  ASSUME NEW evs \in Seq(EventRec), NEW s \in Seq(Nat),
         \A j \in DOMAIN s : s[j] \in DOMAIN evs
  PROVE  LET r == Ordered(evs, s)
         IN /\ r \in Seq(Nat) /\ DOMAIN r = DOMAIN s
            /\ \A k \in DOMAIN r : \E j \in DOMAIN s : r[k] = s[j]
            /\ Once(s) => Once(r)
<1>. DEFINE D == DOMAIN s
            at(k) == CHOOSE j \in D : Cardinality(Preceding(evs, s, j)) + 1 = k
            r == [k \in D |-> s[at(k)]]
<1>1. D = 1..Len(s) /\ Len(s) \in Nat /\ \A j \in D : s[j] \in Nat
  BY LenProperties, ElementOfSeq
<1>2. IsFiniteSet(D) /\ Cardinality(D) = Len(s)
  <2>1. 1 \in Int /\ Len(s) \in Int  BY <1>1
  <2>2. /\ IsFiniteSet(1..Len(s))
        /\ Cardinality(1..Len(s)) = IF 1 > Len(s) THEN 0 ELSE Len(s) - 1 + 1
    BY <2>1, FS_Interval
  <2>. HIDE DEF D
  <2>. QED  BY <1>1, <2>2
<1>3. Ordered(evs, s) = r
  BY DEF Ordered, Preceding, Precedes
<1>4. ASSUME NEW j \in D
      PROVE  /\ Preceding(evs, s, j) \in SUBSET D /\ j \notin Preceding(evs, s, j)
             /\ IsFiniteSet(Preceding(evs, s, j)) /\ Cardinality(Preceding(evs, s, j)) \in Nat
  <2>1. Preceding(evs, s, j) \in SUBSET D /\ j \notin Preceding(evs, s, j)
    BY PrecedesIsOrder DEF Preceding
  <2>2. IsFiniteSet(Preceding(evs, s, j))  BY <1>2, <2>1, FS_Subset
  <2>. QED  BY <2>1, <2>2, FS_CardinalityType
<1>5. ASSUME NEW j \in D, NEW k \in D, Precedes(evs, s, j, k)
      PROVE  Cardinality(Preceding(evs, s, j)) < Cardinality(Preceding(evs, s, k))
  <2>. DEFINE A == Preceding(evs, s, j)
              B == Preceding(evs, s, k)
  <2>1. A \in SUBSET B
    <3>1. ASSUME NEW i \in A  PROVE i \in B
      <4>1. i \in D /\ Precedes(evs, s, i, j)  BY DEF Preceding
      <4>. QED  BY <1>5, <4>1, PrecedesIsOrder DEF Preceding
    <3>. QED  BY <3>1
  <2>2. j \in B /\ j \notin A  BY <1>4, <1>5 DEF Preceding
  <2>3. IsFiniteSet(B) /\ Cardinality(A) \in Nat /\ Cardinality(B) \in Nat  BY <1>4
  <2>. HIDE DEF A, B
  <2>4. Cardinality(A) <= Cardinality(B) /\ (Cardinality(B) = Cardinality(A) => B = A)
    BY <2>1, <2>3, FS_Subset
  <2>5. Cardinality(A) # Cardinality(B)  BY <2>2, <2>4
  <2>6. Cardinality(A) < Cardinality(B)  BY <2>3, <2>4, <2>5
  <2>. QED  BY <2>6 DEF A, B
<1>. DEFINE rank == [j \in D |-> Cardinality(Preceding(evs, s, j)) + 1]
<1>6. ASSUME NEW j \in D
      PROVE  rank[j] \in D
  <2>. DEFINE A == Preceding(evs, s, j)
  <2>1. A \in SUBSET D /\ j \notin A /\ Cardinality(A) \in Nat  BY <1>4
  <2>. HIDE DEF A
  <2>2. Cardinality(A) <= Cardinality(D) /\ (Cardinality(D) = Cardinality(A) => D = A)
    BY <1>2, <2>1, FS_Subset
  <2>3. Cardinality(A) # Cardinality(D)  BY <2>1, <2>2
  <2>4. Cardinality(A) + 1 \in D  BY <1>1, <1>2, <2>1, <2>2, <2>3
  <2>. QED  BY <2>4 DEF A
<1>7. ASSUME NEW j \in D, NEW k \in D, rank[j] = rank[k]
      PROVE  j = k
  <2>0. Cardinality(Preceding(evs, s, j)) \in Nat /\ Cardinality(Preceding(evs, s, k)) \in Nat
    BY <1>4
  <2>1. Cardinality(Preceding(evs, s, j)) = Cardinality(Preceding(evs, s, k))
    BY <1>7, <2>0
  <2>2. ~Precedes(evs, s, j, k) /\ ~Precedes(evs, s, k, j)  BY <1>5, <2>0, <2>1
  <2>. QED  BY <2>2, PrecedesIsOrder
<1>13. \A j \in D : rank[j] = Cardinality(Preceding(evs, s, j)) + 1  OBVIOUS
<1>. HIDE DEF rank
<1>8. ASSUME NEW k \in D
      PROVE  at(k) \in D /\ Cardinality(Preceding(evs, s, at(k))) + 1 = k
  <2>1. rank \in [D -> D]  BY <1>6, <1>13 DEF rank
  <2>2. rank \in Injection(D, D)  BY <1>7, <2>1 DEF Injection, IsInjective
  <2>. HIDE DEF D
  <2>3. rank \in Surjection(D, D)  BY <1>2, <2>2, FS_Injection
  <2>4. \E j \in D : rank[j] = k  BY <2>3 DEF Surjection
  <2>5. \E j \in D : Cardinality(Preceding(evs, s, j)) + 1 = k  BY <1>13, <2>4
  <2>. QED  BY <2>5
<1>. HIDE DEF at
<1>9. r \in [1..Len(s) -> Nat]  BY <1>1, <1>8
<1>10. r \in Seq(Nat)
  <2>1. PICK m \in Nat : m = Len(s)  BY <1>1
  <2>. HIDE DEF r, D
  <2>2. r \in [1..m -> Nat]  BY <1>9, <2>1
  <2>. QED  BY <2>2
<1>11. \A k \in DOMAIN r : \E j \in DOMAIN s : r[k] = s[j]  BY <1>8
<1>12. Once(s) => Once(r)  BY <1>8 DEF Once
<1>. QED  BY <1>3, <1>10, <1>11, <1>12

-----------------------------------------------------------------------------
(* Pairing: an isolated note-off and an isolated note-on become partners.  *)
AllBuffered(evs, s) == \A j \in DOMAIN s : s[j] \in DOMAIN evs /\ evs[s[j]].at = "buffer"
Renewals(evs) == {r \in Seq(EventRec) : Renewed(evs, r, {})}

LEMMA PairedRenews ==
  ASSUME NEW evs \in Seq(EventRec), Mutual(evs, {}), NEW on \in DOMAIN evs, NEW off \in DOMAIN evs,
         on # off, evs[on].partner = 0, evs[off].partner = 0,
         evs[on].at = "buffer", evs[off].at = "buffer"
  PROVE  Renewed(evs, Paired(evs, on, off), {})
<1>. DEFINE reg == evs[off].time = evs[on].time
            b == [evs[off] EXCEPT !.partner = on, !.irregular = reg]
            c == [evs[on] EXCEPT !.partner = off]
            q == [evs EXCEPT ![off] = b]
            r == [q EXCEPT ![on] = c]
<1>1. /\ evs[on] \in EventRec /\ evs[off] \in EventRec /\ on \in Nat \ {0} /\ off \in Nat \ {0}
      /\ 0 \notin DOMAIN evs
  <2>1. DOMAIN evs = 1..Len(evs) /\ Len(evs) \in Nat  BY LenProperties
  <2>. QED  BY <2>1, ElementOfSeq
<1>2. /\ b \in EventRec /\ b.partner = on /\ b.at = "buffer"
      /\ c \in EventRec /\ c.partner = off /\ c.at = "buffer"
  BY <1>1 DEF EventRec
<1>3. Paired(evs, on, off) = r  BY <1>1 DEF Paired
<1>. HIDE DEF b, c
<1>4. /\ q \in Seq(EventRec) /\ DOMAIN q = DOMAIN evs /\ q[off] = b
      /\ \A j \in DOMAIN evs \ {off} : q[j] = evs[j]
  BY <1>2, Changed
<1>. HIDE DEF q
<1>5. /\ r \in Seq(EventRec) /\ DOMAIN r = DOMAIN evs /\ r[on] = c
      /\ \A j \in DOMAIN evs \ {on} : r[j] = q[j]
  BY <1>2, <1>4, Changed
<1>. HIDE DEF r
<1>6. /\ r[on].partner = off /\ r[off].partner = on
      /\ \A j \in DOMAIN evs : r[j].at = evs[j].at
      /\ \A j \in DOMAIN evs \ {on, off} : r[j].partner = evs[j].partner
  BY <1>2, <1>4, <1>5
<1>7. Mutual(r, {})
  <2>1. SUFFICES ASSUME NEW j \in DOMAIN r, r[j].partner # 0
                 PROVE  /\ r[j].partner \in DOMAIN r /\ r[j].partner # j
                        /\ r[r[j].partner].partner = j /\ r[j].at \in {"buffer", "queue"}
    BY DEF Mutual
  <2>2. CASE j \in {on, off}  BY <1>5, <1>6, <2>2
  <2>3. CASE j \notin {on, off}
    <3>1. r[j].partner = evs[j].partner /\ r[j].at = evs[j].at /\ j \in DOMAIN evs
      BY <1>5, <1>6, <2>1, <2>3
    <3>2. /\ evs[j].partner \in DOMAIN evs /\ evs[j].partner # j
          /\ evs[evs[j].partner].partner = j /\ evs[j].at \in {"buffer", "queue"}
      BY <2>1, <3>1 DEF Mutual
    <3>3. evs[j].partner \notin {on, off}  BY <1>1, <3>1, <3>2
    <3>. QED  BY <1>5, <1>6, <3>1, <3>2, <3>3
  <2>. QED  BY <2>2, <2>3
<1>8. Stay(evs, r, {})  BY <1>5, <1>6 DEF Stay
<1>. QED  BY <1>3, <1>5, <1>7, <1>8 DEF Renewed

PairStep(evs, s, was, n) ==
  LET ch == evs[s[n]].ch
      pending == {j \in 1..(n - 1) : Isolated(was, s[j], "on", ch)}
  IN IF Isolated(was, s[n], "off", ch) /\ pending # {}
     THEN Paired(was, s[Max(pending)], s[n]) ELSE was

LEMMA PairStepRenews ==
  ASSUME NEW evs \in Seq(EventRec), NEW s \in Seq(Nat), AllBuffered(evs, s),
         NEW n \in 1..Len(s), NEW was \in Renewals(evs)
  PROVE  PairStep(evs, s, was, n) \in Renewals(evs)
<1>. DEFINE ch == evs[s[n]].ch
            pending == {j \in 1..(n - 1) : Isolated(was, s[j], "on", ch)}
            m == Max(pending)
<1>1. Renewed(evs, was, {}) /\ was \in Seq(EventRec)  BY DEF Renewals
<1>2. DOMAIN s = 1..Len(s) /\ Len(s) \in Nat  BY LenProperties
<1>3. CASE Isolated(was, s[n], "off", ch) /\ pending # {}
  <2>1. m \in pending
    <3>1. n - 1 \in Nat /\ pending \in SUBSET (1..(n - 1))  BY <1>2
    <3>. HIDE DEF pending
    <3>. QED  BY <1>3, <3>1, MaxIs
  <2>2. m \in DOMAIN s /\ n \in DOMAIN s /\ Isolated(was, s[m], "on", ch)
    <3>. HIDE DEF m
    <3>. QED  BY <1>2, <2>1
  <2>3. PairStep(evs, s, was, n) = Paired(was, s[m], s[n])  BY <1>3 DEF PairStep
  <2>. HIDE DEF m, pending, ch
  <2>. DEFINE on == s[m]
              off == s[n]
  <2>4. /\ on \in DOMAIN was /\ off \in DOMAIN was /\ on # off
        /\ was[on].partner = 0 /\ was[off].partner = 0
        /\ was[on].at = "buffer" /\ was[off].at = "buffer"
    <3>1. /\ on \in DOMAIN evs /\ off \in DOMAIN evs
          /\ evs[on].at = "buffer" /\ evs[off].at = "buffer"
      BY <2>2 DEF AllBuffered
    <3>2. was[on].at = "buffer" /\ was[off].at = "buffer" /\ DOMAIN was = DOMAIN evs
      BY <1>1, <3>1 DEF Renewed, Stay
    <3>3. /\ was[on].type = "on" /\ was[off].type = "off"
          /\ was[on].partner = 0 /\ was[off].partner = 0
      BY <1>3, <2>2 DEF Isolated
    <3>. QED  BY <3>1, <3>2, <3>3
  <2>. HIDE DEF on, off
  <2>5. Mutual(was, {})  BY <1>1 DEF Renewed
  <2>6. Renewed(was, Paired(was, on, off), {})  BY <1>1, <2>4, <2>5, PairedRenews
  <2>7. Renewed(evs, Paired(was, on, off), {} \cup {})  BY <1>1, <2>6, RenewedThen
  <2>8. Paired(was, on, off) \in Renewals(evs)  BY <2>7 DEF Renewals, Renewed, Stay
  <2>. QED  BY <2>3, <2>8 DEF on, off
<1>4. CASE ~(Isolated(was, s[n], "off", ch) /\ pending # {})
  BY <1>4 DEF PairStep
<1>. QED  BY <1>3, <1>4

(* A function that takes each number to what a step makes of the one before. *)
LEMMA Repeated ==
  ASSUME NEW n, NEW S, NEW a, NEW step, Steps(n, S, a, step), NEW g, g[0] = a,
         \A i \in 1..n : g[i - 1] \in S => g[i] = step[i][g[i - 1]]
  PROVE  g[n] \in S
<1>0. n \in Nat /\ a \in S /\ step \in [1..n -> [S -> S]]  BY DEF Steps
<1>. DEFINE T == {i \in 0..n : g[i] \notin S}
<1>1. ASSUME T # {}  PROVE FALSE
  <2>1. T \in SUBSET Nat  BY <1>0
  <2>2. PICK m \in T : \A k \in T : m <= k
    <3>. HIDE DEF T
    <3>. QED  BY <1>1, <2>1, Least
  <2>3. m \in 0..n /\ g[m] \notin S  BY <2>2
  <2>4. m # 0  BY <1>0, <2>3
  <2>5. m \in 1..n /\ m - 1 \in 0..n /\ m - 1 < m /\ m - 1 \notin T  BY <1>0, <2>2, <2>3, <2>4
  <2>6. g[m - 1] \in S  BY <2>5
  <2>7. step[m] \in [S -> S]  BY <1>0, <2>5
  <2>. QED  BY <2>3, <2>5, <2>6, <2>7
<1>2. n \in 0..n  BY <1>0
<1>. QED  BY <1>1, <1>2

LEMMA PairNotesRenews ==
  ASSUME NEW evs \in Seq(EventRec), Mutual(evs, {}), NEW s \in Seq(Nat), AllBuffered(evs, s)
  PROVE  pair_notes(evs, s) \in Renewals(evs)
<1>. DEFINE N == Len(s)
            R == Renewals(evs)
            after == CHOOSE g : g = [n \in 0..N |->
                       IF n = 0 THEN evs ELSE PairStep(evs, s, g[n - 1], n)]
            step == [n \in 1..N |-> [was \in R |-> PairStep(evs, s, was, n)]]
<1>1. N \in Nat  BY LenProperties
<1>2. pair_notes(evs, s) = after[N]  BY DEF pair_notes, PairStep
<1>3. Steps(N, R, evs, step)
  <2>1. evs \in R  BY DEF Renewals, Renewed, Stay
  <2>2. \A n \in 1..N : \A was \in R : PairStep(evs, s, was, n) \in R
    BY PairStepRenews
  <2>. HIDE DEF R, N
  <2>. QED  BY <1>1, <2>1, <2>2 DEF Steps
<1>4. \A n \in 1..N : \A was \in R : step[n][was] = PairStep(evs, s, was, n)  OBVIOUS
<1>. HIDE DEF N, R, step
<1>5. PICK f : Recurs(N, R, evs, step, f)  BY <1>3, Recursion
<1>6. f = [n \in 0..N |-> IF n = 0 THEN evs ELSE PairStep(evs, s, f[n - 1], n)]
  <2>1. f \in [0..N -> R] /\ f[0] = evs /\ \A n \in 1..N : f[n] = step[n][f[n - 1]]
    BY <1>5 DEF Recurs
  <2>2. ASSUME NEW n \in 0..N
        PROVE  f[n] = IF n = 0 THEN evs ELSE PairStep(evs, s, f[n - 1], n)
    <3>1. CASE n = 0  BY <2>1, <3>1
    <3>2. CASE n # 0
      <4>1. n \in 1..N /\ n - 1 \in 0..N  BY <1>1, <3>2
      <4>2. f[n - 1] \in R  BY <2>1, <4>1
      <4>. QED  BY <1>4, <2>1, <3>2, <4>1, <4>2
    <3>. QED  BY <3>1, <3>2
  <2>. QED  BY <2>1, <2>2
<1>7. after = [n \in 0..N |-> IF n = 0 THEN evs ELSE PairStep(evs, s, after[n - 1], n)]
  BY <1>6
<1>. HIDE DEF after
<1>8. after[0] = evs  BY <1>1, <1>7
<1>9. ASSUME NEW n \in 1..N, after[n - 1] \in R  PROVE after[n] = step[n][after[n - 1]]
  <2>1. n \in 0..N /\ n # 0  BY <1>1
  <2>2. after[n] = PairStep(evs, s, after[n - 1], n)  BY <1>7, <2>1
  <2>. QED  BY <1>4, <1>9, <2>2
<1>10. after[N] \in R  BY <1>3, <1>8, <1>9, Repeated
<1>. QED  BY <1>2, <1>10 DEF R

(* The sequences of all the tracks.                                        *)
LEMMA AllPairedRenews ==
  ASSUME ev \in Seq(EventRec), Mutual(ev, {}), NEW seqs,
         \A k \in Track : seqs[k] \in Seq(Nat) /\ AllBuffered(ev, seqs[k])
  PROVE  AllPaired(seqs) \in Renewals(ev)
<1>. DEFINE R == Renewals(ev)
            after == CHOOSE g : g = [k \in 0..Tracks |->
                       IF k = 0 THEN ev ELSE pair_notes(g[k - 1], seqs[k])]
            step == [k \in 1..Tracks |-> [was \in R |-> pair_notes(was, seqs[k])]]
<1>1. Tracks \in Nat /\ Track = 1..Tracks  BY BoundAssumption DEF Track
<1>2. AllPaired(seqs) = after[Tracks]  BY DEF AllPaired
<1>3. Steps(Tracks, R, ev, step)
  <2>1. ev \in R  BY DEF Renewals, Renewed, Stay
  <2>2. ASSUME NEW k \in 1..Tracks, NEW was \in R  PROVE pair_notes(was, seqs[k]) \in R
    <3>1. was \in Seq(EventRec) /\ Renewed(ev, was, {})  BY DEF Renewals
    <3>2. Mutual(was, {}) /\ DOMAIN was = DOMAIN ev  BY <3>1 DEF Renewed
    <3>3. seqs[k] \in Seq(Nat) /\ AllBuffered(ev, seqs[k])  BY <1>1
    <3>4. AllBuffered(was, seqs[k])
      <4>1. \A j \in DOMAIN ev : was[j].at = ev[j].at  BY <3>1 DEF Renewed, Stay
      <4>. QED  BY <3>2, <3>3, <4>1 DEF AllBuffered
    <3>5. pair_notes(was, seqs[k]) \in Renewals(was)
      BY <3>1, <3>2, <3>3, <3>4, PairNotesRenews
    <3>. DEFINE r == pair_notes(was, seqs[k])
    <3>. HIDE DEF r
    <3>6. r \in Seq(EventRec) /\ Renewed(was, r, {})  BY <3>5 DEF Renewals, r
    <3>7. Renewed(ev, r, {} \cup {})  BY <3>1, <3>6, RenewedThen
    <3>8. r \in Renewals(ev)  BY <3>6, <3>7 DEF Renewals
    <3>. QED  BY <3>8 DEF r
  <2>. HIDE DEF R
  <2>. QED  BY <1>1, <2>1, <2>2 DEF Steps
<1>4. \A k \in 1..Tracks : \A was \in R : step[k][was] = pair_notes(was, seqs[k])  OBVIOUS
<1>. HIDE DEF R, step
<1>5. PICK f : Recurs(Tracks, R, ev, step, f)  BY <1>3, Recursion
<1>6. f = [k \in 0..Tracks |-> IF k = 0 THEN ev ELSE pair_notes(f[k - 1], seqs[k])]
  <2>1. f \in [0..Tracks -> R] /\ f[0] = ev /\ \A k \in 1..Tracks : f[k] = step[k][f[k - 1]]
    BY <1>5 DEF Recurs
  <2>2. ASSUME NEW k \in 0..Tracks
        PROVE  f[k] = IF k = 0 THEN ev ELSE pair_notes(f[k - 1], seqs[k])
    <3>1. CASE k = 0  BY <2>1, <3>1
    <3>2. CASE k # 0
      <4>1. k \in 1..Tracks /\ k - 1 \in 0..Tracks  BY <1>1, <3>2
      <4>2. f[k - 1] \in R  BY <2>1, <4>1
      <4>. QED  BY <1>4, <2>1, <3>2, <4>1, <4>2
    <3>. QED  BY <3>1, <3>2
  <2>. QED  BY <2>1, <2>2
<1>7. after = [k \in 0..Tracks |-> IF k = 0 THEN ev ELSE pair_notes(after[k - 1], seqs[k])]
  BY <1>6
<1>. HIDE DEF after
<1>8. after[0] = ev  BY <1>1, <1>7
<1>9. ASSUME NEW k \in 1..Tracks, after[k - 1] \in R  PROVE after[k] = step[k][after[k - 1]]
  <2>1. k \in 0..Tracks /\ k # 0  BY <1>1
  <2>2. after[k] = pair_notes(after[k - 1], seqs[k])  BY <1>7, <2>1
  <2>. QED  BY <1>4, <1>9, <2>2
<1>10. after[Tracks] \in R  BY <1>3, <1>8, <1>9, Repeated
<1>. QED  BY <1>2, <1>10 DEF R

-----------------------------------------------------------------------------
(* What detach_effector collects: the events of the buffers, each once.    *)
Of(e, k, i) == \E x \in Slots(eff[e].buf[k]) : i = Slot(eff[e].buf[k], x)
Listed(e, k, s) == s \in Seq(Nat) /\ Once(s) /\ \A j \in DOMAIN s : Of(e, k, s[j])

LEMMA OfPlace ==
  ASSUME Good(State, {}), NEW e \in DOMAIN eff, NEW k \in Track, NEW i, Of(e, k, i)
  PROVE  /\ i \in DOMAIN ev /\ ev[i].at = "buffer"
         /\ \A p \in Places(State) : InPlace(State, p) = i => p[1] = e /\ p[2] = k
<1>1. PICK x \in Slots(eff[e].buf[k]) : i = Slot(eff[e].buf[k], x)  BY DEF Of
<1>. DEFINE p == <<e, k, x>>
<1>2. p \in Places(State) /\ InPlace(State, p) = i /\ p[1] = e /\ p[2] = k
  BY <1>1 DEF Places, InPlace, State, Slots
<1>. HIDE DEF p
<1>. QED  BY <1>2 DEF Good, Buffered, State

LEMMA OrderedListed ==
  ASSUME Good(State, {}), NEW e \in DOMAIN eff, NEW k \in Track, NEW s, Listed(e, k, s),
         NEW evs \in Renewals(ev)
  PROVE  Listed(e, k, Ordered(evs, s))
<1>1. s \in Seq(Nat) /\ Once(s) /\ \A j \in DOMAIN s : Of(e, k, s[j])  BY DEF Listed
<1>2. evs \in Seq(EventRec) /\ DOMAIN evs = DOMAIN ev  BY DEF Renewals, Renewed
<1>3. \A j \in DOMAIN s : s[j] \in DOMAIN evs  BY <1>1, <1>2, OfPlace
<1>. DEFINE r == Ordered(evs, s)
<1>4. /\ r \in Seq(Nat) /\ DOMAIN r = DOMAIN s
      /\ \A j \in DOMAIN r : \E n \in DOMAIN s : r[j] = s[n]
      /\ Once(s) => Once(r)
  BY <1>1, <1>2, <1>3, OrderedOnce
<1>. HIDE DEF r
<1>5. Listed(e, k, r)  BY <1>1, <1>4 DEF Listed
<1>. QED  BY <1>5 DEF r

LEMMA FlatListed ==
  ASSUME Good(State, {}), NEW e \in DOMAIN eff, NEW k \in Track
  PROVE  Listed(e, k, FlattenSeq(eff[e].buf[k]))
<1>. DEFINE q == eff[e].buf[k]
            f == FlattenSeq(q)
<1>1. q \in Seq(Seq(Nat))
  <2>1. State.eff[e] \in EffRec /\ State.eff[e] = eff[e]  BY TypedIs DEF Good, State
  <2>. QED  BY <2>1 DEF EffRec
<1>2. Distinct(q)
  <2>1. SUFFICES ASSUME NEW x \in Slots(q), NEW y \in Slots(q), Slot(q, x) = Slot(q, y)
                 PROVE  x = y
    BY DEF Distinct
  <2>. DEFINE a == <<e, k, x>>
              b == <<e, k, y>>
  <2>2. /\ a \in Places(State) /\ b \in Places(State) /\ a[3] = x /\ b[3] = y
        /\ InPlace(State, a) = InPlace(State, b)
    BY <2>1 DEF Places, InPlace, State, Slots
  <2>. HIDE DEF a, b
  <2>3. a = b  BY <2>2 DEF Good, Buffered
  <2>. QED  BY <2>2, <2>3
<1>. HIDE DEF q
<1>3. From(q, Len(q), f)  BY <1>1, Flattened
<1>. HIDE DEF f
<1>4. f \in Seq(Nat) /\ Once(f) /\ \A j \in DOMAIN f : \E x \in Slots(q) : f[j] = Slot(q, x)
  BY <1>2, <1>3 DEF From
<1>5. Listed(e, k, f)  BY <1>4 DEF Listed, Of, q
<1>. QED  BY <1>5 DEF f, q

Collects(e, s) ==
  s \in Seq(Nat) /\ Once(s) /\ \A j \in DOMAIN s : \E k \in Track : Of(e, k, s[j])

LEMMA TracksListed ==
  ASSUME Good(State, {}), NEW e \in DOMAIN eff, NEW seqs,
         seqs = [k \in Track |-> seqs[k]], \A k \in Track : Listed(e, k, seqs[k])
  PROVE  Collects(e, FlattenSeq(seqs))
<1>0. Track = 1..Tracks /\ Tracks \in Nat  BY BoundAssumption DEF Track
<1>1. seqs \in Seq(Seq(Nat)) /\ DOMAIN seqs = Track
  <2>1. \A k \in Track : seqs[k] \in Seq(Nat)  BY DEF Listed
  <2>2. seqs \in [Track -> Seq(Nat)]  BY <2>1
  <2>3. seqs \in [1..Tracks -> Seq(Nat)]  BY <1>0, <2>2
  <2>. QED  BY <1>0, <2>2, <2>3
<1>2. ASSUME NEW x \in Slots(seqs)
      PROVE  /\ x = <<x[1], x[2]>> /\ x[1] \in Track /\ x[2] \in DOMAIN seqs[x[1]]
             /\ Of(e, x[1], Slot(seqs, x))
  <2>1. x = <<x[1], x[2]>> /\ x[1] \in Track /\ x[2] \in DOMAIN seqs[x[1]]
    BY <1>1 DEF Slots
  <2>2. Slot(seqs, x) = seqs[x[1]][x[2]]  BY DEF Slot
  <2>. QED  BY <2>1, <2>2 DEF Listed
<1>3. Distinct(seqs)
  <2>1. SUFFICES ASSUME NEW x \in Slots(seqs), NEW y \in Slots(seqs), Slot(seqs, x) = Slot(seqs, y)
                 PROVE  x = y
    BY DEF Distinct
  <2>2. x[1] = y[1]
    <3>. DEFINE i == Slot(seqs, x)
    <3>1. Of(e, x[1], i) /\ Of(e, y[1], i) /\ x[1] \in Track /\ y[1] \in Track
      BY <1>2, <2>1
    <3>. HIDE DEF i
    <3>2. PICK z \in Slots(eff[e].buf[x[1]]) : i = Slot(eff[e].buf[x[1]], z)
      BY <3>1 DEF Of
    <3>. DEFINE p == <<e, x[1], z>>
    <3>3. p \in Places(State) /\ InPlace(State, p) = i /\ p[2] = x[1]
      BY <3>1, <3>2 DEF Places, InPlace, State, Slots
    <3>. HIDE DEF p
    <3>. QED  BY <3>1, <3>3, OfPlace
  <2>3. x[2] = y[2]
    <3>1. /\ x[2] \in DOMAIN seqs[x[1]] /\ y[2] \in DOMAIN seqs[x[1]]
          /\ seqs[x[1]][x[2]] = seqs[x[1]][y[2]] /\ x[1] \in Track
      BY <1>2, <2>1, <2>2 DEF Slot
    <3>2. Once(seqs[x[1]])  BY <3>1 DEF Listed
    <3>. QED  BY <3>1, <3>2 DEF Once
  <2>. QED  BY <1>2, <2>2, <2>3
<1>. DEFINE f == FlattenSeq(seqs)
<1>4. From(seqs, Len(seqs), f)  BY <1>1, Flattened
<1>. HIDE DEF f
<1>5. /\ f \in Seq(Nat) /\ Once(f)
      /\ \A j \in DOMAIN f : \E x \in Slots(seqs) : f[j] = Slot(seqs, x)
  BY <1>3, <1>4 DEF From
<1>6. Collects(e, f)  BY <1>2, <1>5 DEF Collects
<1>. QED  BY <1>6 DEF f

LEMMA CollectedIs ==
  ASSUME Good(State, {}), NEW e \in DOMAIN eff
  PROVE  Collected(e).ev \in Renewals(ev) /\ Collects(e, Collected(e).queue)
<1>. DEFINE seqs == Sequences(e)
            paired == AllPaired(seqs)
            sorted == [k \in Track |-> Ordered(paired, seqs[k])]
            flat == FlattenSeq(sorted)
<1>1. ev \in Seq(EventRec) /\ Mutual(ev, {})  BY TypedIs DEF Good, State
<1>2. ev \in Renewals(ev)  BY <1>1 DEF Renewals, Renewed, Stay
<1>3. ASSUME NEW k \in Track  PROVE Listed(e, k, seqs[k])
  <2>1. seqs[k] = Ordered(ev, FlattenSeq(eff[e].buf[k]))  BY DEF Sequences
  <2>2. Listed(e, k, FlattenSeq(eff[e].buf[k]))  BY FlatListed
  <2>. HIDE DEF seqs
  <2>. QED  BY <1>2, <2>1, <2>2, OrderedListed
<1>. HIDE DEF seqs
<1>4. paired \in Renewals(ev)
  <2>1. \A k \in Track : seqs[k] \in Seq(Nat) /\ AllBuffered(ev, seqs[k])
    BY <1>3, OfPlace DEF Listed, AllBuffered
  <2>. QED  BY <1>1, <2>1, AllPairedRenews
<1>. HIDE DEF paired
<1>5. \A k \in Track : Listed(e, k, sorted[k])  BY <1>3, <1>4, OrderedListed
<1>6. sorted = [k \in Track |-> sorted[k]]  OBVIOUS
<1>. HIDE DEF sorted
<1>7. Collects(e, flat)  BY <1>5, <1>6, TracksListed
<1>. HIDE DEF flat
<1>8. Collects(e, Ordered(paired, flat))
  <2>1. paired \in Seq(EventRec) /\ DOMAIN paired = DOMAIN ev  BY <1>4 DEF Renewals, Renewed
  <2>2. flat \in Seq(Nat) /\ \A j \in DOMAIN flat : flat[j] \in DOMAIN paired
    BY <1>7, <2>1, OfPlace DEF Collects
  <2>. DEFINE r == Ordered(paired, flat)
  <2>3. /\ r \in Seq(Nat) /\ DOMAIN r = DOMAIN flat
        /\ \A j \in DOMAIN r : \E n \in DOMAIN flat : r[j] = flat[n]
        /\ Once(flat) => Once(r)
    BY <2>1, <2>2, OrderedOnce
  <2>. HIDE DEF r
  <2>4. Collects(e, r)  BY <1>7, <2>3 DEF Collects
  <2>. QED  BY <2>4 DEF r
<1>9. /\ Collected(e).ev = paired
      /\ Collected(e).queue \in {Ordered(paired, flat), flat}
  BY DEF Collected, seqs, paired, sorted, flat
<1>. QED  BY <1>4, <1>7, <1>8, <1>9

(* Detaching: the buffers become the queue.                                *)
LEMMA Detached ==
  ASSUME Good(State, {}), NEW e \in DOMAIN eff
  PROVE  LET c == Collected(e)
             evs == [i \in DOMAIN ev |-> IF i \in ToSet(c.queue)
                                         THEN [c.ev[i] EXCEPT !.at = "queue"] ELSE c.ev[i]]
             r == [ev |-> evs, thd |-> thd,
                   eff |-> [eff EXCEPT ![e].buf = [k \in Track |-> <<>>]]]
         IN Good(r, {}) /\ SameTree(State, r) /\ c.queue \in Seq(Nat) /\ Queued(evs, c.queue)
<1>. DEFINE c == Collected(e)
            q == c.queue
            cev == c.ev
            b == [k \in Track |-> <<>>]
            f == [eff[e] EXCEPT !.buf = b]
            evs == [i \in DOMAIN ev |-> IF i \in ToSet(q)
                                        THEN [cev[i] EXCEPT !.at = "queue"] ELSE cev[i]]
            r == [ev |-> evs, thd |-> thd, eff |-> [eff EXCEPT ![e] = f]]
<1>1. cev \in Renewals(ev) /\ Collects(e, q)  BY CollectedIs
<1>. HIDE DEF q, cev
<1>2. /\ cev \in Seq(EventRec) /\ DOMAIN cev = DOMAIN ev /\ Mutual(cev, {})
      /\ \A i \in DOMAIN ev : cev[i].at = ev[i].at
  BY <1>1 DEF Renewals, Renewed, Stay
<1>3. /\ q \in Seq(Nat) /\ Once(q)
      /\ \A j \in DOMAIN q : q[j] \in DOMAIN ev /\ ev[q[j]].at = "buffer"
  BY <1>1, OfPlace DEF Collects
<1>4. \A i \in ToSet(q) : i \in DOMAIN ev /\ ev[i].at = "buffer"
  BY <1>3 DEF ToSet
<1>5. ASSUME NEW i \in DOMAIN ev
      PROVE  /\ evs[i] \in EventRec /\ evs[i].partner = cev[i].partner
             /\ evs[i].at = IF i \in ToSet(q) THEN "queue" ELSE ev[i].at
  <2>1. cev[i] \in EventRec  BY <1>2, LenProperties, ElementOfSeq
  <2>2. CASE i \in ToSet(q)
    <3>1. evs[i] = [cev[i] EXCEPT !.at = "queue"]  BY <2>2
    <3>2. "queue" \in Where  BY DEF Where
    <3>. HIDE DEF evs
    <3>. QED  BY <2>1, <2>2, <3>1, <3>2 DEF EventRec
  <2>3. CASE i \notin ToSet(q)  BY <1>2, <2>1, <2>3
  <2>. QED  BY <2>2, <2>3
<1>6. evs \in Seq(EventRec) /\ DOMAIN evs = DOMAIN ev
  <2>1. PICK m \in Nat : DOMAIN ev = 1..m  BY TypedIs DEF Good, State
  <2>2. DOMAIN evs = DOMAIN ev /\ evs = [i \in DOMAIN ev |-> evs[i]]  OBVIOUS
  <2>. HIDE DEF evs
  <2>3. evs \in [1..m -> EventRec]  BY <1>5, <2>1, <2>2
  <2>. QED  BY <2>2, <2>3
<1>. HIDE DEF evs
<1>7. Mutual(evs, {})
  <2>1. SUFFICES ASSUME NEW j \in DOMAIN evs, evs[j].partner # 0
                 PROVE  /\ evs[j].partner \in DOMAIN evs /\ evs[j].partner # j
                        /\ evs[evs[j].partner].partner = j
                        /\ evs[j].at \in {"buffer", "queue"}
    BY DEF Mutual
  <2>2. j \in DOMAIN cev /\ cev[j].partner = evs[j].partner  BY <1>2, <1>5, <1>6
  <2>3. /\ cev[j].partner \in DOMAIN cev /\ cev[j].partner # j
        /\ cev[cev[j].partner].partner = j /\ cev[j].at \in {"buffer", "queue"}
    BY <1>2, <2>1, <2>2 DEF Mutual
  <2>. QED  BY <1>2, <1>5, <1>6, <2>2, <2>3
<1>8. Queued(evs, q)
  <2>1. \A j \in DOMAIN q : q[j] \in ToSet(q)  BY DEF ToSet
  <2>. QED  BY <1>3, <1>5, <1>6, <2>1 DEF Queued, Once
<1>9. eff[e] \in EffRec /\ Typed(State) /\ State.eff = eff /\ State.thd = thd /\ State.ev = ev
  BY TypedIs DEF Good, State
<1>10. /\ f \in EffRec /\ f.thd = eff[e].thd /\ f.live = eff[e].live
       /\ f.class = eff[e].class /\ f.buf = b
  <2>1. b \in [Track -> Seq(Seq(Nat))]  OBVIOUS
  <2>. HIDE DEF b
  <2>. QED  BY <1>9, <2>1 DEF EffRec
<1>11. \A k \in Track : Slots(f.buf[k]) = {}  BY <1>10 DEF Slots
<1>12. [eff EXCEPT ![e].buf = b] = [eff EXCEPT ![e] = f]  BY <1>9
<1>. HIDE DEF f
<1>13. /\ Typed(r) /\ SameTree(State, r) /\ r.eff[e] = f
       /\ \A d \in DOMAIN eff \ {e} : r.eff[d] = eff[d]
  BY <1>6, <1>9, <1>10, OneChanged
<1>14. r.ev = evs /\ DOMAIN r.eff = DOMAIN eff  OBVIOUS
<1>. HIDE DEF r
<1>15. ASSUME NEW p \in Places(r)
       PROVE  p \in Places(State) /\ InPlace(r, p) = InPlace(State, p) /\ p[1] # e
  <2>1. /\ p \in (DOMAIN eff) \X Track \X (Nat \X Nat)
        /\ p[1] \in DOMAIN eff /\ p[2] \in Track /\ p[3] \in Slots(r.eff[p[1]].buf[p[2]])
    BY <1>14 DEF Places
  <2>2. p[1] # e  BY <1>11, <1>13, <2>1
  <2>3. r.eff[p[1]] = State.eff[p[1]]  BY <1>9, <1>13, <2>1, <2>2
  <2>. QED  BY <1>9, <2>1, <2>2, <2>3 DEF Places, InPlace
<1>16. ASSUME NEW p \in Places(r)
       PROVE  InPlace(r, p) \in DOMAIN r.ev /\ r.ev[InPlace(r, p)].at = "buffer"
  <2>. DEFINE i == InPlace(State, p)
  <2>1. i \in DOMAIN ev /\ ev[i].at = "buffer"  BY <1>9, <1>15 DEF Good, Buffered
  <2>2. i \notin ToSet(q)
    <3>1. SUFFICES ASSUME i \in ToSet(q)  PROVE FALSE  OBVIOUS
    <3>2. PICK j \in DOMAIN q : q[j] = i  BY <3>1 DEF ToSet
    <3>3. PICK k \in Track : Of(e, k, i)  BY <1>1, <3>2 DEF Collects
    <3>. HIDE DEF i
    <3>4. p[1] = e  BY <1>15, <3>3, OfPlace DEF i
    <3>. QED  BY <1>15, <3>4
  <2>. HIDE DEF i
  <2>3. evs[i].at = "buffer"  BY <1>5, <2>1, <2>2
  <2>. QED  BY <1>6, <1>14, <1>15, <2>1, <2>3 DEF i
<1>17. Buffered(r)
  BY <1>15, <1>16 DEF Good, Buffered
<1>18. Good(r, {})  BY <1>7, <1>13, <1>14, <1>17 DEF Good
<1>. QED  BY <1>3, <1>8, <1>12, <1>13, <1>18 DEF r, evs, q, cev, f
-----------------------------------------------------------------------------
(* The tree of threads.  What does not depend on who is alive stays.       *)
SameShape(s, r) ==
  /\ DOMAIN r.thd = DOMAIN s.thd /\ DOMAIN r.eff = DOMAIN s.eff
  /\ \A h \in DOMAIN s.thd :
       r.thd[h].kind = s.thd[h].kind /\ r.thd[h].parent = s.thd[h].parent
  /\ \A e \in DOMAIN s.eff : r.eff[e].thd = s.eff[e].thd

LEMMA ShapeOwners ==
  ASSUME NEW s, Typed(s), NEW r, SameShape(s, r)
  PROVE  \A e \in DOMAIN s.eff : s.eff[e].thd \in DOMAIN s.thd /\ OwnerOf(r, e) = OwnerOf(s, e)
BY DEF SameShape, OwnerOf, Typed

LEMMA ShapeTree ==
  ASSUME NEW s, Typed(s), Tree(s), NEW r, SameShape(s, r),
         \A h \in DOMAIN s.thd \ {1} : r.thd[h].live => r.thd[s.thd[h].parent].live
  PROVE  Tree(r)
<1>1. \A h \in DOMAIN s.thd \ {1} : s.thd[h].parent \in DOMAIN s.thd
  BY DEF Tree
<1>2. \A e \in DOMAIN s.eff : s.eff[e].thd \in DOMAIN s.thd
  BY DEF Typed
<1> QED BY <1>1, <1>2 DEF Tree, SameShape

LEMMA TreeFacts ==
  ASSUME NEW s, Typed(s), Tree(s)
  PROVE  /\ \A e \in DOMAIN s.eff :
              /\ s.eff[e].thd \in DOMAIN s.thd \ {1} /\ s.thd[s.eff[e].thd].kind = "effector"
              /\ OwnerOf(s, e) \in DOMAIN s.thd /\ OwnerOf(s, e) < s.eff[e].thd
         /\ \A h \in LiveOf(s) \ {1} : s.thd[h].parent \in LiveOf(s)
         /\ \A e \in DOMAIN s.eff : s.eff[e].thd \in LiveOf(s) => OwnerOf(s, e) \in LiveOf(s)
         /\ LiveOf(s) \subseteq DOMAIN s.thd /\ DOMAIN s.thd \subseteq Nat \ {0}
<1>1. \A e \in DOMAIN s.eff : s.eff[e].thd \in DOMAIN s.thd
  BY DEF Typed
<1>2. DOMAIN s.thd \subseteq Nat \ {0}
  BY TypedIs, SMT
<1>3. \A h \in LiveOf(s) \ {1} : s.thd[h].parent \in LiveOf(s)
  BY DEF LiveOf, Tree
<1>4. \A e \in DOMAIN s.eff :
        s.eff[e].thd \in DOMAIN s.thd \ {1} /\ s.thd[s.eff[e].thd].kind = "effector"
  BY <1>1 DEF Tree
<1>5. \A e \in DOMAIN s.eff : OwnerOf(s, e) \in DOMAIN s.thd /\ OwnerOf(s, e) < s.eff[e].thd
  BY <1>4 DEF Tree, OwnerOf
<1> QED BY <1>2, <1>3, <1>4, <1>5 DEF OwnerOf, LiveOf

(* What a step that leaves the tree as it is does to the invariant.        *)
SameCalls(cs, ds) ==
  /\ cs \in Seq(CallRec) /\ ds \in Seq(CallRec) /\ Len(ds) = Len(cs)
  /\ \A n \in DOMAIN cs : /\ ds[n].op = cs[n].op /\ ds[n].of = cs[n].of
                          /\ cs[n].op = "delete" => ds[n].queue = cs[n].queue

LEMMA SameSets ==
  ASSUME NEW s, Typed(s), NEW r, SameTree(s, r)
  PROVE  /\ SameShape(s, r) /\ LiveOf(r) = LiveOf(s) /\ LiveOf(s) \subseteq DOMAIN s.thd
         /\ \A h \in DOMAIN s.thd : /\ EffsOf(r, h) = EffsOf(s, h)
                                    /\ ChildrenOf(r, h) = ChildrenOf(s, h)
         /\ \A e \in DOMAIN s.eff : s.eff[e].thd \in DOMAIN s.thd /\ OwnerOf(r, e) = OwnerOf(s, e)
<1>1. SameShape(s, r)
  BY DEF SameShape, SameTree
<1>2. LiveOf(r) = LiveOf(s) /\ LiveOf(s) \subseteq DOMAIN s.thd
  BY DEF LiveOf, SameTree
<1>3. \A h \in DOMAIN s.thd : EffsOf(r, h) = EffsOf(s, h)
  BY DEF EffsOf, SameTree
<1>4. \A h : ChildrenOf(r, h) = ChildrenOf(s, h)
  BY <1>1, <1>2 DEF ChildrenOf, SameShape
<1> QED BY <1>1, <1>2, <1>3, <1>4, ShapeOwners

LEMMA SameThreads ==
  ASSUME NEW s, Typed(s), NEW r, SameTree(s, r), Tree(s), Lists(s)
  PROVE  Tree(r) /\ Lists(r)
<1>1. /\ SameShape(s, r) /\ LiveOf(r) = LiveOf(s) /\ LiveOf(s) \subseteq DOMAIN s.thd
      /\ \A h \in DOMAIN s.thd : EffsOf(r, h) = EffsOf(s, h)
      /\ \A e \in DOMAIN s.eff : s.eff[e].thd \in DOMAIN s.thd /\ OwnerOf(r, e) = OwnerOf(s, e)
  BY SameSets
<1>2. Tree(r)
  <2>1. \A h \in DOMAIN s.thd \ {1} : r.thd[h].live => r.thd[s.thd[h].parent].live
    BY DEF SameTree, Tree
  <2> QED BY <1>1, <2>1, ShapeTree
<1>3. \A h \in LiveOf(s) \ {1} : s.thd[h].parent \in DOMAIN s.thd
  BY <1>1 DEF Tree
<1>4. \A h \in DOMAIN s.thd : EffsOf(s, h) \subseteq DOMAIN s.eff
  BY DEF Typed
<1>5. Lists(r)
  <2>1. \A h \in DOMAIN r.thd : \A j, k \in DOMAIN r.thd[h].effs :
          j < k => r.thd[h].effs[j] > r.thd[h].effs[k]
    BY DEF Lists, SameTree
  <2>2. ASSUME NEW h \in LiveOf(s), NEW e \in EffsOf(s, h)
        PROVE  /\ r.eff[e].live
               /\ OwnerOf(r, e) = h \/ (h # 1 /\ e \in EffsOf(r, r.thd[h].parent))
               /\ OwnerOf(r, e) = h => \A d \in EffsOf(s, h) : OwnerOf(r, d) # h => d < e
    <3>1. e \in DOMAIN s.eff /\ h \in DOMAIN s.thd
      BY <1>1, <1>4
    <3>2. r.eff[e].live
      BY <3>1 DEF Lists, SameTree
    <3>3. OwnerOf(r, e) = h \/ (h # 1 /\ e \in EffsOf(r, r.thd[h].parent))
      BY <1>1, <1>3, <3>1 DEF Lists, SameShape
    <3>4. OwnerOf(r, e) = h => \A d \in EffsOf(s, h) : OwnerOf(r, d) # h => d < e
      BY <1>1, <1>4, <3>1 DEF Lists
    <3> QED BY <3>2, <3>3, <3>4
  <2>3. \A e \in DOMAIN r.eff : \A d \in EffsOf(r, r.eff[e].thd) :
          OwnerOf(r, d) # r.eff[e].thd => d < e
    <3>1. \A e \in DOMAIN s.eff : /\ r.eff[e].thd = s.eff[e].thd
                                  /\ EffsOf(r, r.eff[e].thd) = EffsOf(s, s.eff[e].thd)
      BY <1>1 DEF SameTree
    <3>2. \A e \in DOMAIN s.eff : \A d \in EffsOf(s, s.eff[e].thd) : OwnerOf(r, d) = OwnerOf(s, d)
      BY <1>1, <1>4
    <3> QED BY <1>1, <3>1, <3>2 DEF Lists, SameShape
  <2>4. \A e \in DOMAIN r.eff : r.eff[e].live => r.eff[e].thd \in LiveOf(r)
    BY <1>1 DEF Lists, SameTree
  <2>5. \A h \in LiveOf(r) : EffsOf(r, h) = EffsOf(s, h)
    BY <1>1
  <2> QED BY <1>1, <2>1, <2>2, <2>3, <2>4, <2>5 DEF Lists
<1> QED BY <1>2, <1>5

LEMMA SameCallInv ==
  ASSUME NEW s, Typed(s), NEW r, SameTree(s, r), Tree(s), NEW cs, CallInv(s, cs),
         NEW ds, SameCalls(cs, ds)
  PROVE  CallInv(r, ds)
<1>1. /\ SameShape(s, r) /\ LiveOf(r) = LiveOf(s) /\ LiveOf(s) \subseteq DOMAIN s.thd
      /\ \A h \in DOMAIN s.thd : EffsOf(r, h) = EffsOf(s, h) /\ ChildrenOf(r, h) = ChildrenOf(s, h)
      /\ \A e \in DOMAIN s.eff : s.eff[e].thd \in DOMAIN s.thd /\ OwnerOf(r, e) = OwnerOf(s, e)
  BY SameSets
<1>2. /\ DOMAIN ds = DOMAIN cs /\ Len(ds) = Len(cs) /\ (ds = <<>> <=> cs = <<>>)
      /\ Len(cs) \in Nat /\ DOMAIN cs = 1..Len(cs)
  BY DEF SameCalls
<1>3. \A n \in DOMAIN cs : cs[n].op = "delete" => cs[n].of \in DOMAIN s.thd
  BY <1>1 DEF CallInv, Chained
<1>4. \A n \in DOMAIN cs : cs[n].op = "detach" => n = 1 /\ cs[n].of \in DOMAIN s.eff
  BY DEF CallInv, Chained
<1>5. Chained(r, ds)
  <2>1. \A n \in DOMAIN ds :
          \/ ds[n].op = "delete" /\ ds[n].queue = <<>> /\ ds[n].of \in LiveOf(r)
          \/ n = 1 /\ ds[n].op = "detach" /\ ds[n].of \in DOMAIN r.eff /\ r.eff[ds[n].of].live
    BY <1>1, <1>2 DEF CallInv, Chained, SameCalls, SameTree
  <2>2. ASSUME NEW n \in DOMAIN ds \ {Len(ds)}
        PROVE  LET h == IF ds[n].op = "delete" THEN ds[n].of ELSE r.eff[ds[n].of].thd
               IN h \in LiveOf(r) /\ r.thd[h].kind = "effector" /\ r.thd[h].parent = ds[n + 1].of
    <3> DEFINE h == IF cs[n].op = "delete" THEN cs[n].of ELSE s.eff[cs[n].of].thd
    <3>1. h \in LiveOf(s) /\ s.thd[h].kind = "effector" /\ s.thd[h].parent = cs[n + 1].of
      BY <1>2 DEF CallInv, Chained
    <3>2. h = IF ds[n].op = "delete" THEN ds[n].of ELSE r.eff[ds[n].of].thd
      <4>1. CASE cs[n].op = "delete"
        BY <4>1, <1>2 DEF SameCalls
      <4>2. CASE cs[n].op # "delete"
        <5>1. cs[n].of \in DOMAIN s.eff
          BY <4>2, <1>2 DEF CallInv, Chained
        <5> QED BY <4>2, <5>1, <1>2 DEF SameCalls, SameTree
      <4> QED BY <4>1, <4>2
    <3>3. ds[n + 1].of = cs[n + 1].of
      BY <1>2 DEF SameCalls
    <3> HIDE DEF h
    <3> QED BY <3>1, <3>2, <3>3, <1>1 DEF SameTree
  <2>3. ds # <<>> => ds[Len(ds)].op = "delete" /\ r.thd[ds[Len(ds)].of].kind = "thread"
    <3> SUFFICES ASSUME ds # <<>>
                 PROVE  ds[Len(ds)].op = "delete" /\ r.thd[ds[Len(ds)].of].kind = "thread"
      OBVIOUS
    <3>1. Len(cs) \in DOMAIN cs
      BY <1>2 DEF SameCalls
    <3>2. cs[Len(cs)].op = "delete" /\ s.thd[cs[Len(cs)].of].kind = "thread"
      BY <1>2 DEF CallInv, Chained
    <3> QED BY <3>1, <3>2, <1>2, <1>3 DEF SameCalls, SameTree
  <2>4. \A m, n \in DOMAIN ds : m < n /\ ds[m].op = "delete" => ds[n].of < ds[m].of
    BY <1>2 DEF CallInv, Chained, SameCalls
  <2>5. \A n \in DOMAIN ds : ds[n].op = "delete" =>
          \A e \in DOMAIN r.eff : r.eff[e].thd = ds[n].of => ~r.eff[e].live
    BY <1>2 DEF CallInv, Chained, SameCalls, SameTree
  <2> QED BY <2>1, <2>2, <2>3, <2>4, <2>5 DEF Chained
<1>6. \A e, g : Detaches(cs, e, g) => Detaches(ds, e, g)
  BY <1>2 DEF Detaches, SameCalls
<1>7. Attached(r, ds)
  <2>1. \A e \in DOMAIN s.eff : s.eff[e].thd \in LiveOf(s) => OwnerOf(s, e) \in DOMAIN s.thd
    BY <1>1, TreeFacts
  <2> QED BY <1>1, <1>6, <2>1 DEF CallInv, Attached, SameTree
<1>8. Detaching(r, ds)
  <2>1. \A n \in DOMAIN ds \ {1} : r.thd[ds[n].of].nchild <= 0 /\ ChildrenOf(r, ds[n].of) = {}
    <3> SUFFICES ASSUME NEW n \in DOMAIN cs \ {1}
                 PROVE  r.thd[cs[n].of].nchild <= 0 /\ ChildrenOf(r, cs[n].of) = {}
      BY <1>2 DEF SameCalls
    <3>1. cs[n].of \in DOMAIN s.thd
      BY <1>3 DEF CallInv, Chained
    <3> QED BY <3>1, <1>1 DEF CallInv, Detaching, SameTree
  <2>2. \A n \in DOMAIN ds :
          ds[n].op = "detach" => \A h \in LiveOf(r) : ds[n].of \notin EffsOf(r, h)
    BY <1>1, <1>2 DEF CallInv, Detaching, SameCalls
  <2> QED BY <2>1, <2>2 DEF Detaching
<1>9. Counted(r, ds)
  <2>1. \A h \in LiveOf(s) :
          r.thd[h].nchild = s.thd[h].nchild /\ ChildrenOf(r, h) = ChildrenOf(s, h)
    BY <1>1 DEF SameTree
  <2>2. \A h : (\E n \in DOMAIN cs : cs[n].op = "delete" /\ cs[n].of = h)
                 => \E n \in DOMAIN ds : ds[n].op = "delete" /\ ds[n].of = h
    BY <1>2 DEF SameCalls
  <2> QED BY <1>1, <2>1, <2>2 DEF CallInv, Counted
<1> QED BY <1>5, <1>7, <1>8, <1>9 DEF CallInv

(* A thread attaches an effector: the newest of all, in its list and in no *)
(* other.                                                                  *)
AttachesTo(s, h, r) ==
  /\ Typed(s) /\ Typed(r) /\ Attaches(s, h, r) /\ h \in LiveOf(s) /\ Tree(s) /\ Lists(s)

LEMMA Pushed ==
  ASSUME NEW S, NEW q \in Seq(S), NEW e \in S
  PROVE  ToSet(<<e>> \o q) = ToSet(q) \cup {e}
<1> DEFINE w == <<e>> \o q
<1>1. /\ Len(q) \in Nat /\ DOMAIN q = 1..Len(q) /\ DOMAIN w = 1..(Len(q) + 1)
      /\ w[1] = e /\ \A j \in DOMAIN q : w[j + 1] = q[j]
  BY Before
<1> HIDE DEF w
<1>2. \A j \in DOMAIN w : j = 1 \/ (j - 1 \in DOMAIN q /\ w[j] = q[j - 1])
  BY <1>1
<1>3. \A j \in DOMAIN q : j + 1 \in DOMAIN w /\ w[j + 1] = q[j]
  BY <1>1
<1>4. 1 \in DOMAIN w /\ w[1] = e
  BY <1>1
<1>5. ToSet(w) \subseteq ToSet(q) \cup {e}
  BY <1>2, <1>4 DEF ToSet
<1>6. ToSet(q) \cup {e} \subseteq ToSet(w)
  BY <1>3, <1>4 DEF ToSet
<1> QED BY <1>5, <1>6 DEF w

LEMMA AttachSets ==
  ASSUME NEW s, NEW r, NEW h, AttachesTo(s, h, r),
         NEW g, g = Len(s.thd) + 1, NEW e, e = Len(s.eff) + 1
  PROVE  /\ g \notin DOMAIN s.thd /\ e \notin DOMAIN s.eff
         /\ h \in DOMAIN s.thd /\ g \in Nat /\ e \in Nat
         /\ g # h /\ (\A f \in DOMAIN s.thd : f < g) /\ (\A d \in DOMAIN s.eff : d < e)
         /\ LiveOf(r) = LiveOf(s) \cup {g} /\ LiveOf(s) \subseteq DOMAIN s.thd
         /\ \A f \in DOMAIN s.thd \ {h} : EffsOf(r, f) = EffsOf(s, f)
         /\ EffsOf(r, h) = EffsOf(s, h) \cup {e} /\ EffsOf(r, g) = EffsOf(s, h)
         /\ \A d \in DOMAIN s.eff : s.eff[d].thd \in DOMAIN s.thd /\ OwnerOf(r, d) = OwnerOf(s, d)
         /\ OwnerOf(r, e) = h
         /\ \A f \in DOMAIN s.thd : EffsOf(s, f) \subseteq DOMAIN s.eff
<1>0. /\ Typed(s) /\ Typed(r) /\ Attaches(s, h, r) /\ h \in LiveOf(s) /\ Tree(s) /\ Lists(s)
  BY DEF AttachesTo
<1>1. /\ DOMAIN s.thd = 1..Len(s.thd) /\ Len(s.thd) \in Nat
      /\ DOMAIN s.eff = 1..Len(s.eff) /\ Len(s.eff) \in Nat
      /\ \A f \in DOMAIN s.thd : s.thd[f] \in ThreadRec
  BY <1>0, TypedIs
<1>2. h \in DOMAIN s.thd /\ LiveOf(s) \subseteq DOMAIN s.thd
  BY <1>0 DEF LiveOf
<1>3. /\ g \notin DOMAIN s.thd /\ e \notin DOMAIN s.eff /\ g \in Nat /\ e \in Nat
      /\ g # h /\ (\A f \in DOMAIN s.thd : f < g) /\ (\A d \in DOMAIN s.eff : d < e)
  BY <1>1, <1>2
<1>4. LiveOf(r) = LiveOf(s) \cup {g}
  BY <1>0, <1>3 DEF Attaches, LiveOf
<1>5. \A f \in DOMAIN s.thd \ {h} : EffsOf(r, f) = EffsOf(s, f)
  BY <1>0 DEF Attaches, EffsOf
<1>6. EffsOf(r, g) = EffsOf(s, h)
  BY <1>0 DEF Attaches, EffsOf
<1>7. EffsOf(r, h) = EffsOf(s, h) \cup {e}
  <2>1. s.thd[h].effs \in Seq(Nat)
    BY <1>1, <1>2 DEF ThreadRec
  <2>2. r.thd[h].effs = <<e>> \o s.thd[h].effs
    BY <1>0 DEF Attaches
  <2> QED BY <2>1, <2>2, <1>3, Pushed DEF EffsOf
<1>8. \A d \in DOMAIN s.eff : s.eff[d].thd \in DOMAIN s.thd /\ OwnerOf(r, d) = OwnerOf(s, d)
  BY <1>0 DEF Typed, Attaches, OwnerOf
<1>9. OwnerOf(r, e) = h
  BY <1>0 DEF Attaches, OwnerOf
<1>10. \A f \in DOMAIN s.thd : EffsOf(s, f) \subseteq DOMAIN s.eff
  BY <1>0 DEF Typed
<1> QED BY <1>2, <1>3, <1>4, <1>5, <1>6, <1>7, <1>8, <1>9, <1>10

LEMMA AttachTree ==
  ASSUME NEW s, NEW r, NEW h, AttachesTo(s, h, r)
  PROVE  Tree(r)
<1> DEFINE g == Len(s.thd) + 1  e == Len(s.eff) + 1
<1>0. /\ Typed(s) /\ Attaches(s, h, r) /\ h \in LiveOf(s) /\ Tree(s) /\ Lists(s)
  BY DEF AttachesTo
<1>1. /\ g \notin DOMAIN s.thd /\ e \notin DOMAIN s.eff /\ h \in DOMAIN s.thd /\ g \in Nat
      /\ \A f \in DOMAIN s.thd : f < g
      /\ \A d \in DOMAIN s.eff : s.eff[d].thd \in DOMAIN s.thd
  BY AttachSets
<1>2. /\ DOMAIN r.thd = DOMAIN s.thd \cup {g} /\ DOMAIN r.eff = DOMAIN s.eff \cup {e}
      /\ \A f \in DOMAIN s.thd :
          /\ r.thd[f].kind = s.thd[f].kind /\ r.thd[f].live = s.thd[f].live
          /\ r.thd[f].parent = s.thd[f].parent
      /\ r.thd[g].kind = "effector" /\ r.thd[g].parent = h
      /\ \A d \in DOMAIN s.eff : r.eff[d].thd = s.eff[d].thd
      /\ r.eff[e].thd = g /\ s.thd[h].live
  BY <1>0 DEF Attaches, LiveOf
<1> HIDE DEF g, e
<1>3. 1 \in DOMAIN r.thd /\ r.thd[1].parent = 0 /\ r.thd[1].kind = "thread" /\ g # 1
  BY <1>0, <1>1, <1>2 DEF Tree
<1>4. \A f \in DOMAIN s.thd \ {1} :
       /\ r.thd[f].parent \in DOMAIN s.thd /\ r.thd[f].parent < f
       /\ r.thd[f].live => r.thd[r.thd[f].parent].live
       /\ r.thd[f].kind = "thread" => r.thd[r.thd[f].parent].kind = "thread"
  BY <1>0, <1>2 DEF Tree
<1>5. h < g /\ r.thd[h].live
  BY <1>1, <1>2
<1>6. \A f \in DOMAIN r.thd \ {1} :
       /\ r.thd[f].parent \in DOMAIN r.thd /\ r.thd[f].parent < f
       /\ r.thd[f].live => r.thd[r.thd[f].parent].live
       /\ r.thd[f].kind = "thread" => r.thd[r.thd[f].parent].kind = "thread"
  <2> TAKE f \in DOMAIN r.thd \ {1}
  <2>1. CASE f = g
    BY <2>1, <1>1, <1>2, <1>5
  <2>2. CASE f \in DOMAIN s.thd
    BY <2>2, <1>2, <1>4
  <2> QED BY <2>1, <2>2, <1>2
<1>7. \A d \in DOMAIN r.eff : r.eff[d].thd # 1 /\ r.thd[r.eff[d].thd].kind = "effector"
  BY <1>0, <1>1, <1>2, <1>3 DEF Tree
<1>8. \A c, d \in DOMAIN r.eff : r.eff[c].thd = r.eff[d].thd => c = d
  BY <1>0, <1>1, <1>2 DEF Tree
<1>9. \A f \in DOMAIN r.thd : r.thd[f].kind = "effector" => \E d \in DOMAIN r.eff : r.eff[d].thd = f
  BY <1>0, <1>1, <1>2 DEF Tree
<1> QED BY <1>3, <1>6, <1>7, <1>8, <1>9 DEF Tree

LEMMA AttachLists ==
  ASSUME NEW s, NEW r, NEW h, AttachesTo(s, h, r)
  PROVE  Lists(r)
<1> DEFINE g == Len(s.thd) + 1  e == Len(s.eff) + 1
<1>0. /\ Typed(s) /\ Attaches(s, h, r) /\ h \in LiveOf(s) /\ Tree(s) /\ Lists(s)
  BY DEF AttachesTo
<1>1. /\ g \notin DOMAIN s.thd /\ e \notin DOMAIN s.eff
      /\ h \in DOMAIN s.thd /\ g \in Nat /\ e \in Nat
      /\ g # h /\ (\A f \in DOMAIN s.thd : f < g) /\ (\A d \in DOMAIN s.eff : d < e)
      /\ LiveOf(r) = LiveOf(s) \cup {g} /\ LiveOf(s) \subseteq DOMAIN s.thd
      /\ \A f \in DOMAIN s.thd \ {h} : EffsOf(r, f) = EffsOf(s, f)
      /\ EffsOf(r, h) = EffsOf(s, h) \cup {e} /\ EffsOf(r, g) = EffsOf(s, h)
      /\ \A d \in DOMAIN s.eff : s.eff[d].thd \in DOMAIN s.thd /\ OwnerOf(r, d) = OwnerOf(s, d)
      /\ OwnerOf(r, e) = h
      /\ \A f \in DOMAIN s.thd : EffsOf(s, f) \subseteq DOMAIN s.eff
  BY AttachSets
<1>2. /\ DOMAIN r.thd = DOMAIN s.thd \cup {g} /\ DOMAIN r.eff = DOMAIN s.eff \cup {e}
      /\ \A f \in DOMAIN s.thd : r.thd[f].parent = s.thd[f].parent
      /\ \A f \in DOMAIN s.thd \ {h} : r.thd[f].effs = s.thd[f].effs
      /\ r.thd[h].effs = <<e>> \o s.thd[h].effs
      /\ r.thd[g].parent = h /\ r.thd[g].effs = s.thd[h].effs
      /\ \A d \in DOMAIN s.eff : r.eff[d].thd = s.eff[d].thd /\ r.eff[d].live = s.eff[d].live
      /\ r.eff[e].thd = g /\ r.eff[e].live = TRUE
  BY <1>0 DEF Attaches
<1>3. s.thd[h].effs \in Seq(Nat)
  BY <1>0, <1>1, TypedIs DEF ThreadRec
<1> DEFINE q == s.thd[h].effs  w == r.thd[h].effs
<1>4. /\ Len(q) \in Nat /\ DOMAIN q = 1..Len(q) /\ DOMAIN w = 1..(Len(q) + 1)
      /\ w[1] = e /\ \A j \in DOMAIN q : w[j + 1] = q[j]
  BY <1>1, <1>2, <1>3, Before
<1>5. 1 \in DOMAIN s.thd /\ g # 1
  BY <1>0, <1>1 DEF Tree
<1> HIDE DEF g, e
<1>6. \A j, k \in DOMAIN w : j < k => w[j] > w[k]
  <2>1. \A j \in DOMAIN q : q[j] \in DOMAIN s.eff
    BY <1>1 DEF EffsOf, ToSet
  <2>2. \A j, k \in DOMAIN q : j < k => q[j] > q[k]
    BY <1>0, <1>1 DEF Lists
  <2>3. DOMAIN s.eff \subseteq Nat
    BY <1>0, TypedIs
  <2> HIDE DEF q, w
  <2> SUFFICES ASSUME NEW j \in DOMAIN w, NEW k \in DOMAIN w, j < k
               PROVE  w[j] > w[k]
    OBVIOUS
  <2>4. k - 1 \in DOMAIN q /\ w[k] = q[k - 1]
    BY <1>4
  <2>5. CASE j = 1
    BY <2>1, <2>3, <2>4, <2>5, <1>1, <1>4
  <2>6. CASE j # 1
    <3>1. j - 1 \in DOMAIN q /\ w[j] = q[j - 1]
      BY <2>6, <1>4
    <3> QED BY <3>1, <2>2, <2>4, <1>4
  <2> QED BY <2>5, <2>6
<1>7. \A f \in DOMAIN r.thd : \A j, k \in DOMAIN r.thd[f].effs :
        j < k => r.thd[f].effs[j] > r.thd[f].effs[k]
  <2> TAKE f \in DOMAIN r.thd
  <2>1. CASE f = h
    BY <2>1, <1>6
  <2>2. CASE f = g
    BY <2>2, <1>0, <1>1, <1>2 DEF Lists
  <2>3. CASE f \in DOMAIN s.thd \ {h}
    BY <2>3, <1>0, <1>2 DEF Lists
  <2> QED BY <2>1, <2>2, <2>3, <1>2
<1>8. ASSUME NEW f \in LiveOf(r), NEW x \in EffsOf(r, f)
      PROVE  /\ r.eff[x].live
             /\ OwnerOf(r, x) = f \/ (f # 1 /\ x \in EffsOf(r, r.thd[f].parent))
             /\ OwnerOf(r, x) = f => \A d \in EffsOf(r, f) : OwnerOf(r, d) # f => d < x
  <2>1. \A y \in LiveOf(s) : \A z \in EffsOf(s, y) :
          /\ s.eff[z].live
          /\ OwnerOf(s, z) = y \/ (y # 1 /\ z \in EffsOf(s, s.thd[y].parent))
          /\ OwnerOf(s, z) = y => \A d \in EffsOf(s, y) : OwnerOf(s, d) # y => d < z
    BY <1>0 DEF Lists
  <2>2. \A y \in DOMAIN s.thd : EffsOf(s, y) \subseteq EffsOf(r, y)
    BY <1>1
  <2>3. \A y \in LiveOf(s) \ {1} : s.thd[y].parent \in DOMAIN s.thd
    BY <1>0, <1>1 DEF Tree
  <2>4. \A y \in DOMAIN s.thd : \A z \in EffsOf(s, y) :
          z \in DOMAIN s.eff /\ OwnerOf(r, z) = OwnerOf(s, z) /\ r.eff[z].live = s.eff[z].live
    BY <1>1, <1>2
  <2>5. CASE f \in LiveOf(s) \ {h}
    <3>1. EffsOf(r, f) = EffsOf(s, f) /\ f \in DOMAIN s.thd
      BY <2>5, <1>1
    <3>2. r.eff[x].live
      BY <2>5, <3>1, <2>1, <2>4
    <3>3. OwnerOf(r, x) = f \/ (f # 1 /\ x \in EffsOf(r, r.thd[f].parent))
      BY <2>5, <3>1, <2>1, <2>2, <2>3, <2>4, <1>2
    <3>4. OwnerOf(r, x) = f => \A d \in EffsOf(r, f) : OwnerOf(r, d) # f => d < x
      BY <2>5, <3>1, <2>1, <2>4
    <3> QED BY <3>2, <3>3, <3>4
  <2>6. CASE f = h /\ x # e
    <3>1. x \in EffsOf(s, h)
      BY <2>6, <1>1
    <3>2. r.eff[x].live
      BY <3>1, <2>1, <2>4, <1>0, <1>1
    <3>3. OwnerOf(r, x) = f \/ (f # 1 /\ x \in EffsOf(r, r.thd[f].parent))
      BY <2>6, <3>1, <2>1, <2>2, <2>3, <2>4, <1>0, <1>1, <1>2
    <3>4. OwnerOf(r, x) = f => \A d \in EffsOf(r, f) : OwnerOf(r, d) # f => d < x
      BY <2>6, <3>1, <2>1, <2>4, <1>0, <1>1
    <3> QED BY <3>2, <3>3, <3>4
  <2>7. CASE f = h /\ x = e
    <3>1. \A d \in EffsOf(r, f) : OwnerOf(r, d) # f => d < x
      BY <2>7, <1>1, <2>4
    <3> QED BY <2>7, <3>1, <1>1, <1>2
  <2>8. CASE f = g
    <3>1. x \in EffsOf(s, h) /\ x \in EffsOf(r, h)
      BY <2>8, <1>1
    <3>2. r.eff[x].live
      BY <3>1, <2>1, <2>4, <1>0, <1>1
    <3>3. OwnerOf(r, x) # g
      BY <3>1, <2>4, <1>0, <1>1, TreeFacts
    <3> QED BY <2>8, <3>1, <3>2, <3>3, <1>2, <1>5
  <2> QED BY <2>5, <2>6, <2>7, <2>8, <1>1
<1>9. \A x \in DOMAIN r.eff : \A d \in EffsOf(r, r.eff[x].thd) :
        OwnerOf(r, d) # r.eff[x].thd => d < x
  <2> SUFFICES ASSUME NEW x \in DOMAIN r.eff, NEW d \in EffsOf(r, r.eff[x].thd),
                      OwnerOf(r, d) # r.eff[x].thd
               PROVE  d < x
    OBVIOUS
  <2>1. CASE x = e
    BY <2>1, <1>1, <1>2
  <2>2. CASE x \in DOMAIN s.eff
    <3>1. r.eff[x].thd = s.eff[x].thd /\ s.eff[x].thd \in DOMAIN s.thd
      BY <2>2, <1>1, <1>2
    <3>2. d # e \/ s.eff[x].thd # h
      BY <3>1, <1>1
    <3>3. d \in EffsOf(s, s.eff[x].thd)
      BY <3>1, <3>2, <1>1
    <3>4. OwnerOf(s, d) # s.eff[x].thd
      BY <3>1, <3>3, <1>1
    <3> QED BY <3>3, <3>4, <2>2, <1>0 DEF Lists
  <2> QED BY <2>1, <2>2, <1>2
<1>10. \A x \in DOMAIN r.eff : r.eff[x].live => r.eff[x].thd \in LiveOf(r)
  BY <1>0, <1>1, <1>2 DEF Lists
<1> QED BY <1>7, <1>8, <1>9, <1>10 DEF Lists

LEMMA AttachCalls ==
  ASSUME NEW s, NEW r, NEW h, AttachesTo(s, h, r), NEW cs, cs \in Seq(CallRec), CallInv(s, cs)
  PROVE  CallInv(r, cs)
<1> DEFINE g == Len(s.thd) + 1  e == Len(s.eff) + 1
<1>0. /\ Typed(s) /\ Attaches(s, h, r) /\ h \in LiveOf(s) /\ Tree(s) /\ Lists(s)
      /\ Chained(s, cs) /\ Attached(s, cs) /\ Detaching(s, cs) /\ Counted(s, cs)
  BY DEF AttachesTo, CallInv
<1>1. /\ g \notin DOMAIN s.thd /\ e \notin DOMAIN s.eff
      /\ h \in DOMAIN s.thd /\ g \in Nat /\ e \in Nat
      /\ g # h /\ (\A f \in DOMAIN s.thd : f < g) /\ (\A d \in DOMAIN s.eff : d < e)
      /\ LiveOf(r) = LiveOf(s) \cup {g} /\ LiveOf(s) \subseteq DOMAIN s.thd
      /\ \A f \in DOMAIN s.thd \ {h} : EffsOf(r, f) = EffsOf(s, f)
      /\ EffsOf(r, h) = EffsOf(s, h) \cup {e} /\ EffsOf(r, g) = EffsOf(s, h)
      /\ \A d \in DOMAIN s.eff : s.eff[d].thd \in DOMAIN s.thd /\ OwnerOf(r, d) = OwnerOf(s, d)
      /\ OwnerOf(r, e) = h
      /\ \A f \in DOMAIN s.thd : EffsOf(s, f) \subseteq DOMAIN s.eff
  BY AttachSets
<1>2. /\ DOMAIN r.thd = DOMAIN s.thd \cup {g} /\ DOMAIN r.eff = DOMAIN s.eff \cup {e}
      /\ \A f \in DOMAIN s.thd :
          /\ r.thd[f].kind = s.thd[f].kind /\ r.thd[f].live = s.thd[f].live
          /\ r.thd[f].parent = s.thd[f].parent /\ r.thd[f].nchild = s.thd[f].nchild
      /\ r.thd[g].kind = "effector" /\ r.thd[g].nchild = 0 /\ r.thd[g].parent = h
      /\ \A d \in DOMAIN s.eff : r.eff[d].thd = s.eff[d].thd /\ r.eff[d].live = s.eff[d].live
      /\ r.eff[e].thd = g
  BY <1>0 DEF Attaches
<1>3. Len(cs) \in Nat /\ DOMAIN cs = 1..Len(cs) /\ \A n \in DOMAIN cs : cs[n] \in CallRec
  OBVIOUS
<1> HIDE DEF g, e
<1>4. \A n \in DOMAIN cs :
        \/ cs[n].op = "delete" /\ cs[n].queue = <<>> /\ cs[n].of \in LiveOf(s)
        \/ n = 1 /\ cs[n].op = "detach" /\ cs[n].of \in DOMAIN s.eff /\ s.eff[cs[n].of].live
  BY <1>0 DEF Chained
<1>5. \A f : ChildrenOf(r, f) = ChildrenOf(s, f)
  BY <1>1, <1>2 DEF ChildrenOf
<1>6. Chained(r, cs)
  <2>1. \A n \in DOMAIN cs :
          \/ cs[n].op = "delete" /\ cs[n].queue = <<>> /\ cs[n].of \in LiveOf(r)
          \/ n = 1 /\ cs[n].op = "detach" /\ cs[n].of \in DOMAIN r.eff /\ r.eff[cs[n].of].live
    BY <1>1, <1>2, <1>4
  <2>2. ASSUME NEW n \in DOMAIN cs \ {Len(cs)}
        PROVE  LET f == IF cs[n].op = "delete" THEN cs[n].of ELSE r.eff[cs[n].of].thd
               IN f \in LiveOf(r) /\ r.thd[f].kind = "effector" /\ r.thd[f].parent = cs[n + 1].of
    <3> DEFINE f == IF cs[n].op = "delete" THEN cs[n].of ELSE s.eff[cs[n].of].thd
    <3>1. f \in LiveOf(s) /\ s.thd[f].kind = "effector" /\ s.thd[f].parent = cs[n + 1].of
      BY <1>0 DEF Chained
    <3>2. f = IF cs[n].op = "delete" THEN cs[n].of ELSE r.eff[cs[n].of].thd
      BY <1>2, <1>4
    <3> HIDE DEF f
    <3> QED BY <3>1, <3>2, <1>1, <1>2
  <2>3. cs # <<>> => cs[Len(cs)].op = "delete" /\ r.thd[cs[Len(cs)].of].kind = "thread"
    <3> SUFFICES ASSUME cs # <<>>
                 PROVE  cs[Len(cs)].op = "delete" /\ r.thd[cs[Len(cs)].of].kind = "thread"
      OBVIOUS
    <3>1. Len(cs) \in DOMAIN cs
      BY <1>3
    <3>2. cs[Len(cs)].op = "delete" /\ s.thd[cs[Len(cs)].of].kind = "thread"
      BY <1>0 DEF Chained
    <3> QED BY <3>1, <3>2, <1>1, <1>2, <1>4
  <2>4. \A n \in DOMAIN cs : cs[n].op = "delete" =>
          \A d \in DOMAIN r.eff : r.eff[d].thd = cs[n].of => ~r.eff[d].live
    <3>1. \A n \in DOMAIN cs : cs[n].op = "delete" => cs[n].of # g
      BY <1>1, <1>4
    <3> QED BY <3>1, <1>0, <1>2 DEF Chained
  <2>5. \A m, n \in DOMAIN cs : m < n /\ cs[m].op = "delete" => cs[n].of < cs[m].of
    BY <1>0 DEF Chained
  <2> QED BY <2>1, <2>2, <2>3, <2>4, <2>5 DEF Chained
<1>7. Attached(r, cs)
  <2> SUFFICES ASSUME NEW d \in DOMAIN r.eff, r.eff[d].thd \in LiveOf(r)
               PROVE  d \in EffsOf(r, OwnerOf(r, d)) \/ Detaches(cs, d, r.eff[d].thd)
    BY DEF Attached
  <2>1. CASE d = e
    BY <2>1, <1>1
  <2>2. CASE d \in DOMAIN s.eff
    <3>1. s.eff[d].thd \in LiveOf(s) /\ r.eff[d].thd = s.eff[d].thd
      BY <2>2, <1>1, <1>2
    <3>2. OwnerOf(s, d) \in DOMAIN s.thd
      BY <2>2, <1>0, TreeFacts
    <3>3. d \in EffsOf(s, OwnerOf(s, d)) \/ Detaches(cs, d, s.eff[d].thd)
      BY <2>2, <3>1, <1>0 DEF Attached
    <3> QED BY <2>2, <3>1, <3>2, <3>3, <1>1
  <2> QED BY <2>1, <2>2, <1>2
<1>8. Detaching(r, cs)
  <2>1. \A n \in DOMAIN cs \ {1} : r.thd[cs[n].of].nchild <= 0 /\ ChildrenOf(r, cs[n].of) = {}
    <3> SUFFICES ASSUME NEW n \in DOMAIN cs \ {1}
                 PROVE  r.thd[cs[n].of].nchild <= 0 /\ ChildrenOf(r, cs[n].of) = {}
      OBVIOUS
    <3>1. cs[n].of \in DOMAIN s.thd
      BY <1>1, <1>4
    <3> QED BY <3>1, <1>0, <1>2, <1>5 DEF Detaching
  <2>2. \A n \in DOMAIN cs :
          cs[n].op = "detach" => \A f \in LiveOf(r) : cs[n].of \notin EffsOf(r, f)
    <3>1. \A n \in DOMAIN cs : cs[n].op = "detach" => cs[n].of # e
      BY <1>1, <1>4
    <3> QED BY <3>1, <1>0, <1>1 DEF Detaching
  <2> QED BY <2>1, <2>2 DEF Detaching
<1>9. Counted(r, cs)
  <2> SUFFICES ASSUME NEW f \in LiveOf(r)
               PROVE  \/ r.thd[f].nchild = Cardinality(ChildrenOf(r, f))
                      \/ /\ r.thd[f].nchild <= 0 /\ ChildrenOf(r, f) = {}
                         /\ \E n \in DOMAIN cs : cs[n].op = "delete" /\ cs[n].of = f
    BY DEF Counted
  <2>1. CASE f = g
    <3>1. ChildrenOf(s, g) = {}
      BY <1>0, <1>1, TreeFacts DEF ChildrenOf, Tree, LiveOf
    <3> QED BY <2>1, <3>1, <1>2, <1>5, FS_EmptySet
  <2>2. CASE f \in LiveOf(s)
    BY <2>2, <1>0, <1>1, <1>2, <1>5 DEF Counted
  <2> QED BY <2>1, <2>2, <1>1
<1> QED BY <1>6, <1>7, <1>8, <1>9 DEF CallInv

(* create_thread.                                                          *)
Creates(s, p, r) ==
  LET g == Len(s.thd) + 1
  IN /\ DOMAIN r.thd = DOMAIN s.thd \cup {g} /\ r.eff = s.eff
     /\ \A f \in DOMAIN s.thd :
          /\ r.thd[f].kind = s.thd[f].kind /\ r.thd[f].live = s.thd[f].live
          /\ r.thd[f].parent = s.thd[f].parent /\ r.thd[f].effs = s.thd[f].effs
     /\ \A f \in DOMAIN s.thd \ {p} : r.thd[f].nchild = s.thd[f].nchild
     /\ r.thd[p].nchild = s.thd[p].nchild + 1
     /\ r.thd[g].kind = "thread" /\ r.thd[g].live = TRUE /\ r.thd[g].parent = p
     /\ r.thd[g].nchild = 0 /\ r.thd[g].effs = s.thd[p].effs

CreatesFor(s, p, r) ==
  /\ Typed(s) /\ Creates(s, p, r) /\ p \in LiveOf(s) /\ s.thd[p].kind = "thread"
  /\ Tree(s) /\ Lists(s) /\ CallInv(s, <<>>)

LEMMA CreateSets ==
  ASSUME NEW s, NEW p, NEW r, CreatesFor(s, p, r), NEW g, g = Len(s.thd) + 1
  PROVE  /\ g \notin DOMAIN s.thd /\ p \in DOMAIN s.thd /\ g \in Nat /\ g # p /\ g # 1
         /\ \A f \in DOMAIN s.thd : f < g
         /\ LiveOf(r) = LiveOf(s) \cup {g} /\ LiveOf(s) \subseteq DOMAIN s.thd
         /\ \A f \in DOMAIN s.thd :
              EffsOf(r, f) = EffsOf(s, f) /\ EffsOf(s, f) \subseteq DOMAIN s.eff
         /\ EffsOf(r, g) = EffsOf(s, p)
         /\ \A e \in DOMAIN s.eff : s.eff[e].thd \in DOMAIN s.thd /\ OwnerOf(r, e) = OwnerOf(s, e)
<1>0. Typed(s) /\ Creates(s, p, r) /\ p \in LiveOf(s) /\ Tree(s)
  BY DEF CreatesFor
<1>1. DOMAIN s.thd = 1..Len(s.thd) /\ Len(s.thd) \in Nat
  BY <1>0, TypedIs
<1>2. p \in DOMAIN s.thd /\ LiveOf(s) \subseteq DOMAIN s.thd
  BY <1>0 DEF LiveOf
<1>3. g \notin DOMAIN s.thd /\ g \in Nat /\ g # p /\ \A f \in DOMAIN s.thd : f < g
  BY <1>1, <1>2
<1>4. g # 1
  BY <1>0, <1>3 DEF Tree
<1>5. LiveOf(r) = LiveOf(s) \cup {g}
  BY <1>0, <1>3 DEF Creates, LiveOf
<1>6. \A f \in DOMAIN s.thd : EffsOf(r, f) = EffsOf(s, f) /\ EffsOf(s, f) \subseteq DOMAIN s.eff
  BY <1>0 DEF Creates, EffsOf, Typed
<1>7. EffsOf(r, g) = EffsOf(s, p)
  BY <1>0 DEF Creates, EffsOf
<1>8. \A e \in DOMAIN s.eff : s.eff[e].thd \in DOMAIN s.thd /\ OwnerOf(r, e) = OwnerOf(s, e)
  BY <1>0 DEF Typed, Creates, OwnerOf
<1> QED BY <1>2, <1>3, <1>4, <1>5, <1>6, <1>7, <1>8

LEMMA CreateTree ==
  ASSUME NEW s, NEW p, NEW r, CreatesFor(s, p, r)
  PROVE  Tree(r)
<1> DEFINE g == Len(s.thd) + 1
<1>0. Typed(s) /\ Creates(s, p, r) /\ p \in LiveOf(s) /\ s.thd[p].kind = "thread" /\ Tree(s)
  BY DEF CreatesFor
<1>1. /\ g \notin DOMAIN s.thd /\ p \in DOMAIN s.thd /\ g \in Nat /\ g # 1
      /\ \A f \in DOMAIN s.thd : f < g
      /\ \A e \in DOMAIN s.eff : s.eff[e].thd \in DOMAIN s.thd
  BY CreateSets
<1>2. /\ DOMAIN r.thd = DOMAIN s.thd \cup {g} /\ r.eff = s.eff
      /\ \A f \in DOMAIN s.thd :
          /\ r.thd[f].kind = s.thd[f].kind /\ r.thd[f].live = s.thd[f].live
          /\ r.thd[f].parent = s.thd[f].parent
      /\ r.thd[g].kind = "thread" /\ r.thd[g].parent = p /\ s.thd[p].live
  BY <1>0 DEF Creates, LiveOf
<1> HIDE DEF g
<1>3. 1 \in DOMAIN r.thd /\ r.thd[1].parent = 0 /\ r.thd[1].kind = "thread"
  BY <1>0, <1>1, <1>2 DEF Tree
<1>4. \A f \in DOMAIN s.thd \ {1} :
       /\ r.thd[f].parent \in DOMAIN s.thd /\ r.thd[f].parent < f
       /\ r.thd[f].live => r.thd[r.thd[f].parent].live
       /\ r.thd[f].kind = "thread" => r.thd[r.thd[f].parent].kind = "thread"
  BY <1>0, <1>2 DEF Tree
<1>5. p < g /\ r.thd[p].live /\ r.thd[p].kind = "thread"
  BY <1>0, <1>1, <1>2
<1>6. \A f \in DOMAIN r.thd \ {1} :
       /\ r.thd[f].parent \in DOMAIN r.thd /\ r.thd[f].parent < f
       /\ r.thd[f].live => r.thd[r.thd[f].parent].live
       /\ r.thd[f].kind = "thread" => r.thd[r.thd[f].parent].kind = "thread"
  <2> TAKE f \in DOMAIN r.thd \ {1}
  <2>1. CASE f = g
    BY <2>1, <1>1, <1>2, <1>5
  <2>2. CASE f \in DOMAIN s.thd
    BY <2>2, <1>2, <1>4
  <2> QED BY <2>1, <2>2, <1>2
<1>7. \A d \in DOMAIN r.eff : r.eff[d].thd # 1 /\ r.thd[r.eff[d].thd].kind = "effector"
  BY <1>0, <1>1, <1>2 DEF Tree
<1>8. \A c, d \in DOMAIN r.eff : r.eff[c].thd = r.eff[d].thd => c = d
  BY <1>0, <1>2 DEF Tree
<1>9. \A f \in DOMAIN r.thd : r.thd[f].kind = "effector" => \E d \in DOMAIN r.eff : r.eff[d].thd = f
  BY <1>0, <1>2 DEF Tree
<1> QED BY <1>3, <1>6, <1>7, <1>8, <1>9 DEF Tree

LEMMA CreateLists ==
  ASSUME NEW s, NEW p, NEW r, CreatesFor(s, p, r)
  PROVE  Lists(r)
<1> DEFINE g == Len(s.thd) + 1
<1>0. Typed(s) /\ Creates(s, p, r) /\ p \in LiveOf(s) /\ Tree(s) /\ Lists(s)
  BY DEF CreatesFor
<1>1. /\ g \notin DOMAIN s.thd /\ p \in DOMAIN s.thd /\ g \in Nat /\ g # p /\ g # 1
      /\ \A f \in DOMAIN s.thd : f < g
      /\ LiveOf(r) = LiveOf(s) \cup {g} /\ LiveOf(s) \subseteq DOMAIN s.thd
      /\ \A f \in DOMAIN s.thd : EffsOf(r, f) = EffsOf(s, f) /\ EffsOf(s, f) \subseteq DOMAIN s.eff
      /\ EffsOf(r, g) = EffsOf(s, p)
      /\ \A e \in DOMAIN s.eff : s.eff[e].thd \in DOMAIN s.thd /\ OwnerOf(r, e) = OwnerOf(s, e)
  BY CreateSets
<1>2. /\ DOMAIN r.thd = DOMAIN s.thd \cup {g} /\ r.eff = s.eff
      /\ \A f \in DOMAIN s.thd : r.thd[f].parent = s.thd[f].parent /\ r.thd[f].effs = s.thd[f].effs
      /\ r.thd[g].parent = p /\ r.thd[g].effs = s.thd[p].effs
  BY <1>0 DEF Creates
<1> HIDE DEF g
<1>3. \A f \in DOMAIN r.thd : \A j, k \in DOMAIN r.thd[f].effs :
        j < k => r.thd[f].effs[j] > r.thd[f].effs[k]
  <2>1. \A f \in DOMAIN s.thd : \A j, k \in DOMAIN s.thd[f].effs :
          j < k => s.thd[f].effs[j] > s.thd[f].effs[k]
    BY <1>0 DEF Lists
  <2> TAKE f \in DOMAIN r.thd
  <2>2. \E x \in DOMAIN s.thd : r.thd[f].effs = s.thd[x].effs
    BY <1>1, <1>2
  <2> QED BY <2>1, <2>2
<1>4. ASSUME NEW f \in LiveOf(r), NEW x \in EffsOf(r, f)
      PROVE  /\ r.eff[x].live
             /\ OwnerOf(r, x) = f \/ (f # 1 /\ x \in EffsOf(r, r.thd[f].parent))
             /\ OwnerOf(r, x) = f => \A d \in EffsOf(r, f) : OwnerOf(r, d) # f => d < x
  <2>1. CASE f \in LiveOf(s)
    <3>1. f \in DOMAIN s.thd /\ x \in EffsOf(s, f) /\ (f # 1 => s.thd[f].parent \in DOMAIN s.thd)
      BY <2>1, <1>0, <1>1 DEF Tree
    <3>2. \A d \in EffsOf(s, f) : OwnerOf(r, d) = OwnerOf(s, d)
      BY <3>1, <1>1
    <3>3. r.eff[x].live
      BY <2>1, <3>1, <1>0, <1>2 DEF Lists
    <3>4. OwnerOf(s, x) = f \/ (f # 1 /\ x \in EffsOf(s, s.thd[f].parent))
      BY <2>1, <3>1, <1>0 DEF Lists
    <3>5. OwnerOf(r, x) = f \/ (f # 1 /\ x \in EffsOf(r, r.thd[f].parent))
      BY <3>1, <3>2, <3>4, <1>1, <1>2
    <3>6. OwnerOf(s, x) = f => \A d \in EffsOf(s, f) : OwnerOf(s, d) # f => d < x
      BY <2>1, <3>1, <1>0 DEF Lists
    <3>7. OwnerOf(r, x) = f => \A d \in EffsOf(r, f) : OwnerOf(r, d) # f => d < x
      BY <3>1, <3>2, <3>6, <1>1
    <3> QED BY <3>3, <3>5, <3>7
  <2>2. CASE f = g
    <3>1. x \in EffsOf(s, p) /\ x \in DOMAIN s.eff
      BY <2>2, <1>1
    <3>2. OwnerOf(s, x) \in DOMAIN s.thd
      BY <3>1, <1>0, TreeFacts
    <3>3. s.eff[x].live
      BY <3>1, <1>0 DEF Lists
    <3>4. r.eff[x].live
      BY <3>3, <1>2
    <3>5. OwnerOf(r, x) # f
      BY <2>2, <3>1, <3>2, <1>1
    <3>6. f # 1 /\ r.thd[f].parent = p /\ EffsOf(r, p) = EffsOf(s, p)
      BY <2>2, <1>1, <1>2
    <3> QED BY <3>1, <3>4, <3>5, <3>6
  <2> QED BY <2>1, <2>2, <1>1
<1>5. \A x \in DOMAIN r.eff : \A d \in EffsOf(r, r.eff[x].thd) :
        OwnerOf(r, d) # r.eff[x].thd => d < x
  <2>1. \A x \in DOMAIN s.eff : \A d \in EffsOf(s, s.eff[x].thd) : OwnerOf(r, d) = OwnerOf(s, d)
    BY <1>1
  <2> QED BY <2>1, <1>0, <1>1, <1>2 DEF Lists
<1>6. \A x \in DOMAIN r.eff : r.eff[x].live => r.eff[x].thd \in LiveOf(r)
  BY <1>0, <1>1, <1>2 DEF Lists
<1> QED BY <1>3, <1>4, <1>5, <1>6 DEF Lists

LEMMA CreateCalls ==
  ASSUME NEW s, NEW p, NEW r, CreatesFor(s, p, r)
  PROVE  CallInv(r, <<>>)
<1> DEFINE g == Len(s.thd) + 1
<1>0. /\ Typed(s) /\ Creates(s, p, r) /\ p \in LiveOf(s) /\ Tree(s)
      /\ Attached(s, <<>>) /\ Counted(s, <<>>)
  BY DEF CreatesFor, CallInv
<1>1. /\ g \notin DOMAIN s.thd /\ p \in DOMAIN s.thd /\ g \in Nat /\ g # p /\ g # 1
      /\ \A f \in DOMAIN s.thd : f < g
      /\ LiveOf(r) = LiveOf(s) \cup {g} /\ LiveOf(s) \subseteq DOMAIN s.thd
      /\ \A f \in DOMAIN s.thd : EffsOf(r, f) = EffsOf(s, f) /\ EffsOf(s, f) \subseteq DOMAIN s.eff
      /\ \A e \in DOMAIN s.eff : s.eff[e].thd \in DOMAIN s.thd /\ OwnerOf(r, e) = OwnerOf(s, e)
  BY CreateSets
<1>2. /\ DOMAIN r.thd = DOMAIN s.thd \cup {g} /\ r.eff = s.eff
      /\ \A f \in DOMAIN s.thd : r.thd[f].kind = s.thd[f].kind /\ r.thd[f].parent = s.thd[f].parent
      /\ \A f \in DOMAIN s.thd \ {p} : r.thd[f].nchild = s.thd[f].nchild
      /\ r.thd[p].nchild = s.thd[p].nchild + 1
      /\ r.thd[g].kind = "thread" /\ r.thd[g].parent = p /\ r.thd[g].nchild = 0
  BY <1>0 DEF Creates
<1>3. DOMAIN s.thd \subseteq Nat /\ DOMAIN s.thd = 1..Len(s.thd) /\ Len(s.thd) \in Nat
  BY <1>0, TypedIs
<1> HIDE DEF g
<1>4. Chained(r, <<>>) /\ Detaching(r, <<>>)
  BY DEF Chained, Detaching
<1>5. \A e, f : ~Detaches(<<>>, e, f)
  BY DEF Detaches
<1>6. Attached(r, <<>>)
  <2> SUFFICES ASSUME NEW e \in DOMAIN s.eff, r.eff[e].thd \in LiveOf(r)
               PROVE  e \in EffsOf(r, OwnerOf(r, e))
    BY <1>2 DEF Attached
  <2>1. s.eff[e].thd \in LiveOf(s) /\ OwnerOf(s, e) \in DOMAIN s.thd
    BY <1>0, <1>1, <1>2, TreeFacts
  <2> QED BY <2>1, <1>0, <1>1, <1>5 DEF Attached
<1>7. \A f \in LiveOf(s) : s.thd[f].nchild = Cardinality(ChildrenOf(s, f))
  BY <1>0 DEF Counted
<1>8. IsFiniteSet(ChildrenOf(s, p))
  <2>1. ChildrenOf(s, p) \subseteq 1..Len(s.thd)
    BY <1>1, <1>3 DEF ChildrenOf
  <2>2. 1 \in Int /\ Len(s.thd) \in Int
    BY <1>3
  <2>3. IsFiniteSet(1..Len(s.thd))
    BY <2>2, FS_Interval
  <2> QED BY <2>1, <2>3, FS_Subset
<1>9. ChildrenOf(r, p) = ChildrenOf(s, p) \cup {g} /\ g \notin ChildrenOf(s, p)
  BY <1>1, <1>2 DEF ChildrenOf
<1>10. \A f \in DOMAIN s.thd \ {p} : ChildrenOf(r, f) = ChildrenOf(s, f)
  BY <1>1, <1>2 DEF ChildrenOf
<1>11. ChildrenOf(r, g) = {}
  <2>1. \A f \in LiveOf(r) : r.thd[f].parent # g
    <3> TAKE f \in LiveOf(r)
    <3>1. CASE f = g
      BY <3>1, <1>1, <1>2
    <3>2. CASE f \in LiveOf(s) /\ f # 1
      BY <3>2, <1>0, <1>1, <1>2 DEF Tree
    <3>3. CASE f \in LiveOf(s) /\ f = 1
      BY <3>3, <1>0, <1>1, <1>2, <1>3 DEF Tree
    <3> QED BY <3>1, <3>2, <3>3, <1>1
  <2> QED BY <2>1 DEF ChildrenOf
<1>12. Counted(r, <<>>)
  <2> SUFFICES ASSUME NEW f \in LiveOf(r)
               PROVE  r.thd[f].nchild = Cardinality(ChildrenOf(r, f))
    BY DEF Counted
  <2>1. CASE f = g
    BY <2>1, <1>2, <1>11, FS_EmptySet
  <2>2. CASE f = p
    <3>1. Cardinality(ChildrenOf(s, p) \cup {g}) = Cardinality(ChildrenOf(s, p)) + 1
      BY <1>8, <1>9, FS_AddElement
    <3> QED BY <2>2, <3>1, <1>0, <1>2, <1>7, <1>9
  <2>3. CASE f \in LiveOf(s) \ {p}
    BY <2>3, <1>1, <1>2, <1>7, <1>10
  <2> QED BY <2>1, <2>2, <2>3, <1>1
<1> QED BY <1>4, <1>6, <1>12 DEF CallInv

-----------------------------------------------------------------------------
(* A thread that is deleted and has no threads below it.                   *)
DeletesNow(s, h, cs) ==
  /\ Typed(s) /\ Tree(s) /\ Lists(s) /\ CallInv(s, cs)
  /\ cs \in Seq(CallRec) /\ cs # <<>> /\ cs[1].op = "delete" /\ cs[1].of = h
  /\ ~(s.thd[h].nchild > 0)

LEMMA DeletesSets ==
  ASSUME NEW s, NEW h, NEW cs, DeletesNow(s, h, cs)
  PROVE  /\ h \in LiveOf(s) /\ h \in DOMAIN s.thd /\ LiveOf(s) \subseteq DOMAIN s.thd
         /\ DOMAIN s.thd \subseteq Nat
         /\ Len(cs) \in Nat \ {0} /\ DOMAIN cs = 1..Len(cs) /\ 1 \in DOMAIN cs
         /\ s.thd[h].nchild \in Int /\ s.thd[h].nchild <= 0 /\ ChildrenOf(s, h) = {}
         /\ \A n \in DOMAIN cs : cs[n].op = "delete" /\ cs[n].queue = <<>> /\ cs[n].of \in LiveOf(s)
         /\ \A n \in DOMAIN cs \ {1} : cs[n].of < h
<1>0. /\ Typed(s) /\ Chained(s, cs) /\ Counted(s, cs) /\ cs \in Seq(CallRec) /\ cs # <<>>
      /\ cs[1].op = "delete" /\ cs[1].of = h /\ ~(s.thd[h].nchild > 0)
  BY DEF DeletesNow, CallInv
<1>1. /\ DOMAIN s.thd = 1..Len(s.thd) /\ Len(s.thd) \in Nat
      /\ \A f \in DOMAIN s.thd : s.thd[f] \in ThreadRec
  BY <1>0, TypedIs
<1>2. Len(cs) \in Nat \ {0} /\ DOMAIN cs = 1..Len(cs) /\ 1 \in DOMAIN cs
  BY <1>0
<1>3. \A n \in DOMAIN cs : cs[n].op = "delete" /\ cs[n].queue = <<>> /\ cs[n].of \in LiveOf(s)
  BY <1>0, <1>2 DEF Chained
<1>4. h \in LiveOf(s) /\ h \in DOMAIN s.thd /\ LiveOf(s) \subseteq DOMAIN s.thd
  BY <1>0, <1>2, <1>3 DEF LiveOf
<1>5. \A n \in DOMAIN cs \ {1} : cs[n].of < h
  BY <1>0, <1>2 DEF Chained
<1>6. s.thd[h].nchild \in Int /\ s.thd[h].nchild <= 0
  BY <1>0, <1>1, <1>4 DEF ThreadRec
<1>7. IsFiniteSet(ChildrenOf(s, h))
  <2>1. ChildrenOf(s, h) \subseteq 1..Len(s.thd)
    BY <1>1, <1>4 DEF ChildrenOf
  <2>2. 1 \in Int /\ Len(s.thd) \in Int
    BY <1>1
  <2>3. IsFiniteSet(1..Len(s.thd))
    BY <2>2, FS_Interval
  <2> QED BY <2>1, <2>3, FS_Subset
<1>8. ChildrenOf(s, h) = {}
  <2>1. CASE s.thd[h].nchild = Cardinality(ChildrenOf(s, h))
    <3>1. Cardinality(ChildrenOf(s, h)) \in Nat
      BY <1>7, FS_CardinalityType
    <3>2. Cardinality(ChildrenOf(s, h)) = 0
      BY <3>1, <2>1, <1>6
    <3> QED BY <3>2, <1>7, FS_EmptySet
  <2> QED BY <2>1, <1>0, <1>4 DEF Counted
<1> QED BY <1>1, <1>2, <1>3, <1>4, <1>5, <1>6, <1>8

(* Only effector threads are below it, of the effectors in its list: those *)
(* that it attached itself.                                                *)
LEMMA OnlyListed ==
  ASSUME NEW s, NEW h, NEW cs, DeletesNow(s, h, cs),
         NEW g \in LiveOf(s), g # 1, s.thd[g].parent = h
  PROVE  \E d \in EffsOf(s, h) : s.eff[d].thd = g /\ OwnerOf(s, d) = h
<1>0. /\ Typed(s) /\ Tree(s) /\ Chained(s, cs) /\ Attached(s, cs)
      /\ cs[1].op = "delete" /\ cs[1].of = h
  BY DEF DeletesNow, CallInv
<1>1. /\ h \in LiveOf(s) /\ h \in DOMAIN s.thd /\ LiveOf(s) \subseteq DOMAIN s.thd
      /\ DOMAIN s.thd \subseteq Nat /\ DOMAIN cs = 1..Len(cs) /\ 1 \in DOMAIN cs
      /\ ChildrenOf(s, h) = {}
      /\ \A n \in DOMAIN cs : cs[n].op = "delete"
      /\ \A n \in DOMAIN cs \ {1} : cs[n].of < h
  BY DeletesSets
<1>2. g \in DOMAIN s.thd \ {1} /\ h < g
  BY <1>0, <1>1 DEF Tree
<1>3. s.thd[g].kind # "thread"
  BY <1>1 DEF ChildrenOf
<1>4. s.thd[g].kind = "effector"
  <2>1. s.thd[g] \in ThreadRec
    BY <1>0, <1>2, TypedIs
  <2> QED BY <2>1, <1>3 DEF ThreadRec
<1>5. PICK d \in DOMAIN s.eff : s.eff[d].thd = g
  BY <1>0, <1>2, <1>4 DEF Tree
<1>6. OwnerOf(s, d) = h
  BY <1>5 DEF OwnerOf
<1>7. ~Detaches(cs, d, g)
  <2> SUFFICES ASSUME NEW n \in DOMAIN cs, cs[n].of = g
               PROVE  FALSE
    BY <1>1 DEF Detaches
  <2>1. CASE n = 1
    BY <2>1, <1>0, <1>1, <1>2
  <2>2. CASE n # 1
    BY <2>2, <1>1, <1>2
  <2> QED BY <2>1, <2>2
<1>8. d \in EffsOf(s, h)
  BY <1>0, <1>5, <1>6, <1>7 DEF Attached
<1> QED BY <1>5, <1>6, <1>8

(* detach_all_effectors.                                                   *)
Unlists(s, h, r) ==
  /\ DOMAIN r.thd = DOMAIN s.thd /\ r.eff = s.eff
  /\ \A f \in DOMAIN s.thd :
       /\ r.thd[f].kind = s.thd[f].kind /\ r.thd[f].live = s.thd[f].live
       /\ r.thd[f].parent = s.thd[f].parent /\ r.thd[f].nchild = s.thd[f].nchild
  /\ \A f \in DOMAIN s.thd \ {h} : r.thd[f].effs = s.thd[f].effs
  /\ r.thd[h].effs = Tail(s.thd[h].effs)

UnlistsFor(s, h, r, cs) ==
  /\ DeletesNow(s, h, cs) /\ Unlists(s, h, r)
  /\ s.thd[h].effs # <<>> /\ OwnerOf(s, s.thd[h].effs[1]) = h

LEMMA UnlistsSets ==
  ASSUME NEW s, NEW h, NEW r, NEW cs, UnlistsFor(s, h, r, cs), NEW e, e = s.thd[h].effs[1]
  PROVE  /\ SameShape(s, r) /\ LiveOf(r) = LiveOf(s) /\ r.eff = s.eff
         /\ \A f \in DOMAIN s.thd \ {h} : EffsOf(r, f) = EffsOf(s, f)
         /\ EffsOf(s, h) = EffsOf(r, h) \cup {e} /\ e \notin EffsOf(r, h)
         /\ \A d \in EffsOf(s, h) : d <= e
         /\ \A f \in DOMAIN s.thd : EffsOf(s, f) \subseteq DOMAIN s.eff
         /\ \A d \in DOMAIN s.eff : s.eff[d].thd \in DOMAIN s.thd /\ OwnerOf(r, d) = OwnerOf(s, d)
         /\ e \in DOMAIN s.eff /\ OwnerOf(s, e) = h /\ e \in Nat
         /\ \A j, k \in DOMAIN r.thd[h].effs : j < k => r.thd[h].effs[j] > r.thd[h].effs[k]
<1>0. /\ Typed(s) /\ Lists(s) /\ Unlists(s, h, r) /\ s.thd[h].effs # <<>> /\ OwnerOf(s, e) = h
      /\ DeletesNow(s, h, cs)
  BY DEF DeletesNow, UnlistsFor
<1>1. h \in DOMAIN s.thd
  BY <1>0, DeletesSets
<1>2. SameShape(s, r) /\ r.eff = s.eff
  BY <1>0 DEF SameShape, Unlists
<1>3. LiveOf(r) = LiveOf(s)
  BY <1>0 DEF LiveOf, Unlists
<1>4. \A d \in DOMAIN s.eff : s.eff[d].thd \in DOMAIN s.thd /\ OwnerOf(r, d) = OwnerOf(s, d)
  BY <1>0, <1>2, ShapeOwners
<1>5. \A f \in DOMAIN s.thd : EffsOf(s, f) \subseteq DOMAIN s.eff
  BY <1>0 DEF Typed
<1>6. \A f \in DOMAIN s.thd \ {h} : EffsOf(r, f) = EffsOf(s, f)
  BY <1>0 DEF Unlists, EffsOf
<1> DEFINE q == s.thd[h].effs  t == Tail(q)
<1>7. q \in Seq(Nat)
  BY <1>0, <1>1, TypedIs DEF ThreadRec
<1>8. /\ Len(q) \in Nat \ {0} /\ DOMAIN q = 1..Len(q) /\ DOMAIN t = 1..(Len(q) - 1)
      /\ \A j \in DOMAIN t : j + 1 \in DOMAIN q /\ t[j] = q[j + 1]
  BY <1>0, <1>7, Rested
<1>9. \A j, k \in DOMAIN q : j < k => q[j] > q[k]
  BY <1>0, <1>1 DEF Lists
<1>10. \A j \in DOMAIN q : q[j] \in Nat
  BY <1>7
<1>11. q[1] = e /\ EffsOf(s, h) = ToSet(q) /\ EffsOf(r, h) = ToSet(t) /\ r.thd[h].effs = t
  BY <1>0 DEF EffsOf, Unlists
<1> HIDE DEF q, t
<1>12. ToSet(q) = ToSet(t) \cup {e}
  <2>1. \A j \in DOMAIN q : j = 1 \/ (j - 1 \in DOMAIN t /\ t[j - 1] = q[j])
    BY <1>8
  <2>2. 1 \in DOMAIN q
    BY <1>8
  <2>3. ToSet(q) \subseteq ToSet(t) \cup {e}
    BY <2>1, <1>11 DEF ToSet
  <2>4. ToSet(t) \cup {e} \subseteq ToSet(q)
    BY <2>2, <1>8, <1>11 DEF ToSet
  <2> QED BY <2>3, <2>4
<1>13. \A j \in DOMAIN t : t[j] < e /\ t[j] \in Nat
  BY <1>8, <1>9, <1>10, <1>11
<1>14. e \in Nat
  BY <1>8, <1>10, <1>11
<1>15. e \notin ToSet(t) /\ \A d \in ToSet(q) : d <= e
  <2>1. \A d \in ToSet(t) : d < e /\ d \in Nat
    BY <1>13 DEF ToSet
  <2> QED BY <2>1, <1>12, <1>14
<1>16. \A j, k \in DOMAIN t : j < k => t[j] > t[k]
  <2> SUFFICES ASSUME NEW j \in DOMAIN t, NEW k \in DOMAIN t, j < k
               PROVE  t[j] > t[k]
    OBVIOUS
  <2>1. j + 1 \in DOMAIN q /\ t[j] = q[j + 1] /\ k + 1 \in DOMAIN q /\ t[k] = q[k + 1]
    BY <1>8
  <2>2. j \in Nat /\ k \in Nat
    BY <1>8
  <2>3. j + 1 < k + 1
    BY <2>2
  <2> QED BY <2>1, <2>3, <1>9
<1>17. e \in DOMAIN s.eff
  BY <1>1, <1>5, <1>11, <1>12
<1> QED BY <1>0, <1>2, <1>3, <1>4, <1>5, <1>6, <1>11, <1>12, <1>14, <1>15, <1>16, <1>17

LEMMA NoOtherList ==
  ASSUME NEW s, NEW h, NEW r, NEW cs, UnlistsFor(s, h, r, cs), NEW e, e = s.thd[h].effs[1],
         NEW f \in LiveOf(s), f # h
  PROVE  e \notin EffsOf(s, f)
<1>0. /\ Typed(s) /\ Tree(s) /\ Lists(s) /\ DeletesNow(s, h, cs)
  BY DEF DeletesNow, UnlistsFor
<1>1. /\ \A d \in EffsOf(s, h) : d <= e
      /\ \A x \in DOMAIN s.thd : EffsOf(s, x) \subseteq DOMAIN s.eff
      /\ OwnerOf(s, e) = h /\ e \in Nat
  BY UnlistsSets
<1>2. /\ LiveOf(s) \subseteq DOMAIN s.thd /\ DOMAIN s.thd \subseteq Nat /\ h \in DOMAIN s.thd
  BY <1>0, DeletesSets
<1>3. DOMAIN s.eff \subseteq Nat
  BY <1>0, TypedIs
<1> DEFINE T == {x \in LiveOf(s) \ {h} : e \in EffsOf(s, x)}
<1> SUFFICES ASSUME f \in T
             PROVE  FALSE
  OBVIOUS
<1>4. PICK m \in T : \A k \in T : m <= k
  <2>1. T \in SUBSET Nat /\ T # {}
    BY <1>2
  <2> HIDE DEF T
  <2> QED BY <2>1, Least
<1>5. m \in LiveOf(s) /\ m # h /\ e \in EffsOf(s, m)
  BY <1>4
<1>6. m # 1 /\ e \in EffsOf(s, s.thd[m].parent)
  BY <1>0, <1>1, <1>5 DEF Lists
<1>7. s.thd[m].parent < m /\ s.thd[m].parent \in LiveOf(s)
  BY <1>0, <1>2, <1>5, <1>6 DEF Tree, LiveOf
<1>8. s.thd[m].parent = h
  <2>1. s.thd[m].parent \notin T
    BY <1>2, <1>4, <1>5, <1>7
  <2> QED BY <2>1, <1>6, <1>7
<1>9. PICK d \in EffsOf(s, h) : s.eff[d].thd = m /\ OwnerOf(s, d) = h
  BY <1>0, <1>5, <1>6, <1>8, OnlyListed
<1>10. d \in DOMAIN s.eff
  BY <1>1, <1>2, <1>9
<1>11. e < d
  BY <1>0, <1>1, <1>5, <1>9, <1>10 DEF Lists
<1>12. d <= e
  BY <1>1, <1>9
<1> QED BY <1>1, <1>3, <1>10, <1>11, <1>12

LEMMA UnlistsThreads ==
  ASSUME NEW s, NEW h, NEW r, NEW cs, UnlistsFor(s, h, r, cs)
  PROVE  Tree(r) /\ Lists(r)
<1> DEFINE e == s.thd[h].effs[1]
<1>0. Typed(s) /\ Tree(s) /\ Lists(s) /\ DeletesNow(s, h, cs) /\ Unlists(s, h, r)
  BY DEF DeletesNow, UnlistsFor
<1>1. /\ SameShape(s, r) /\ LiveOf(r) = LiveOf(s) /\ r.eff = s.eff
      /\ \A f \in DOMAIN s.thd \ {h} : EffsOf(r, f) = EffsOf(s, f)
      /\ EffsOf(s, h) = EffsOf(r, h) \cup {e} /\ e \notin EffsOf(r, h)
      /\ \A f \in DOMAIN s.thd : EffsOf(s, f) \subseteq DOMAIN s.eff
      /\ \A d \in DOMAIN s.eff : s.eff[d].thd \in DOMAIN s.thd /\ OwnerOf(r, d) = OwnerOf(s, d)
      /\ OwnerOf(s, e) = h
      /\ \A j, k \in DOMAIN r.thd[h].effs : j < k => r.thd[h].effs[j] > r.thd[h].effs[k]
  BY UnlistsSets
<1>2. /\ LiveOf(s) \subseteq DOMAIN s.thd /\ h \in DOMAIN s.thd
  BY <1>0, DeletesSets
<1>3. \A f \in LiveOf(s) \ {h} : e \notin EffsOf(s, f)
  BY NoOtherList
<1> HIDE DEF e
<1>4. Tree(r)
  <2>1. \A f \in DOMAIN s.thd \ {1} : r.thd[f].live => r.thd[s.thd[f].parent].live
    BY <1>0 DEF Tree, Unlists
  <2> QED BY <2>1, <1>0, <1>1, ShapeTree
<1>5. \A f \in DOMAIN s.thd : EffsOf(r, f) \subseteq EffsOf(s, f)
  BY <1>1
<1>6. \A f \in DOMAIN r.thd : \A j, k \in DOMAIN r.thd[f].effs :
        j < k => r.thd[f].effs[j] > r.thd[f].effs[k]
  BY <1>0, <1>1 DEF Lists, Unlists
<1>7. ASSUME NEW f \in LiveOf(r), NEW x \in EffsOf(r, f)
      PROVE  /\ r.eff[x].live
             /\ OwnerOf(r, x) = f \/ (f # 1 /\ x \in EffsOf(r, r.thd[f].parent))
             /\ OwnerOf(r, x) = f => \A d \in EffsOf(r, f) : OwnerOf(r, d) # f => d < x
  <2>1. f \in LiveOf(s) /\ f \in DOMAIN s.thd /\ x \in EffsOf(s, f) /\ x \in DOMAIN s.eff
    BY <1>1, <1>2, <1>5
  <2>2. x # e
    BY <2>1, <1>1, <1>3
  <2>3. s.eff[x].live /\ (OwnerOf(s, x) = f \/ (f # 1 /\ x \in EffsOf(s, s.thd[f].parent)))
    BY <2>1, <1>0 DEF Lists
  <2>4. f # 1 => s.thd[f].parent \in DOMAIN s.thd /\ r.thd[f].parent = s.thd[f].parent
    BY <2>1, <1>0 DEF Tree, Unlists
  <2>5. OwnerOf(r, x) = f \/ (f # 1 /\ x \in EffsOf(r, r.thd[f].parent))
    BY <2>1, <2>2, <2>3, <2>4, <1>1
  <2>6. OwnerOf(s, x) = f => \A d \in EffsOf(s, f) : OwnerOf(s, d) # f => d < x
    BY <2>1, <1>0 DEF Lists
  <2>7. \A d \in EffsOf(r, f) : d \in EffsOf(s, f) /\ OwnerOf(r, d) = OwnerOf(s, d)
    BY <2>1, <1>1, <1>5
  <2> QED BY <2>1, <2>3, <2>5, <2>6, <2>7, <1>1
<1>8. \A x \in DOMAIN r.eff : \A d \in EffsOf(r, r.eff[x].thd) :
        OwnerOf(r, d) # r.eff[x].thd => d < x
  <2>1. \A x \in DOMAIN s.eff : \A d \in EffsOf(r, s.eff[x].thd) :
          d \in EffsOf(s, s.eff[x].thd) /\ OwnerOf(r, d) = OwnerOf(s, d)
    BY <1>1, <1>5
  <2> QED BY <2>1, <1>0, <1>1 DEF Lists
<1>9. \A x \in DOMAIN r.eff : r.eff[x].live => r.eff[x].thd \in LiveOf(r)
  BY <1>0, <1>1 DEF Lists
<1> QED BY <1>4, <1>6, <1>7, <1>8, <1>9 DEF Lists

(* Calls that are made.                                                    *)
Pushes(cs, c, ds) ==
  /\ cs \in Seq(CallRec) /\ c \in CallRec /\ ds = <<c>> \o cs

LEMMA PushedCalls ==
  ASSUME NEW cs, NEW c, NEW ds, Pushes(cs, c, ds)
  PROVE  /\ ds \in Seq(CallRec) /\ Len(cs) \in Nat /\ DOMAIN cs = 1..Len(cs)
         /\ Len(ds) = Len(cs) + 1 /\ DOMAIN ds = 1..(Len(cs) + 1) /\ ds[1] = c
         /\ \A n \in DOMAIN cs : n + 1 \in DOMAIN ds /\ ds[n + 1] = cs[n]
         /\ \A n \in DOMAIN ds \ {1} : n - 1 \in DOMAIN cs /\ ds[n] = cs[n - 1]
<1>1. /\ ds \in Seq(CallRec) /\ Len(cs) \in Nat /\ DOMAIN cs = 1..Len(cs)
      /\ Len(ds) = Len(cs) + 1 /\ DOMAIN ds = 1..(Len(cs) + 1) /\ ds[1] = c
      /\ \A n \in DOMAIN cs : ds[n + 1] = cs[n]
  BY Before DEF Pushes
<1>2. \A n \in DOMAIN cs : n + 1 \in DOMAIN ds
  BY <1>1
<1>3. \A n \in DOMAIN ds \ {1} : n - 1 \in DOMAIN cs /\ ds[n] = cs[n - 1]
  <2> TAKE n \in DOMAIN ds \ {1}
  <2>1. n - 1 \in DOMAIN cs /\ (n - 1) + 1 = n
    BY <1>1
  <2> QED BY <2>1, <1>1
<1> QED BY <1>1, <1>2, <1>3

LEMMA UnlistsCalls ==
  ASSUME NEW s, NEW h, NEW r, NEW cs, UnlistsFor(s, h, r, cs), NEW e, e = s.thd[h].effs[1],
         NEW c, c.op = "detach", c.of = e, NEW ds, Pushes(cs, c, ds)
  PROVE  CallInv(r, ds)
<1>0. /\ Typed(s) /\ Tree(s) /\ Lists(s) /\ DeletesNow(s, h, cs) /\ Unlists(s, h, r)
      /\ Chained(s, cs) /\ Attached(s, cs) /\ Detaching(s, cs) /\ Counted(s, cs)
      /\ cs[1].of = h
  BY DEF DeletesNow, UnlistsFor, CallInv
<1>1. /\ SameShape(s, r) /\ LiveOf(r) = LiveOf(s) /\ r.eff = s.eff
      /\ \A f \in DOMAIN s.thd \ {h} : EffsOf(r, f) = EffsOf(s, f)
      /\ EffsOf(s, h) = EffsOf(r, h) \cup {e} /\ e \notin EffsOf(r, h)
      /\ \A d \in DOMAIN s.eff : s.eff[d].thd \in DOMAIN s.thd /\ OwnerOf(r, d) = OwnerOf(s, d)
      /\ e \in DOMAIN s.eff /\ OwnerOf(s, e) = h
  BY UnlistsSets
<1>2. /\ LiveOf(s) \subseteq DOMAIN s.thd /\ h \in DOMAIN s.thd /\ h \in LiveOf(s)
      /\ s.thd[h].nchild <= 0 /\ ChildrenOf(s, h) = {}
      /\ \A n \in DOMAIN cs : cs[n].op = "delete" /\ cs[n].queue = <<>> /\ cs[n].of \in LiveOf(s)
      /\ Len(cs) \in Nat \ {0} /\ 1 \in DOMAIN cs
  BY <1>0, DeletesSets
<1>3. \A f \in LiveOf(s) \ {h} : e \notin EffsOf(s, f)
  BY NoOtherList
<1>4. /\ ds \in Seq(CallRec) /\ Len(cs) \in Nat /\ DOMAIN cs = 1..Len(cs)
      /\ Len(ds) = Len(cs) + 1 /\ DOMAIN ds = 1..(Len(cs) + 1) /\ ds[1] = c
      /\ \A n \in DOMAIN cs : n + 1 \in DOMAIN ds /\ ds[n + 1] = cs[n]
      /\ \A n \in DOMAIN ds \ {1} : n - 1 \in DOMAIN cs /\ ds[n] = cs[n - 1]
  BY PushedCalls
<1>5. s.eff[e].live /\ s.eff[e].thd \in LiveOf(s) /\ s.eff[e].thd \in DOMAIN s.thd
  <2>1. s.eff[e].live
    BY <1>0, <1>1, <1>2 DEF Lists
  <2> QED BY <2>1, <1>0, <1>1 DEF Lists
<1>6. s.thd[s.eff[e].thd].kind = "effector" /\ s.thd[s.eff[e].thd].parent = h
  BY <1>0, <1>1 DEF Tree, OwnerOf
<1>7. \A f \in DOMAIN s.thd : /\ r.thd[f].kind = s.thd[f].kind /\ r.thd[f].parent = s.thd[f].parent
                              /\ r.thd[f].nchild = s.thd[f].nchild
  BY <1>0 DEF Unlists
<1>8. \A f : ChildrenOf(r, f) = ChildrenOf(s, f)
  BY <1>1, <1>2, <1>7 DEF ChildrenOf
<1>9. Chained(r, ds)
  <2>1. \A n \in DOMAIN ds :
          \/ ds[n].op = "delete" /\ ds[n].queue = <<>> /\ ds[n].of \in LiveOf(r)
          \/ n = 1 /\ ds[n].op = "detach" /\ ds[n].of \in DOMAIN r.eff /\ r.eff[ds[n].of].live
    BY <1>1, <1>2, <1>4, <1>5
  <2>2. ASSUME NEW n \in DOMAIN ds \ {Len(ds)}
        PROVE  LET f == IF ds[n].op = "delete" THEN ds[n].of ELSE r.eff[ds[n].of].thd
               IN f \in LiveOf(r) /\ r.thd[f].kind = "effector" /\ r.thd[f].parent = ds[n + 1].of
    <3>1. CASE n = 1
      <4>1. ds[n + 1] = cs[1]
        BY <3>1, <1>2, <1>4
      <4>2. ds[n].op = "detach" /\ ds[n].of = e /\ ds[n + 1].of = h
        BY <3>1, <4>1, <1>0, <1>4
      <4>3. /\ s.eff[e].thd \in LiveOf(r) /\ r.thd[s.eff[e].thd].kind = "effector"
            /\ r.thd[s.eff[e].thd].parent = h
        BY <1>1, <1>5, <1>6, <1>7
      <4> QED BY <4>2, <4>3, <1>1
    <3>2. CASE n # 1
      <4>1. n - 1 \in DOMAIN cs \ {Len(cs)} /\ (n - 1) + 1 = n /\ n \in DOMAIN cs
        BY <3>2, <1>4
      <4>2. ds[n] = cs[n - 1] /\ ds[n + 1] = cs[n]
        BY <3>2, <4>1, <1>4
      <4>3. cs[n - 1].op = "delete" /\ cs[n - 1].of \in LiveOf(s)
        BY <4>1, <1>2
      <4>4. s.thd[cs[n - 1].of].kind = "effector" /\ s.thd[cs[n - 1].of].parent = cs[n].of
        BY <4>1, <4>3, <1>0 DEF Chained
      <4> QED BY <4>2, <4>3, <4>4, <1>1, <1>2, <1>7
    <3> QED BY <3>1, <3>2
  <2>3. ds # <<>> => ds[Len(ds)].op = "delete" /\ r.thd[ds[Len(ds)].of].kind = "thread"
    <3>1. ds[Len(ds)] = cs[Len(cs)] /\ Len(cs) \in DOMAIN cs /\ cs # <<>>
      BY <1>2, <1>4
    <3>2. cs[Len(cs)].op = "delete" /\ s.thd[cs[Len(cs)].of].kind = "thread"
      BY <3>1, <1>0 DEF Chained
    <3> QED BY <3>1, <3>2, <1>2, <1>7
  <2>4. \A m, n \in DOMAIN ds : m < n /\ ds[m].op = "delete" => ds[n].of < ds[m].of
    <3> SUFFICES ASSUME NEW m \in DOMAIN ds, NEW n \in DOMAIN ds, m < n, ds[m].op = "delete"
                 PROVE  ds[n].of < ds[m].of
      OBVIOUS
    <3>1. m # 1 /\ n # 1
      BY <1>4
    <3>2. m - 1 \in DOMAIN cs /\ ds[m] = cs[m - 1] /\ n - 1 \in DOMAIN cs /\ ds[n] = cs[n - 1]
      BY <3>1, <1>4
    <3>3. m - 1 < n - 1
      BY <1>4
    <3> QED BY <3>2, <3>3, <1>0, <1>2 DEF Chained
  <2>5. \A n \in DOMAIN ds : ds[n].op = "delete" =>
          \A d \in DOMAIN r.eff : r.eff[d].thd = ds[n].of => ~r.eff[d].live
    <3> SUFFICES ASSUME NEW n \in DOMAIN ds, ds[n].op = "delete"
                 PROVE  \A d \in DOMAIN s.eff : s.eff[d].thd = ds[n].of => ~s.eff[d].live
      BY <1>1
    <3>1. n - 1 \in DOMAIN cs /\ ds[n] = cs[n - 1]
      BY <1>4
    <3> QED BY <3>1, <1>0 DEF Chained
  <2> QED BY <2>1, <2>2, <2>3, <2>4, <2>5 DEF Chained
<1>10. Attached(r, ds)
  <2> SUFFICES ASSUME NEW d \in DOMAIN s.eff, s.eff[d].thd \in LiveOf(s)
               PROVE  d \in EffsOf(r, OwnerOf(s, d)) \/ Detaches(ds, d, s.eff[d].thd)
    BY <1>1 DEF Attached
  <2>1. CASE d = e
    <3>1. 1 \in DOMAIN ds /\ ds[1].op = "detach" /\ ds[1].of = d
      BY <2>1, <1>4
    <3> QED BY <3>1 DEF Detaches
  <2>2. CASE d # e /\ Detaches(cs, d, s.eff[d].thd)
    BY <2>2, <1>4 DEF Detaches
  <2>3. CASE d # e /\ d \in EffsOf(s, OwnerOf(s, d))
    <3>1. OwnerOf(s, d) \in DOMAIN s.thd
      BY <1>0, TreeFacts
    <3> QED BY <2>3, <3>1, <1>1
  <2> QED BY <2>1, <2>2, <2>3, <1>0 DEF Attached
<1>11. Detaching(r, ds)
  <2>1. \A n \in DOMAIN ds \ {1} : r.thd[ds[n].of].nchild <= 0 /\ ChildrenOf(r, ds[n].of) = {}
    <3> SUFFICES ASSUME NEW n \in DOMAIN ds \ {1}
                 PROVE  r.thd[ds[n].of].nchild <= 0 /\ ChildrenOf(s, ds[n].of) = {}
      BY <1>8
    <3>1. n - 1 \in DOMAIN cs /\ ds[n] = cs[n - 1] /\ cs[n - 1].of \in DOMAIN s.thd
      BY <1>2, <1>4
    <3>2. CASE n - 1 = 1
      BY <3>1, <3>2, <1>0, <1>2, <1>7
    <3>3. CASE n - 1 # 1
      BY <3>1, <3>3, <1>0, <1>7 DEF Detaching
    <3> QED BY <3>2, <3>3
  <2>2. \A n \in DOMAIN ds :
          ds[n].op = "detach" => \A f \in LiveOf(r) : ds[n].of \notin EffsOf(r, f)
    <3> SUFFICES ASSUME NEW n \in DOMAIN ds, ds[n].op = "detach", NEW f \in LiveOf(s)
                 PROVE  ds[n].of \notin EffsOf(r, f)
      BY <1>1
    <3>1. n = 1
      BY <1>2, <1>4
    <3>2. e \notin EffsOf(r, f)
      BY <1>1, <1>2, <1>3
    <3> QED BY <3>1, <3>2, <1>4
  <2> QED BY <2>1, <2>2 DEF Detaching
<1>12. Counted(r, ds)
  <2>1. \A f : (\E n \in DOMAIN cs : cs[n].op = "delete" /\ cs[n].of = f)
                 => \E n \in DOMAIN ds : ds[n].op = "delete" /\ ds[n].of = f
    BY <1>4
  <2> SUFFICES ASSUME NEW f \in LiveOf(s)
               PROVE  \/ r.thd[f].nchild = Cardinality(ChildrenOf(r, f))
                      \/ /\ r.thd[f].nchild <= 0 /\ ChildrenOf(r, f) = {}
                         /\ \E n \in DOMAIN ds : ds[n].op = "delete" /\ ds[n].of = f
    BY <1>1 DEF Counted
  <2>2. r.thd[f].nchild = s.thd[f].nchild /\ ChildrenOf(r, f) = ChildrenOf(s, f)
    BY <1>2, <1>7, <1>8
  <2>3. \/ s.thd[f].nchild = Cardinality(ChildrenOf(s, f))
        \/ /\ s.thd[f].nchild <= 0 /\ ChildrenOf(s, f) = {}
           /\ \E n \in DOMAIN cs : cs[n].op = "delete" /\ cs[n].of = f
    BY <1>0 DEF Counted
  <2> QED BY <2>1, <2>2, <2>3
<1> QED BY <1>9, <1>10, <1>11, <1>12 DEF CallInv

-----------------------------------------------------------------------------
(* delete_thread.                                                          *)
Dies(s, h, r) ==
  /\ DOMAIN r.thd = DOMAIN s.thd /\ r.eff = s.eff
  /\ \A f \in DOMAIN s.thd :
       /\ r.thd[f].kind = s.thd[f].kind /\ r.thd[f].parent = s.thd[f].parent
       /\ r.thd[f].effs = s.thd[f].effs
       /\ r.thd[f].live = (f # h /\ s.thd[f].live)
       /\ r.thd[f].nchild = IF f = s.thd[h].parent THEN s.thd[f].nchild - 1 ELSE s.thd[f].nchild

DiesFor(s, h, r, cs) ==
  /\ DeletesNow(s, h, cs) /\ Dies(s, h, r)
  /\ s.thd[h].effs = <<>> \/ OwnerOf(s, s.thd[h].effs[1]) # h

LEMMA NoneBelow ==
  ASSUME NEW s, NEW h, NEW r, NEW cs, DiesFor(s, h, r, cs),
         NEW g \in LiveOf(s), g # 1
  PROVE  s.thd[g].parent # h
<1>0. /\ Typed(s) /\ Lists(s) /\ DeletesNow(s, h, cs)
      /\ s.thd[h].effs = <<>> \/ OwnerOf(s, s.thd[h].effs[1]) # h
  BY DEF DeletesNow, DiesFor
<1>1. h \in LiveOf(s) /\ h \in DOMAIN s.thd
  BY <1>0, DeletesSets
<1> SUFFICES ASSUME s.thd[g].parent = h
             PROVE  FALSE
  OBVIOUS
<1>2. PICK d \in EffsOf(s, h) : OwnerOf(s, d) = h
  BY <1>0, OnlyListed
<1> DEFINE q == s.thd[h].effs
<1>3. q \in Seq(Nat)
  BY <1>0, <1>1, TypedIs DEF ThreadRec
<1>4. PICK j \in DOMAIN q : q[j] = d
  BY DEF EffsOf, ToSet
<1>5. \A i, k \in DOMAIN q : i < k => q[i] > q[k]
  BY <1>0, <1>1 DEF Lists
<1>6. q # <<>> => q[1] \in EffsOf(s, h) /\ 1 \in DOMAIN q
  BY <1>3 DEF EffsOf, ToSet
<1>7. \A x \in EffsOf(s, h) : OwnerOf(s, x) # h => x < d
  BY <1>0, <1>1, <1>2 DEF Lists
<1>8. q # <<>> /\ q[1] < d
  <2>1. q # <<>>
    BY <1>4
  <2> QED BY <2>1, <1>0, <1>6, <1>7
<1> HIDE DEF q
<1>9. q[1] \in Nat /\ d \in Nat /\ 1 \in DOMAIN q /\ j \in Nat /\ (j = 1 \/ 1 < j)
  BY <1>3, <1>4, <1>6, <1>8
<1> QED BY <1>4, <1>5, <1>8, <1>9

LEMMA DiesSets ==
  ASSUME NEW s, NEW h, NEW r, NEW cs, DiesFor(s, h, r, cs)
  PROVE  /\ SameShape(s, r) /\ LiveOf(r) = LiveOf(s) \ {h} /\ r.eff = s.eff
         /\ \A f \in DOMAIN s.thd :
              EffsOf(r, f) = EffsOf(s, f) /\ EffsOf(s, f) \subseteq DOMAIN s.eff
         /\ \A d \in DOMAIN s.eff : s.eff[d].thd \in DOMAIN s.thd /\ OwnerOf(r, d) = OwnerOf(s, d)
         /\ \A f : ChildrenOf(r, f) = ChildrenOf(s, f) \ {h}
<1>0. Typed(s) /\ Dies(s, h, r)
  BY DEF DeletesNow, DiesFor
<1>1. SameShape(s, r) /\ r.eff = s.eff
  BY <1>0 DEF SameShape, Dies
<1>2. LiveOf(r) = LiveOf(s) \ {h}
  BY <1>0 DEF Dies, LiveOf
<1>3. \A f \in DOMAIN s.thd : EffsOf(r, f) = EffsOf(s, f) /\ EffsOf(s, f) \subseteq DOMAIN s.eff
  BY <1>0 DEF Dies, EffsOf, Typed
<1>4. \A f : ChildrenOf(r, f) = ChildrenOf(s, f) \ {h}
  BY <1>0, <1>2 DEF ChildrenOf, Dies, LiveOf
<1> QED BY <1>0, <1>1, <1>2, <1>3, <1>4, ShapeOwners

LEMMA DiesThreads ==
  ASSUME NEW s, NEW h, NEW r, NEW cs, DiesFor(s, h, r, cs)
  PROVE  Tree(r) /\ Lists(r)
<1>0. /\ Typed(s) /\ Tree(s) /\ Lists(s) /\ DeletesNow(s, h, cs) /\ Dies(s, h, r)
      /\ Chained(s, cs) /\ cs[1].op = "delete" /\ cs[1].of = h
  BY DEF DeletesNow, DiesFor, CallInv
<1>1. /\ SameShape(s, r) /\ LiveOf(r) = LiveOf(s) \ {h} /\ r.eff = s.eff
      /\ \A f \in DOMAIN s.thd : EffsOf(r, f) = EffsOf(s, f) /\ EffsOf(s, f) \subseteq DOMAIN s.eff
      /\ \A d \in DOMAIN s.eff : s.eff[d].thd \in DOMAIN s.thd /\ OwnerOf(r, d) = OwnerOf(s, d)
  BY DiesSets
<1>2. /\ LiveOf(s) \subseteq DOMAIN s.thd /\ h \in DOMAIN s.thd /\ 1 \in DOMAIN cs
  BY <1>0, DeletesSets
<1>3. \A g \in LiveOf(s) \ {1} : s.thd[g].parent # h
  BY NoneBelow
<1>4. Tree(r)
  <2> SUFFICES ASSUME NEW f \in DOMAIN s.thd \ {1}, r.thd[f].live
               PROVE  r.thd[s.thd[f].parent].live
    BY <1>0, <1>1, ShapeTree
  <2>1. f \in LiveOf(s)
    BY <1>0 DEF Dies, LiveOf
  <2> QED BY <2>1, <1>0, <1>3 DEF Dies, LiveOf, Tree
<1>5. \A f \in DOMAIN r.thd : \A j, k \in DOMAIN r.thd[f].effs :
        j < k => r.thd[f].effs[j] > r.thd[f].effs[k]
  BY <1>0 DEF Lists, Dies
<1>6. ASSUME NEW f \in LiveOf(r), NEW x \in EffsOf(r, f)
      PROVE  /\ r.eff[x].live
             /\ OwnerOf(r, x) = f \/ (f # 1 /\ x \in EffsOf(r, r.thd[f].parent))
             /\ OwnerOf(r, x) = f => \A d \in EffsOf(r, f) : OwnerOf(r, d) # f => d < x
  <2>1. f \in LiveOf(s) /\ f \in DOMAIN s.thd /\ x \in EffsOf(s, f) /\ x \in DOMAIN s.eff
    BY <1>1, <1>2
  <2>2. s.eff[x].live /\ (OwnerOf(s, x) = f \/ (f # 1 /\ x \in EffsOf(s, s.thd[f].parent)))
    BY <2>1, <1>0 DEF Lists
  <2>3. f # 1 => s.thd[f].parent \in DOMAIN s.thd /\ r.thd[f].parent = s.thd[f].parent
    BY <2>1, <1>0 DEF Tree, Dies
  <2>4. OwnerOf(r, x) = f \/ (f # 1 /\ x \in EffsOf(r, r.thd[f].parent))
    BY <2>1, <2>2, <2>3, <1>1
  <2>5. OwnerOf(s, x) = f => \A d \in EffsOf(s, f) : OwnerOf(s, d) # f => d < x
    BY <2>1, <1>0 DEF Lists
  <2>6. \A d \in EffsOf(r, f) : d \in EffsOf(s, f) /\ OwnerOf(r, d) = OwnerOf(s, d)
    BY <2>1, <1>1
  <2> QED BY <2>1, <2>2, <2>4, <2>5, <2>6, <1>1
<1>7. \A x \in DOMAIN r.eff : \A d \in EffsOf(r, r.eff[x].thd) :
        OwnerOf(r, d) # r.eff[x].thd => d < x
  <2>1. \A x \in DOMAIN s.eff : \A d \in EffsOf(r, s.eff[x].thd) :
          d \in EffsOf(s, s.eff[x].thd) /\ OwnerOf(r, d) = OwnerOf(s, d)
    BY <1>1
  <2> QED BY <2>1, <1>0, <1>1 DEF Lists
<1>8. \A x \in DOMAIN r.eff : r.eff[x].live => r.eff[x].thd \in LiveOf(r)
  <2>1. \A x \in DOMAIN s.eff : s.eff[x].live => s.eff[x].thd # h
    BY <1>0, <1>2 DEF Chained
  <2> QED BY <2>1, <1>0, <1>1 DEF Lists
<1> QED BY <1>4, <1>5, <1>6, <1>7, <1>8 DEF Lists

LEMMA ReturnedCalls ==
  ASSUME NEW cs \in Seq(CallRec), cs # <<>>, NEW ds, ds = Tail(cs)
  PROVE  /\ ds \in Seq(CallRec) /\ Len(cs) \in Nat \ {0} /\ DOMAIN cs = 1..Len(cs)
         /\ Len(ds) = Len(cs) - 1 /\ DOMAIN ds = 1..(Len(cs) - 1)
         /\ \A n \in DOMAIN ds : n + 1 \in DOMAIN cs \ {1} /\ ds[n] = cs[n + 1]
         /\ \A n \in DOMAIN cs \ {1} : n - 1 \in DOMAIN ds /\ ds[n - 1] = cs[n]
<1>1. /\ ds \in Seq(CallRec) /\ Len(cs) \in Nat \ {0} /\ DOMAIN cs = 1..Len(cs)
      /\ Len(ds) = Len(cs) - 1 /\ DOMAIN ds = 1..(Len(cs) - 1)
      /\ \A n \in DOMAIN ds : n + 1 \in DOMAIN cs /\ ds[n] = cs[n + 1]
  BY Rested
<1>2. \A n \in DOMAIN ds : n + 1 # 1
  BY <1>1
<1>3. \A n \in DOMAIN cs \ {1} : n - 1 \in DOMAIN ds /\ ds[n - 1] = cs[n]
  <2> TAKE n \in DOMAIN cs \ {1}
  <2>1. n - 1 \in DOMAIN ds /\ (n - 1) + 1 = n
    BY <1>1
  <2> QED BY <2>1, <1>1
<1> QED BY <1>1, <1>2, <1>3

(* The thread at the bottom of the chain is a thread; of an effector       *)
(* thread, the parent is what is being deleted next.                       *)
LEMMA NextCall ==
  ASSUME NEW s, NEW h, NEW cs, DeletesNow(s, h, cs)
  PROVE  \/ s.thd[h].kind = "thread" /\ Len(cs) = 1
         \/ /\ s.thd[h].kind = "effector" /\ 2 \in DOMAIN cs /\ s.thd[h].parent = cs[2].of
            /\ s.thd[cs[2].of].nchild <= 0 /\ ChildrenOf(s, cs[2].of) = {}
<1>0. /\ Chained(s, cs) /\ Detaching(s, cs) /\ cs[1].op = "delete" /\ cs[1].of = h /\ cs # <<>>
  BY DEF DeletesNow, CallInv
<1>1. Len(cs) \in Nat \ {0} /\ DOMAIN cs = 1..Len(cs) /\ 1 \in DOMAIN cs
  BY DeletesSets
<1>2. CASE Len(cs) = 1
  BY <1>0, <1>2 DEF Chained
<1>3. CASE Len(cs) # 1
  <2>1. 1 \in DOMAIN cs \ {Len(cs)} /\ 2 \in DOMAIN cs \ {1} /\ 1 + 1 = 2
    BY <1>1, <1>3
  <2>2. s.thd[h].kind = "effector" /\ s.thd[h].parent = cs[1 + 1].of
    BY <2>1, <1>0 DEF Chained
  <2>3. s.thd[cs[2].of].nchild <= 0 /\ ChildrenOf(s, cs[2].of) = {}
    BY <2>1, <1>0 DEF Detaching
  <2> QED BY <2>1, <2>2, <2>3
<1> QED BY <1>2, <1>3

LEMMA DiesCounted ==
  ASSUME NEW s, NEW h, NEW r, NEW cs, DiesFor(s, h, r, cs), NEW ds, ds = Tail(cs)
  PROVE  Counted(r, ds)
<1>0. /\ Typed(s) /\ Tree(s) /\ DeletesNow(s, h, cs) /\ Dies(s, h, r) /\ Counted(s, cs)
      /\ cs \in Seq(CallRec) /\ cs # <<>> /\ cs[1].of = h
  BY DEF DeletesNow, DiesFor, CallInv
<1>1. LiveOf(r) = LiveOf(s) \ {h} /\ \A f : ChildrenOf(r, f) = ChildrenOf(s, f) \ {h}
  BY DiesSets
<1>2. /\ LiveOf(s) \subseteq DOMAIN s.thd /\ h \in DOMAIN s.thd /\ h \in LiveOf(s)
      /\ \A n \in DOMAIN cs : cs[n].op = "delete"
  BY <1>0, DeletesSets
<1>3. \A n \in DOMAIN cs \ {1} : n - 1 \in DOMAIN ds /\ ds[n - 1] = cs[n]
  BY <1>0, ReturnedCalls
<1>4. \A f \in DOMAIN s.thd : s.thd[f].nchild \in Int
  BY <1>0, TypedIs DEF ThreadRec
<1> SUFFICES ASSUME NEW f \in LiveOf(r)
             PROVE  \/ r.thd[f].nchild = Cardinality(ChildrenOf(r, f))
                    \/ /\ r.thd[f].nchild <= 0 /\ ChildrenOf(r, f) = {}
                       /\ \E n \in DOMAIN ds : ds[n].op = "delete" /\ ds[n].of = f
  BY DEF Counted
<1>5. f \in LiveOf(s) /\ f # h /\ f \in DOMAIN s.thd
  BY <1>1, <1>2
<1>6. \A n \in DOMAIN cs : cs[n].of = f =>
        \E m \in DOMAIN ds : ds[m].op = "delete" /\ ds[m].of = f
  <2> SUFFICES ASSUME NEW n \in DOMAIN cs, cs[n].of = f
               PROVE  \E m \in DOMAIN ds : ds[m].op = "delete" /\ ds[m].of = f
    OBVIOUS
  <2>1. n # 1
    BY <1>0, <1>5
  <2> QED BY <2>1, <1>2, <1>3
<1>7. \/ s.thd[f].nchild = Cardinality(ChildrenOf(s, f))
      \/ /\ s.thd[f].nchild <= 0 /\ ChildrenOf(s, f) = {}
         /\ \E n \in DOMAIN cs : cs[n].op = "delete" /\ cs[n].of = f
  BY <1>0, <1>5 DEF Counted
<1>8. CASE f # s.thd[h].parent
  <2>1. ChildrenOf(r, f) = ChildrenOf(s, f)
    BY <1>1, <1>8 DEF ChildrenOf
  <2>2. r.thd[f].nchild = s.thd[f].nchild
    BY <1>0, <1>5, <1>8 DEF Dies
  <2> QED BY <2>1, <2>2, <1>6, <1>7
<1>9. CASE f = s.thd[h].parent /\ s.thd[h].kind = "thread"
  <2>1. h \in ChildrenOf(s, f)
    BY <1>2, <1>9 DEF ChildrenOf
  <2>2. s.thd[f].nchild = Cardinality(ChildrenOf(s, f))
    BY <2>1, <1>7
  <2>3. IsFiniteSet(ChildrenOf(s, f))
    <3>1. ChildrenOf(s, f) \subseteq 1..Len(s.thd) /\ Len(s.thd) \in Nat
      BY <1>0, <1>2, TypedIs DEF ChildrenOf
    <3>2. 1 \in Int /\ Len(s.thd) \in Int
      BY <3>1
    <3>3. IsFiniteSet(1..Len(s.thd))
      BY <3>2, FS_Interval
    <3> QED BY <3>1, <3>3, FS_Subset
  <2>4. Cardinality(ChildrenOf(s, f) \ {h}) = Cardinality(ChildrenOf(s, f)) - 1
    BY <2>1, <2>3, FS_RemoveElement
  <2>5. r.thd[f].nchild = s.thd[f].nchild - 1
    BY <1>0, <1>5, <1>9 DEF Dies
  <2> QED BY <2>2, <2>4, <2>5, <1>1
<1>10. CASE f = s.thd[h].parent /\ s.thd[h].kind # "thread"
  <2>1. 2 \in DOMAIN cs /\ cs[2].of = f /\ s.thd[f].nchild <= 0 /\ ChildrenOf(s, f) = {}
    BY <1>0, <1>10, NextCall
  <2>2. r.thd[f].nchild = s.thd[f].nchild - 1
    BY <1>0, <1>5, <1>10 DEF Dies
  <2>3. r.thd[f].nchild <= 0
    BY <2>1, <2>2, <1>4, <1>5
  <2> QED BY <2>1, <2>3, <1>1, <1>6
<1> QED BY <1>8, <1>9, <1>10

LEMMA DiesCalls ==
  ASSUME NEW s, NEW h, NEW r, NEW cs, DiesFor(s, h, r, cs), NEW ds, ds = Tail(cs)
  PROVE  CallInv(r, ds)
<1>0. /\ Typed(s) /\ Tree(s) /\ DeletesNow(s, h, cs) /\ Dies(s, h, r)
      /\ Chained(s, cs) /\ Attached(s, cs) /\ Detaching(s, cs)
      /\ cs \in Seq(CallRec) /\ cs # <<>> /\ cs[1].of = h
  BY DEF DeletesNow, DiesFor, CallInv
<1>1. /\ LiveOf(r) = LiveOf(s) \ {h} /\ r.eff = s.eff
      /\ \A f \in DOMAIN s.thd : EffsOf(r, f) = EffsOf(s, f)
      /\ \A d \in DOMAIN s.eff : s.eff[d].thd \in DOMAIN s.thd /\ OwnerOf(r, d) = OwnerOf(s, d)
      /\ \A f : ChildrenOf(r, f) = ChildrenOf(s, f) \ {h}
  BY DiesSets
<1>2. /\ LiveOf(s) \subseteq DOMAIN s.thd /\ h \in DOMAIN s.thd /\ h \in LiveOf(s)
      /\ DOMAIN s.thd \subseteq Nat
      /\ \A n \in DOMAIN cs : cs[n].op = "delete" /\ cs[n].queue = <<>> /\ cs[n].of \in LiveOf(s)
      /\ \A n \in DOMAIN cs \ {1} : cs[n].of < h
  BY <1>0, DeletesSets
<1>3. /\ ds \in Seq(CallRec) /\ Len(cs) \in Nat \ {0} /\ DOMAIN cs = 1..Len(cs)
      /\ Len(ds) = Len(cs) - 1 /\ DOMAIN ds = 1..(Len(cs) - 1)
      /\ \A n \in DOMAIN ds : n + 1 \in DOMAIN cs \ {1} /\ ds[n] = cs[n + 1]
      /\ \A n \in DOMAIN cs \ {1} : n - 1 \in DOMAIN ds /\ ds[n - 1] = cs[n]
  BY <1>0, ReturnedCalls
<1>4. \A f \in DOMAIN s.thd :
        /\ r.thd[f].kind = s.thd[f].kind /\ r.thd[f].parent = s.thd[f].parent
        /\ s.thd[f].nchild <= 0 => r.thd[f].nchild <= 0
  <2>1. \A f \in DOMAIN s.thd : s.thd[f].nchild \in Int
    BY <1>0, TypedIs DEF ThreadRec
  <2> QED BY <2>1, <1>0 DEF Dies
<1>5. \A n \in DOMAIN ds : ds[n].op = "delete" /\ ds[n].queue = <<>> /\ ds[n].of \in LiveOf(r)
                           /\ ds[n].of \in DOMAIN s.thd
  <2> TAKE n \in DOMAIN ds
  <2>1. n + 1 \in DOMAIN cs \ {1} /\ ds[n] = cs[n + 1]
    BY <1>3
  <2>2. cs[n + 1].of # h
    BY <2>1, <1>2
  <2> QED BY <2>1, <2>2, <1>1, <1>2
<1>6. Chained(r, ds)
  <2>1. ASSUME NEW n \in DOMAIN ds \ {Len(ds)}
        PROVE  r.thd[ds[n].of].kind = "effector" /\ r.thd[ds[n].of].parent = ds[n + 1].of
    <3>1. n + 1 \in DOMAIN cs \ {Len(cs)} /\ ds[n] = cs[n + 1] /\ ds[n + 1] = cs[(n + 1) + 1]
      BY <1>3
    <3>2. /\ s.thd[cs[n + 1].of].kind = "effector"
          /\ s.thd[cs[n + 1].of].parent = cs[(n + 1) + 1].of
      BY <3>1, <1>0, <1>2 DEF Chained
    <3> QED BY <3>1, <3>2, <1>4, <1>5
  <2>2. ASSUME ds # <<>>
        PROVE  ds[Len(ds)].op = "delete" /\ r.thd[ds[Len(ds)].of].kind = "thread"
    <3>1. Len(ds) \in DOMAIN ds /\ Len(ds) + 1 = Len(cs)
      BY <2>2, <1>3
    <3>2. ds[Len(ds)] = cs[Len(cs)]
      BY <3>1, <1>3
    <3>3. s.thd[cs[Len(cs)].of].kind = "thread"
      BY <1>0 DEF Chained
    <3> QED BY <3>1, <3>2, <3>3, <1>4, <1>5
  <2>3. \A m, n \in DOMAIN ds : m < n /\ ds[m].op = "delete" => ds[n].of < ds[m].of
    <3> SUFFICES ASSUME NEW m \in DOMAIN ds, NEW n \in DOMAIN ds, m < n
                 PROVE  ds[n].of < ds[m].of
      OBVIOUS
    <3>1. m + 1 \in DOMAIN cs /\ n + 1 \in DOMAIN cs /\ m + 1 < n + 1
      BY <1>3
    <3> QED BY <3>1, <1>0, <1>2, <1>3 DEF Chained
  <2>4. \A n \in DOMAIN ds :
          \A d \in DOMAIN r.eff : r.eff[d].thd = ds[n].of => ~r.eff[d].live
    BY <1>0, <1>1, <1>2, <1>3 DEF Chained
  <2> QED BY <2>1, <2>2, <2>3, <2>4, <1>5 DEF Chained
<1>7. Attached(r, ds)
  <2> SUFFICES ASSUME NEW d \in DOMAIN s.eff, s.eff[d].thd \in LiveOf(r)
               PROVE  d \in EffsOf(r, OwnerOf(s, d)) \/ Detaches(ds, d, s.eff[d].thd)
    BY <1>1 DEF Attached
  <2>1. s.eff[d].thd \in LiveOf(s) /\ s.eff[d].thd # h
    BY <1>1
  <2>2. CASE d \in EffsOf(s, OwnerOf(s, d))
    BY <2>2, <1>0, <1>1, TreeFacts
  <2>3. CASE Detaches(cs, d, s.eff[d].thd)
    <3>1. PICK n \in DOMAIN cs : cs[n].of = s.eff[d].thd
      BY <2>3, <1>2 DEF Detaches
    <3>2. n # 1
      BY <3>1, <2>1, <1>0
    <3> QED BY <3>1, <3>2, <1>2, <1>3 DEF Detaches
  <2> QED BY <2>1, <2>2, <2>3, <1>0 DEF Attached
<1>8. Detaching(r, ds)
  <2>1. \A n \in DOMAIN ds : r.thd[ds[n].of].nchild <= 0 /\ ChildrenOf(r, ds[n].of) = {}
    <3> TAKE n \in DOMAIN ds
    <3>1. n + 1 \in DOMAIN cs \ {1} /\ ds[n] = cs[n + 1]
      BY <1>3
    <3>2. s.thd[ds[n].of].nchild <= 0 /\ ChildrenOf(s, ds[n].of) = {}
      BY <3>1, <1>0 DEF Detaching
    <3> QED BY <3>2, <1>1, <1>4, <1>5
  <2> QED BY <2>1, <1>5 DEF Detaching
<1> QED BY <1>6, <1>7, <1>8, DiesCounted DEF CallInv

(* A thread begins to be deleted when nothing else is.                     *)
LEMMA DeleteBegins ==
  ASSUME NEW r, Typed(r), Tree(r), CallInv(r, <<>>), NEW p \in LiveOf(r), r.thd[p].kind = "thread",
         NEW ds, ds = <<[op |-> "delete", of |-> p, queue |-> <<>>]>>
  PROVE  CallInv(r, ds)
<1>1. Len(ds) = 1 /\ DOMAIN ds = {1} /\ ds[1].op = "delete" /\ ds[1].of = p /\ ds[1].queue = <<>>
  OBVIOUS
<1>2. Chained(r, ds)
  <2>1. \A d \in DOMAIN r.eff : r.eff[d].thd # p
    BY DEF Tree
  <2> QED BY <1>1, <2>1 DEF Chained
<1>3. Attached(r, ds)
  BY DEF CallInv, Attached, Detaches
<1>4. Detaching(r, ds)
  BY <1>1 DEF Detaching
<1>5. Counted(r, ds)
  BY DEF CallInv, Counted
<1> QED BY <1>2, <1>3, <1>4, <1>5 DEF CallInv

-----------------------------------------------------------------------------
(* The end of detach_effector: the instance is freed, and its thread is    *)
(* deleted.                                                                *)
Frees(s, e, r) ==
  /\ r.thd = s.thd /\ DOMAIN r.eff = DOMAIN s.eff
  /\ \A d \in DOMAIN s.eff : r.eff[d].thd = s.eff[d].thd /\ r.eff[d].live = (d # e /\ s.eff[d].live)

FreesFor(s, e, r, cs) ==
  /\ Typed(s) /\ Tree(s) /\ Lists(s) /\ CallInv(s, cs) /\ Frees(s, e, r)
  /\ cs \in Seq(CallRec) /\ cs # <<>> /\ cs[1].op = "detach" /\ cs[1].of = e

LEMMA FreesSets ==
  ASSUME NEW s, NEW e, NEW r, NEW cs, FreesFor(s, e, r, cs)
  PROVE  /\ SameShape(s, r) /\ LiveOf(r) = LiveOf(s) /\ LiveOf(s) \subseteq DOMAIN s.thd
         /\ \A f : EffsOf(r, f) = EffsOf(s, f) /\ ChildrenOf(r, f) = ChildrenOf(s, f)
         /\ \A f \in DOMAIN s.thd : EffsOf(s, f) \subseteq DOMAIN s.eff
         /\ \A d \in DOMAIN s.eff : s.eff[d].thd \in DOMAIN s.thd /\ OwnerOf(r, d) = OwnerOf(s, d)
         /\ e \in DOMAIN s.eff /\ s.eff[e].live
         /\ Len(cs) \in Nat /\ DOMAIN cs = 1..Len(cs) /\ 1 \in DOMAIN cs
         /\ \A f \in LiveOf(s) : e \notin EffsOf(s, f)
<1>0. /\ Typed(s) /\ Frees(s, e, r) /\ cs \in Seq(CallRec) /\ cs # <<>>
      /\ cs[1].op = "detach" /\ cs[1].of = e /\ Chained(s, cs) /\ Detaching(s, cs)
  BY DEF FreesFor, CallInv
<1>1. SameShape(s, r)
  BY <1>0 DEF SameShape, Frees
<1>2. Len(cs) \in Nat /\ DOMAIN cs = 1..Len(cs) /\ 1 \in DOMAIN cs
  BY <1>0
<1>3. e \in DOMAIN s.eff /\ s.eff[e].live
  BY <1>0, <1>2 DEF Chained
<1>4. \A f \in LiveOf(s) : e \notin EffsOf(s, f)
  BY <1>0, <1>2 DEF Detaching
<1>5. LiveOf(r) = LiveOf(s) /\ LiveOf(s) \subseteq DOMAIN s.thd
  BY <1>0 DEF LiveOf, Frees
<1>6. \A f : EffsOf(r, f) = EffsOf(s, f) /\ ChildrenOf(r, f) = ChildrenOf(s, f)
  BY <1>0, <1>5 DEF EffsOf, ChildrenOf, Frees
<1>7. \A f \in DOMAIN s.thd : EffsOf(s, f) \subseteq DOMAIN s.eff
  BY <1>0 DEF Typed
<1> QED BY <1>0, <1>1, <1>2, <1>3, <1>4, <1>5, <1>6, <1>7, ShapeOwners

LEMMA FreesThreads ==
  ASSUME NEW s, NEW e, NEW r, NEW cs, FreesFor(s, e, r, cs)
  PROVE  Tree(r) /\ Lists(r)
<1>0. Typed(s) /\ Tree(s) /\ Lists(s) /\ Frees(s, e, r)
  BY DEF FreesFor
<1>1. /\ SameShape(s, r) /\ LiveOf(r) = LiveOf(s) /\ LiveOf(s) \subseteq DOMAIN s.thd
      /\ \A f : EffsOf(r, f) = EffsOf(s, f)
      /\ \A f \in DOMAIN s.thd : EffsOf(s, f) \subseteq DOMAIN s.eff
      /\ \A d \in DOMAIN s.eff : s.eff[d].thd \in DOMAIN s.thd /\ OwnerOf(r, d) = OwnerOf(s, d)
      /\ \A f \in LiveOf(s) : e \notin EffsOf(s, f)
  BY FreesSets
<1>2. Tree(r)
  <2>1. \A f \in DOMAIN s.thd \ {1} : r.thd[f].live => r.thd[s.thd[f].parent].live
    BY <1>0 DEF Frees, Tree
  <2> QED BY <2>1, <1>0, <1>1, ShapeTree
<1>3. \A f \in DOMAIN r.thd : \A j, k \in DOMAIN r.thd[f].effs :
        j < k => r.thd[f].effs[j] > r.thd[f].effs[k]
  BY <1>0 DEF Lists, Frees
<1>4. ASSUME NEW f \in LiveOf(r), NEW x \in EffsOf(r, f)
      PROVE  /\ r.eff[x].live
             /\ OwnerOf(r, x) = f \/ (f # 1 /\ x \in EffsOf(r, r.thd[f].parent))
             /\ OwnerOf(r, x) = f => \A d \in EffsOf(r, f) : OwnerOf(r, d) # f => d < x
  <2>1. f \in LiveOf(s) /\ x \in EffsOf(s, f) /\ x \in DOMAIN s.eff /\ x # e
    BY <1>1
  <2>2. /\ s.eff[x].live
        /\ OwnerOf(s, x) = f \/ (f # 1 /\ x \in EffsOf(s, s.thd[f].parent))
        /\ OwnerOf(s, x) = f => \A d \in EffsOf(s, f) : OwnerOf(s, d) # f => d < x
    BY <2>1, <1>0 DEF Lists
  <2>3. \A d \in EffsOf(r, f) : d \in EffsOf(s, f) /\ OwnerOf(r, d) = OwnerOf(s, d)
    BY <2>1, <1>1
  <2>4. r.eff[x].live
    BY <2>1, <2>2, <1>0 DEF Frees
  <2>5. OwnerOf(r, x) = f \/ (f # 1 /\ x \in EffsOf(r, r.thd[f].parent))
    BY <2>1, <2>2, <1>0, <1>1 DEF Frees
  <2> QED BY <2>1, <2>2, <2>3, <2>4, <2>5
<1>5. \A x \in DOMAIN r.eff : \A d \in EffsOf(r, r.eff[x].thd) :
        OwnerOf(r, d) # r.eff[x].thd => d < x
  <2>1. \A x \in DOMAIN s.eff : \A d \in EffsOf(s, s.eff[x].thd) : OwnerOf(r, d) = OwnerOf(s, d)
    BY <1>1
  <2> QED BY <2>1, <1>0, <1>1 DEF Lists, Frees
<1>6. \A x \in DOMAIN r.eff : r.eff[x].live => r.eff[x].thd \in LiveOf(r)
  BY <1>0, <1>1 DEF Lists, Frees
<1> QED BY <1>2, <1>3, <1>4, <1>5, <1>6 DEF Lists

Replaces(cs, c, ds) ==
  /\ cs \in Seq(CallRec) /\ cs # <<>> /\ c \in CallRec /\ ds = <<c>> \o Tail(cs)

LEMMA ReplacedCall ==
  ASSUME NEW cs, NEW c, NEW ds, Replaces(cs, c, ds)
  PROVE  /\ ds \in Seq(CallRec) /\ Len(ds) = Len(cs) /\ DOMAIN ds = DOMAIN cs /\ ds[1] = c
         /\ \A n \in DOMAIN cs \ {1} : ds[n] = cs[n]
<1>1. PICK t : t = Tail(cs)
  OBVIOUS
<1>2. /\ t \in Seq(CallRec) /\ Len(cs) \in Nat \ {0} /\ DOMAIN cs = 1..Len(cs)
      /\ Len(t) = Len(cs) - 1
      /\ \A n \in DOMAIN cs \ {1} : n - 1 \in DOMAIN t /\ t[n - 1] = cs[n]
  BY <1>1, ReturnedCalls DEF Replaces
<1>3. Pushes(t, c, ds)
  BY <1>1, <1>2 DEF Pushes, Replaces
<1>4. /\ ds \in Seq(CallRec) /\ Len(ds) = Len(t) + 1 /\ DOMAIN ds = 1..(Len(t) + 1)
      /\ ds[1] = c /\ \A n \in DOMAIN ds \ {1} : n - 1 \in DOMAIN t /\ ds[n] = t[n - 1]
  BY <1>3, PushedCalls
<1> QED BY <1>2, <1>4

LEMMA FreesCalls ==
  ASSUME NEW s, NEW e, NEW r, NEW cs, FreesFor(s, e, r, cs),
         NEW c, c.op = "delete", c.of = s.eff[e].thd, c.queue = <<>>,
         NEW ds, Replaces(cs, c, ds)
  PROVE  ds \in Seq(CallRec) /\ CallInv(r, ds)
<1> DEFINE g == s.eff[e].thd
<1>0. /\ Typed(s) /\ Tree(s) /\ Lists(s) /\ Frees(s, e, r)
      /\ cs \in Seq(CallRec) /\ cs # <<>> /\ cs[1].op = "detach" /\ cs[1].of = e
      /\ Chained(s, cs) /\ Attached(s, cs) /\ Detaching(s, cs) /\ Counted(s, cs)
  BY DEF FreesFor, CallInv
<1>1. /\ SameShape(s, r) /\ LiveOf(r) = LiveOf(s) /\ LiveOf(s) \subseteq DOMAIN s.thd
      /\ \A f : EffsOf(r, f) = EffsOf(s, f) /\ ChildrenOf(r, f) = ChildrenOf(s, f)
      /\ \A d \in DOMAIN s.eff : s.eff[d].thd \in DOMAIN s.thd /\ OwnerOf(r, d) = OwnerOf(s, d)
      /\ e \in DOMAIN s.eff /\ s.eff[e].live
      /\ Len(cs) \in Nat /\ DOMAIN cs = 1..Len(cs) /\ 1 \in DOMAIN cs
  BY FreesSets
<1>2. /\ ds \in Seq(CallRec) /\ Len(ds) = Len(cs) /\ DOMAIN ds = DOMAIN cs /\ ds[1] = c
      /\ \A n \in DOMAIN cs \ {1} : ds[n] = cs[n]
  BY <1>0, <1>1, ReplacedCall
<1>3. \A n \in DOMAIN cs \ {1} : cs[n].op = "delete" /\ cs[n].queue = <<>> /\ cs[n].of \in LiveOf(s)
  BY <1>0 DEF Chained
<1>4. Len(cs) # 1 /\ 2 \in DOMAIN cs \ {1} /\ 1 \in DOMAIN cs \ {Len(cs)} /\ 1 + 1 = 2
  <2>1. Len(cs) # 1
    BY <1>0 DEF Chained
  <2> QED BY <2>1, <1>1
<1>5. g \in LiveOf(s) /\ s.thd[g].kind = "effector" /\ s.thd[g].parent = cs[2].of /\ cs[2].of < g
  <2>1. g \in LiveOf(s) /\ s.thd[g].kind = "effector"
    BY <1>0, <1>1 DEF Lists, Tree
  <2>2. s.thd[g].parent = cs[1 + 1].of
    BY <1>0, <1>4 DEF Chained
  <2>3. g \in DOMAIN s.thd \ {1}
    BY <1>0, <1>1 DEF Tree
  <2> QED BY <2>1, <2>2, <2>3, <1>0, <1>4 DEF Tree
<1>6. c.of = g
  OBVIOUS
<1> HIDE DEF g
<1>7. \A n \in DOMAIN ds : ds[n].op = "delete" /\ ds[n].queue = <<>> /\ ds[n].of \in LiveOf(r)
  <2> TAKE n \in DOMAIN ds
  <2>1. CASE n = 1
    BY <2>1, <1>1, <1>2, <1>5, <1>6
  <2>2. CASE n # 1
    BY <2>2, <1>1, <1>2, <1>3
  <2> QED BY <2>1, <2>2
<1>8. Chained(r, ds)
  <2>1. ASSUME NEW n \in DOMAIN ds \ {Len(ds)}
        PROVE  r.thd[ds[n].of].kind = "effector" /\ r.thd[ds[n].of].parent = ds[n + 1].of
    <3>1. n + 1 \in DOMAIN cs \ {1} /\ ds[n + 1] = cs[n + 1]
      BY <1>1, <1>2
    <3>2. CASE n = 1
      BY <3>1, <3>2, <1>0, <1>2, <1>5, <1>6 DEF Frees
    <3>3. CASE n # 1
      <4>1. ds[n] = cs[n] /\ cs[n].op = "delete" /\ n \in DOMAIN cs \ {Len(cs)}
        BY <3>3, <1>2, <1>3
      <4> QED BY <3>1, <4>1, <1>0 DEF Chained, Frees
    <3> QED BY <3>2, <3>3
  <2>2. ds[Len(ds)].op = "delete" /\ r.thd[ds[Len(ds)].of].kind = "thread"
    <3>1. Len(cs) \in DOMAIN cs \ {1}
      BY <1>1, <1>4
    <3> QED BY <3>1, <1>0, <1>2 DEF Chained, Frees
  <2>3. \A m, n \in DOMAIN ds : m < n => ds[n].of < ds[m].of
    <3> SUFFICES ASSUME NEW m \in DOMAIN cs, NEW n \in DOMAIN cs, m < n
                 PROVE  ds[n].of < ds[m].of
      BY <1>2
    <3>1. n # 1 /\ ds[n] = cs[n]
      BY <1>1, <1>2
    <3>2. CASE m # 1
      BY <3>1, <3>2, <1>0, <1>2, <1>3 DEF Chained
    <3>3. CASE m = 1 /\ n = 2
      BY <3>1, <3>3, <1>2, <1>5, <1>6
    <3>4. CASE m = 1 /\ n # 2
      <4>1. 2 < n
        BY <3>1, <3>4, <1>1
      <4>2. cs[n].of < cs[2].of
        BY <4>1, <1>0, <1>3, <1>4 DEF Chained
      <4>3. cs[n].of \in Nat /\ cs[2].of \in Nat /\ g \in Nat
        <5>1. DOMAIN s.thd \subseteq Nat
          BY <1>0, TypedIs
        <5> QED BY <5>1, <3>1, <1>1, <1>3, <1>4, <1>5
      <4> QED BY <3>1, <3>4, <4>2, <4>3, <1>2, <1>5, <1>6
    <3> QED BY <3>2, <3>3, <3>4
  <2>4. \A n \in DOMAIN ds : \A d \in DOMAIN r.eff : r.eff[d].thd = ds[n].of => ~r.eff[d].live
    <3> TAKE n \in DOMAIN ds
    <3>1. CASE n = 1
      <4>1. \A d \in DOMAIN s.eff : s.eff[d].thd = g => d = e
        BY <1>0, <1>1 DEF Tree, g
      <4> QED BY <3>1, <4>1, <1>0, <1>2, <1>6 DEF Frees
    <3>2. CASE n # 1
      <4>1. n \in DOMAIN cs /\ ds[n] = cs[n] /\ cs[n].op = "delete"
        BY <3>2, <1>2, <1>3
      <4>2. \A d \in DOMAIN s.eff : s.eff[d].thd = cs[n].of => ~s.eff[d].live
        BY <4>1, <1>0 DEF Chained
      <4> QED BY <4>1, <4>2, <1>0 DEF Frees
    <3> QED BY <3>1, <3>2
  <2> QED BY <2>1, <2>2, <2>3, <2>4, <1>7 DEF Chained
<1>9. Attached(r, ds)
  <2> SUFFICES ASSUME NEW d \in DOMAIN s.eff, s.eff[d].thd \in LiveOf(s)
               PROVE  d \in EffsOf(s, OwnerOf(s, d)) \/ Detaches(ds, d, s.eff[d].thd)
    BY <1>0, <1>1 DEF Attached, Frees
  <2>1. CASE Detaches(cs, d, s.eff[d].thd)
    <3>1. CASE d = e
      <4>1. ds[1].op = "delete" /\ ds[1].of = s.eff[d].thd /\ 1 \in DOMAIN ds
        BY <3>1, <1>1, <1>2
      <4> QED BY <4>1 DEF Detaches
    <3>2. CASE d # e
      <4>1. PICK n \in DOMAIN cs : \/ cs[n].op = "detach" /\ cs[n].of = d
                                   \/ cs[n].op = "delete" /\ cs[n].of = s.eff[d].thd
        BY <2>1 DEF Detaches
      <4>2. n # 1
        BY <3>2, <4>1, <1>0
      <4> QED BY <4>1, <4>2, <1>2, <1>3 DEF Detaches
    <3> QED BY <3>1, <3>2
  <2> QED BY <2>1, <1>0 DEF Attached
<1>10. Detaching(r, ds)
  <2>1. \A n \in DOMAIN ds \ {1} : r.thd[ds[n].of].nchild <= 0 /\ ChildrenOf(r, ds[n].of) = {}
    <3> TAKE n \in DOMAIN ds \ {1}
    <3>1. n \in DOMAIN cs \ {1} /\ ds[n] = cs[n]
      BY <1>2
    <3>2. s.thd[cs[n].of].nchild <= 0 /\ ChildrenOf(s, cs[n].of) = {}
      BY <3>1, <1>0 DEF Detaching
    <3> QED BY <3>1, <3>2, <1>0, <1>1 DEF Frees
  <2> QED BY <2>1, <1>7 DEF Detaching
<1>11. Counted(r, ds)
  <2>1. \A f : (\E n \in DOMAIN cs : cs[n].op = "delete" /\ cs[n].of = f)
                 => \E n \in DOMAIN ds : ds[n].op = "delete" /\ ds[n].of = f
    <3> SUFFICES ASSUME NEW n \in DOMAIN cs, cs[n].op = "delete"
                 PROVE  \E m \in DOMAIN ds : ds[m].op = "delete" /\ ds[m].of = cs[n].of
      OBVIOUS
    <3>1. n # 1
      BY <1>0
    <3> QED BY <3>1, <1>2
  <2>2. \A f : r.thd[f].nchild = s.thd[f].nchild
    BY <1>0 DEF Frees
  <2> SUFFICES ASSUME NEW f \in LiveOf(s)
               PROVE  \/ r.thd[f].nchild = Cardinality(ChildrenOf(r, f))
                      \/ /\ r.thd[f].nchild <= 0 /\ ChildrenOf(r, f) = {}
                         /\ \E n \in DOMAIN ds : ds[n].op = "delete" /\ ds[n].of = f
    BY <1>1 DEF Counted
  <2>3. \/ s.thd[f].nchild = Cardinality(ChildrenOf(s, f))
        \/ /\ s.thd[f].nchild <= 0 /\ ChildrenOf(s, f) = {}
           /\ \E n \in DOMAIN cs : cs[n].op = "delete" /\ cs[n].of = f
    BY <1>0 DEF Counted
  <2>4. r.thd[f].nchild = s.thd[f].nchild /\ ChildrenOf(r, f) = ChildrenOf(s, f)
    BY <2>2, <1>1
  <2> QED BY <2>1, <2>3, <2>4
<1> QED BY <1>2, <1>8, <1>9, <1>10, <1>11 DEF CallInv

-----------------------------------------------------------------------------
(* The steps.                                                              *)
LEMMA Became ==
  ASSUME NEW STATE r, Typed(r), Becomes(r)
  PROVE  State' = r
BY TypedIs DEF Becomes, State

LEMMA InvIs ==
  ASSUME EffectorInv
  PROVE  /\ Good(State, {}) /\ Typed(State) /\ Tree(State) /\ Lists(State)
         /\ calls # Error => CallInv(State, calls)
         /\ calls \in Seq(CallRec) /\ Error \in Seq(CallRec)
         /\ classes \in (SUBSET Class) \ {{}} /\ fuel \in Nat
         /\ State.ev = ev /\ State.thd = thd /\ State.eff = eff
         /\ \A e \in DOMAIN eff : eff[e].class \in classes \cup {Smfout}
<1>1. Error \in Seq(CallRec)
  <2>1. [op |-> "error", of |-> 0, queue |-> <<>>] \in CallRec
    BY DEF CallRec
  <2> QED BY <2>1 DEF Error
<1>2. State.ev = ev /\ State.thd = thd /\ State.eff = eff
  BY DEF State
<1> QED BY <1>1, <1>2 DEF EffectorInv, TypeOK, ThreadInv, EventInv, Good

(* What a step must show.                                                  *)
Continues(r, cs) ==
  /\ Good(r, {}) /\ Tree(r) /\ Lists(r)
  /\ \A e \in DOMAIN r.eff : r.eff[e].class \in classes \cup {Smfout}
  /\ cs \in Seq(CallRec) /\ (cs # Error => CallInv(r, cs))
  /\ cs # <<>> => Queued(r.ev, cs[1].queue)

LEMMA Follows ==
  ASSUME EffectorInv, NEW STATE r, State' = r, Continues(r, calls'),
         classes' = classes, fuel' \in Nat
  PROVE  EffectorInv'
<1>1. ev' = r.ev /\ eff' = r.eff
  BY DEF State
<1>2. TypeOK'
  BY <1>1, InvIs DEF TypeOK, Continues, Good
<1>3. ThreadInv'
  BY DEF ThreadInv, Continues, Error
<1>4. EventInv'
  BY <1>1 DEF EventInv, Continues, Good, Queues, Call
<1> QED BY <1>2, <1>3, <1>4 DEF EffectorInv

LEMMA SameCallsAs ==
  ASSUME NEW cs \in Seq(CallRec)
  PROVE  SameCalls(cs, cs)
BY DEF SameCalls

LEMMA SameTreeAs ==
  ASSUME NEW s
  PROVE  SameTree(s, s)
BY DEF SameTree

(* A thread outputs events, attaches an effector or changes its flags.     *)
DoesWith(s, h, r, Y) ==
  /\ Good(s, {}) /\ Tree(s) /\ Lists(s) /\ h \in LiveOf(s) /\ Does(s, h, r, Y)
  /\ \A e \in DOMAIN s.eff : s.eff[e].class \in classes \cup {Smfout}

LEMMA DoesThreads ==
  ASSUME NEW s, NEW h, NEW r, NEW Y, DoesWith(s, h, r, Y)
  PROVE  /\ Good(r, {}) /\ Tree(r) /\ Lists(r)
         /\ \A e \in DOMAIN r.eff : r.eff[e].class \in classes \cup {Smfout}
<1>0. /\ Good(s, {}) /\ Typed(s) /\ Tree(s) /\ Lists(s) /\ h \in LiveOf(s)
      /\ Good(r, {}) /\ Typed(r)
      /\ \A e \in DOMAIN s.eff : s.eff[e].class \in classes \cup {Smfout}
  BY DEF DoesWith, Does, Good
<1>1. CASE SameTree(s, r)
  <2>1. \A e \in DOMAIN r.eff : r.eff[e].class \in classes \cup {Smfout}
    BY <1>0, <1>1 DEF SameTree
  <2> QED BY <2>1, <1>0, <1>1, SameThreads
<1>2. CASE Attaches(s, h, r)
  <2>1. AttachesTo(s, h, r)
    BY <1>0, <1>2 DEF AttachesTo
  <2>2. \A e \in DOMAIN r.eff : r.eff[e].class \in classes \cup {Smfout}
    BY <1>0, <1>2 DEF Attaches
  <2> QED BY <2>1, <2>2, <1>0, AttachTree, AttachLists
<1> QED BY <1>1, <1>2 DEF DoesWith, Does

LEMMA DoesCalls ==
  ASSUME NEW s, NEW h, NEW r, NEW Y, DoesWith(s, h, r, Y),
         NEW cs, CallInv(s, cs), NEW ds, SameCalls(cs, ds)
  PROVE  CallInv(r, ds)
<1>0. /\ Typed(s) /\ Tree(s) /\ Lists(s) /\ h \in LiveOf(s) /\ Typed(r) /\ Tree(r)
  BY DoesThreads DEF DoesWith, Does, Good
<1>1. CASE SameTree(s, r)
  BY <1>0, <1>1, SameCallInv
<1>2. CASE Attaches(s, h, r)
  <2>1. AttachesTo(s, h, r)
    BY <1>0, <1>2 DEF AttachesTo
  <2>2. cs \in Seq(CallRec)
    BY DEF SameCalls
  <2>3. CallInv(r, cs)
    BY <2>1, <2>2, AttachCalls
  <2> QED BY <2>3, <1>0, SameTreeAs, SameCallInv
<1> QED BY <1>1, <1>2 DEF DoesWith, Does

LEMMA RunsIs ==
  ASSUME EffectorInv, NEW h \in DOMAIN thd, Runs(h)
  PROVE  /\ h \in LiveOf(State) /\ h \in DOMAIN State.thd /\ State.thd[h].kind = "thread"
         /\ calls = <<>> /\ calls # Error /\ CallInv(State, calls)
<1>1. h \in LiveOf(State) /\ h \in DOMAIN State.thd /\ State.thd[h].kind = "thread" /\ calls = <<>>
  BY InvIs DEF Runs, Running, LiveOf
<1>2. calls # Error
  BY <1>1 DEF Error
<1> QED BY <1>1, <1>2, InvIs

LEMMA CommandKeeps ==
  ASSUME EffectorInv, NEW h \in DOMAIN thd, Runs(h), NEW STATE r,
         Does(State, h, r, {}), State' = r, calls' \in {<<>>, Error},
         classes' = classes, fuel' \in Nat
  PROVE  EffectorInv'
<1>1. DoesWith(State, h, r, {})
  BY InvIs, RunsIs DEF DoesWith
<1>2. /\ Good(r, {}) /\ Tree(r) /\ Lists(r)
      /\ \A e \in DOMAIN r.eff : r.eff[e].class \in classes \cup {Smfout}
  BY <1>1, DoesThreads
<1>3. calls' # Error => CallInv(r, calls')
  <2> SUFFICES ASSUME calls' = <<>>
               PROVE  CallInv(r, calls')
    OBVIOUS
  <2>1. SameCalls(calls, calls')
    <3>1. calls' = calls /\ calls \in Seq(CallRec)
      BY RunsIs, InvIs
    <3> QED BY <3>1, SameCallsAs
  <2>2. CallInv(State, calls)
    BY RunsIs
  <2> QED BY <1>1, <2>1, <2>2, DoesCalls
<1>4. calls' # <<>> => Queued(r.ev, calls'[1].queue)
  <2>1. Error[1].queue = <<>>
    BY DEF Error
  <2>2. Queued(r.ev, <<>>)
    BY DEF Queued
  <2> QED BY <2>1, <2>2
<1>5. calls' \in Seq(CallRec)
  <2>1. Error \in Seq(CallRec)
    BY InvIs
  <2>2. <<>> \in Seq(CallRec)
    OBVIOUS
  <2> QED BY <2>1, <2>2
<1> QED BY <1>2, <1>3, <1>4, <1>5, Follows DEF Continues

LEMMA AttachKeeps ==
  ASSUME EffectorInv, NEW h \in DOMAIN thd, do_attach(h)
  PROVE  EffectorInv'
<1>1. Runs(h) /\ fuel > 0 /\ fuel' = fuel - 1 /\ classes' = classes
  BY DEF do_attach, Command
<1>2. PICK c \in classes, enable \in BOOLEAN :
        /\ Becomes(attach_effector(State, h, c, enable))
        /\ calls' = IF TooMany(State, h) THEN Error ELSE calls
  BY DEF do_attach
<1> DEFINE r == attach_effector(State, h, c, enable)
<1>3. c \in Class
  BY InvIs
<1>4. Good(r, {}) /\ Attaches(State, h, r) /\ r.ev = State.ev
  BY <1>3, InvIs, Attach
<1>5. Becomes(r) /\ calls' \in {<<>>, Error} /\ fuel' \in Nat
  BY <1>1, <1>2, InvIs, RunsIs
<1> HIDE DEF r
<1>6. Does(State, h, r, {})
  BY <1>4, InvIs DEF Does, Stay, Good, Typed
<1>7. State' = r
  BY <1>4, <1>5, Became DEF Good
<1> QED BY <1>1, <1>5, <1>6, <1>7, CommandKeeps

LEMMA EnableKeeps ==
  ASSUME EffectorInv, NEW h \in DOMAIN thd, do_enable(h)
  PROVE  EffectorInv'
<1>1. Runs(h) /\ fuel > 0 /\ fuel' = fuel - 1 /\ classes' = classes /\ calls' = calls
  BY DEF do_enable, Command
<1>2. PICK e \in DOMAIN eff \ {1}, enable \in BOOLEAN :
        Becomes(enable_effector(State, h, e, enable))
  BY DEF do_enable
<1> DEFINE r == enable_effector(State, h, e, enable)
<1>3. Kept(State, r, {}, {})
  BY InvIs, Enable
<1>4. Becomes(r) /\ calls' \in {<<>>, Error} /\ fuel' \in Nat
  BY <1>1, <1>2, InvIs, RunsIs
<1> HIDE DEF r
<1>5. Does(State, h, r, {})
  BY <1>3, DoesKept
<1>6. State' = r
  BY <1>3, <1>4, Became DEF Kept, Good
<1> QED BY <1>1, <1>4, <1>5, <1>6, CommandKeeps

LEMMA NoteKeeps ==
  ASSUME EffectorInv, NEW h \in DOMAIN thd, do_note(h)
  PROVE  EffectorInv'
<1>1. Runs(h) /\ fuel > 0 /\ fuel' = fuel - 1 /\ classes' = classes /\ calls' = calls
  BY DEF do_note, Command
<1>2. PICK time \in Times, length \in {0, 1}, k \in Track, ch \in Chan :
        Becomes(PutNote(State, h, time, length, k, ch))
  BY DEF do_note
<1> DEFINE r == PutNote(State, h, time, length, k, ch)
<1>3. time \in Int /\ length \in Int
  BY ProgramAssumption
<1>4. Kept(State, r, {}, {})
  BY <1>3, InvIs, PutNoteKeeps
<1>5. Becomes(r) /\ calls' \in {<<>>, Error} /\ fuel' \in Nat
  BY <1>1, <1>2, InvIs, RunsIs
<1> HIDE DEF r
<1>6. Does(State, h, r, {})
  BY <1>4, DoesKept
<1>7. State' = r
  BY <1>4, <1>5, Became DEF Kept, Good
<1> QED BY <1>1, <1>5, <1>6, <1>7, CommandKeeps

LEMMA EventKeeps ==
  ASSUME EffectorInv, NEW h \in DOMAIN thd, NEW type \in {"ctrl", "timesig"}, Puts(h, type)
  PROVE  EffectorInv'
<1>1. Runs(h) /\ fuel > 0 /\ fuel' = fuel - 1 /\ classes' = classes /\ calls' = calls
  BY DEF Puts, Command
<1>2. PICK time \in Times, k \in Track, ch \in Chan :
        Becomes(PutEvent(State, h, Event(type, time, k, ch)))
  BY DEF Puts
<1> DEFINE e == Event(type, time, k, ch)  r == PutEvent(State, h, e)
<1>3. e \in EventRec /\ e.partner = 0 /\ e.at = "new"
  <2>1. time \in Int /\ type \in Type
    BY ProgramAssumption DEF Type
  <2> QED BY <2>1, EventIs
<1>4. Becomes(r) /\ calls' \in {<<>>, Error} /\ fuel' \in Nat
  BY <1>1, <1>2, InvIs, RunsIs
<1> HIDE DEF e
<1>5. Kept(State, r, {}, {})
  BY <1>3, InvIs, PutEventKeeps
<1> HIDE DEF r
<1>6. Does(State, h, r, {})
  BY <1>5, DoesKept
<1>7. State' = r
  BY <1>4, <1>5, Became DEF Kept, Good
<1> QED BY <1>1, <1>4, <1>6, <1>7, CommandKeeps

LEMMA SameBuffers ==
  ASSUME NEW s, NEW X, Good(s, X), NEW r, Typed(r), r.ev = s.ev, DOMAIN r.eff = DOMAIN s.eff,
         \A e \in DOMAIN s.eff : r.eff[e].buf = s.eff[e].buf
  PROVE  Good(r, X)
<1>1. Places(r) = Places(s) /\ \A p \in Places(s) : InPlace(r, p) = InPlace(s, p)
  BY DEF Places, InPlace
<1>2. Buffered(r)
  BY <1>1 DEF Buffered, Good
<1> QED BY <1>2 DEF Good

(* The through bits of an effector.                                        *)
LEMMA ThroughKeeps ==
  ASSUME EffectorInv, NEW h \in DOMAIN thd, Runs(h), NEW e \in ToSet(thd[h].effs),
         NEW f \in EffRec, f.thd = eff[e].thd, f.live = eff[e].live, f.class = eff[e].class,
         f.buf = eff[e].buf,
         ev' = ev, thd' = thd, eff' = [eff EXCEPT ![e] = f], calls' = calls,
         classes' = classes, fuel' \in Nat
  PROVE  EffectorInv'
<1> DEFINE r == [ev |-> ev, thd |-> thd, eff |-> [eff EXCEPT ![e] = f]]
<1>1. e \in DOMAIN eff /\ ev \in Seq(EventRec)
  BY InvIs, RunsIs, TypedIs DEF Typed, EffsOf
<1>2. /\ Typed(r) /\ SameTree(State, r) /\ r.eff[e] = f
      /\ \A d \in DOMAIN eff \ {e} : r.eff[d] = eff[d]
  BY <1>1, InvIs, OneChanged
<1>3. State' = r /\ r.ev = ev
  BY DEF State
<1> HIDE DEF r
<1>4. Good(r, {})
  <2>1. DOMAIN r.eff = DOMAIN eff
    BY <1>2, InvIs DEF SameTree
  <2>2. \A d \in DOMAIN eff : r.eff[d].buf = eff[d].buf
    BY <1>2
  <2> QED BY <2>1, <2>2, <1>2, <1>3, InvIs, SameBuffers
<1>5. Does(State, h, r, {})
  BY <1>1, <1>2, <1>3, <1>4, InvIs DEF Does, Stay
<1>6. calls' \in {<<>>, Error}
  BY RunsIs
<1> QED BY <1>3, <1>5, <1>6, CommandKeeps

LEMMA TypesKeeps ==
  ASSUME EffectorInv, NEW h \in DOMAIN thd, do_eff_etypes(h)
  PROVE  EffectorInv'
<1>1. /\ Runs(h) /\ fuel > 0 /\ fuel' = fuel - 1
      /\ classes' = classes /\ calls' = calls /\ ev' = ev /\ thd' = thd
  BY DEF do_eff_etypes, Command
<1>2. PICK e \in ToSet(thd[h].effs) \ {1}, es \in {{"ctrl"}, {"on", "off"}} :
        eff' = [eff EXCEPT ![e].ethru = IF es \subseteq @ THEN @ \ es ELSE @ \cup es]
  BY DEF do_eff_etypes
<1> DEFINE b == IF es \subseteq eff[e].ethru THEN eff[e].ethru \ es ELSE eff[e].ethru \cup es
           f == [eff[e] EXCEPT !.ethru = b]
<1>3. eff' = [eff EXCEPT ![e] = f]
  BY <1>2
<1>4. e \in DOMAIN eff /\ eff[e] \in EffRec
  BY <1>1, InvIs, RunsIs, TypedIs DEF Typed, EffsOf
<1>5. b \in SUBSET Type
  <2>1. es \subseteq Type
    BY DEF Type
  <2>2. eff[e].ethru \in SUBSET Type
    BY <1>4 DEF EffRec
  <2> QED BY <2>1, <2>2
<1> HIDE DEF b
<1>6. /\ f \in EffRec /\ f.thd = eff[e].thd /\ f.live = eff[e].live /\ f.class = eff[e].class
      /\ f.buf = eff[e].buf
  BY <1>4, <1>5 DEF EffRec
<1> HIDE DEF f
<1>7. fuel' \in Nat
  BY <1>1, InvIs
<1> QED BY <1>1, <1>3, <1>6, <1>7, ThroughKeeps

LEMMA ChannelsKeeps ==
  ASSUME EffectorInv, NEW h \in DOMAIN thd, do_eff_chs(h)
  PROVE  EffectorInv'
<1>1. /\ Runs(h) /\ fuel > 0 /\ fuel' = fuel - 1
      /\ classes' = classes /\ calls' = calls /\ ev' = ev /\ thd' = thd
  BY DEF do_eff_chs, Command
<1>2. PICK e \in ToSet(thd[h].effs) \ {1}, ch \in Chan :
        eff' = [eff EXCEPT ![e].cthru = IF ch \in @ THEN @ \ {ch} ELSE @ \cup {ch}]
  BY DEF do_eff_chs
<1> DEFINE b == IF ch \in eff[e].cthru THEN eff[e].cthru \ {ch} ELSE eff[e].cthru \cup {ch}
           f == [eff[e] EXCEPT !.cthru = b]
<1>3. eff' = [eff EXCEPT ![e] = f]
  BY <1>2
<1>4. e \in DOMAIN eff /\ eff[e] \in EffRec
  BY <1>1, InvIs, RunsIs, TypedIs DEF Typed, EffsOf
<1>5. b \in SUBSET Chan
  <2>1. eff[e].cthru \in SUBSET Chan
    BY <1>4 DEF EffRec
  <2> QED BY <2>1
<1> HIDE DEF b
<1>6. /\ f \in EffRec /\ f.thd = eff[e].thd /\ f.live = eff[e].live /\ f.class = eff[e].class
      /\ f.buf = eff[e].buf
  BY <1>4, <1>5 DEF EffRec
<1> HIDE DEF f
<1>7. fuel' \in Nat
  BY <1>1, InvIs
<1> QED BY <1>1, <1>3, <1>6, <1>7, ThroughKeeps

(* Steps that change threads only.                                         *)
LEMMA ThreadsGood ==
  ASSUME EffectorInv, NEW hs \in Seq(ThreadRec), DOMAIN thd \subseteq DOMAIN hs,
         \A h \in DOMAIN hs : ToSet(hs[h].effs) \subseteq DOMAIN eff
  PROVE  LET r == [ev |-> ev, thd |-> hs, eff |-> eff] IN Good(r, {}) /\ Typed(r)
<1> DEFINE r == [ev |-> ev, thd |-> hs, eff |-> eff]
<1>1. Typed(r)
  <2>1. ev \in Seq(EventRec) /\ eff \in Seq(EffRec)
    BY InvIs, TypedIs
  <2>2. \A e \in DOMAIN eff : eff[e].thd \in DOMAIN hs
    BY InvIs DEF Typed
  <2> QED BY <2>1, <2>2, TypedOf
<1>2. r.ev = ev /\ r.eff = eff
  OBVIOUS
<1> HIDE DEF r
<1>3. Good(r, {})
  BY <1>1, <1>2, InvIs, SameBuffers
<1> QED BY <1>1, <1>3 DEF r

LEMMA CreateKeeps ==
  ASSUME EffectorInv, NEW p \in DOMAIN thd, create_thread(p)
  PROVE  EffectorInv'
<1> DEFINE g == Len(thd) + 1
           n == thd[p].nchild + 1
           t == [thd[p] EXCEPT !.nchild = n]
           u == Thread("thread", p, thd[p].effs, thd[p].eebv, thd[p].on)
           ts == [thd EXCEPT ![p] = t]
           hs == Append(ts, u)
           r == [ev |-> ev, thd |-> hs, eff |-> eff]
<1>1. /\ Runs(p) /\ fuel > 0 /\ fuel' = fuel - 1 /\ classes' = classes /\ calls' = calls
      /\ ev' = ev /\ eff' = eff /\ thd' = hs
  BY DEF create_thread, Command
<1>2. thd \in Seq(ThreadRec) /\ thd[p] \in ThreadRec
  BY InvIs, TypedIs
<1>3. /\ t \in ThreadRec /\ t.kind = thd[p].kind /\ t.live = thd[p].live /\ t.parent = thd[p].parent
      /\ t.effs = thd[p].effs /\ t.nchild = n
  <2>1. n \in Int
    BY <1>2 DEF ThreadRec
  <2> HIDE DEF n
  <2> QED BY <2>1, <1>2 DEF ThreadRec
<1>4. u \in ThreadRec /\ u.kind = "thread" /\ u.live = TRUE /\ u.parent = p /\ u.nchild = 0
      /\ u.effs = thd[p].effs
  <2>1. /\ p \in Nat /\ thd[p].effs \in Seq(Nat) /\ thd[p].eebv \in Seq(BOOLEAN)
        /\ thd[p].on \in SUBSET Nat
    <3>1. p \in Nat
      BY <1>2
    <3>2. /\ thd[p].effs \in Seq(Nat) /\ thd[p].eebv \in Seq(BOOLEAN)
          /\ thd[p].on \in SUBSET Nat
      BY <1>2 DEF ThreadRec
    <3> QED BY <3>1, <3>2
  <2> DEFINE q == thd[p].effs  bv == thd[p].eebv  o == thd[p].on
  <2>2. q \in Seq(Nat) /\ bv \in Seq(BOOLEAN) /\ o \in SUBSET Nat
    BY <2>1
  <2> HIDE DEF q, bv, o
  <2>3. u = Thread("thread", p, q, bv, o)
    BY DEF q, bv, o
  <2>4. /\ Thread("thread", p, q, bv, o) \in ThreadRec /\ u.kind = "thread" /\ u.live = TRUE
        /\ u.parent = p /\ u.nchild = 0 /\ u.effs = q
    BY <2>1, <2>2, <2>3 DEF Thread, ThreadRec
  <2> QED BY <2>3, <2>4 DEF q
<1> HIDE DEF t, u, n
<1>5. /\ ts \in Seq(ThreadRec) /\ DOMAIN ts = DOMAIN thd /\ Len(ts) = Len(thd) /\ ts[p] = t
      /\ \A h \in DOMAIN thd \ {p} : ts[h] = thd[h]
  BY <1>2, <1>3, Changed
<1> HIDE DEF ts
<1>6. /\ hs \in Seq(ThreadRec) /\ DOMAIN hs = DOMAIN thd \cup {g} /\ hs[g] = u
      /\ \A h \in DOMAIN thd : hs[h] = ts[h]
  BY <1>4, <1>5, Added
<1> HIDE DEF hs, g
<1>7. Good(r, {}) /\ Typed(r)
  <2>1. \A h \in DOMAIN hs : \E k \in DOMAIN thd : hs[h].effs = thd[k].effs
    BY <1>3, <1>4, <1>5, <1>6
  <2>2. \A k \in DOMAIN thd : ToSet(thd[k].effs) \subseteq DOMAIN eff
    BY InvIs DEF Typed, EffsOf
  <2>3. \A h \in DOMAIN hs : ToSet(hs[h].effs) \subseteq DOMAIN eff
    BY <2>1, <2>2
  <2> QED BY <2>3, <1>6, ThreadsGood
<1>8. State' = r /\ r.thd = hs /\ r.eff = eff /\ r.ev = ev
  BY <1>1 DEF State
<1> HIDE DEF r
<1>9. Creates(State, p, r)
  <2>1. /\ g = Len(State.thd) + 1 /\ State.thd = thd /\ State.eff = eff
    BY InvIs DEF g
  <2>2. /\ DOMAIN r.thd = DOMAIN thd \cup {g} /\ r.eff = eff
    BY <1>6, <1>8
  <2>3. \A f \in DOMAIN thd \ {p} : r.thd[f] = thd[f]
    BY <1>5, <1>6, <1>8
  <2>4. r.thd[p] = t /\ r.thd[g] = u
    BY <1>5, <1>6, <1>8
  <2>5. r.thd[p].nchild = thd[p].nchild + 1
    BY <2>4, <1>3 DEF n
  <2>6. \A f \in DOMAIN thd :
          /\ r.thd[f].kind = thd[f].kind /\ r.thd[f].live = thd[f].live
          /\ r.thd[f].parent = thd[f].parent /\ r.thd[f].effs = thd[f].effs
    BY <2>3, <2>4, <1>3
  <2>7. \A f \in DOMAIN thd \ {p} : r.thd[f].nchild = thd[f].nchild
    BY <2>3
  <2> QED BY <2>1, <2>2, <2>4, <2>5, <2>6, <2>7, <1>4 DEF Creates
<1>10. CreatesFor(State, p, r)
  <2>1. CallInv(State, <<>>) /\ p \in LiveOf(State) /\ State.thd[p].kind = "thread"
    BY <1>1, RunsIs
  <2> QED BY <2>1, <1>9, InvIs DEF CreatesFor
<1>11. Tree(r) /\ Lists(r) /\ CallInv(r, <<>>)
  BY <1>10, CreateTree, CreateLists, CreateCalls
<1>12. calls' = <<>> /\ <<>> \in Seq(CallRec)
  BY <1>1, RunsIs
<1>13. Continues(r, calls')
  BY <1>7, <1>8, <1>11, <1>12, InvIs DEF Continues
<1>14. fuel' \in Nat
  BY <1>1, InvIs
<1> QED BY <1>1, <1>8, <1>13, <1>14, Follows

LEMMA EndKeeps ==
  ASSUME EffectorInv, NEW h \in DOMAIN thd, end_thread(h)
  PROVE  EffectorInv'
<1> DEFINE c == [op |-> "delete", of |-> h, queue |-> <<>>]
<1>1. /\ Runs(h) /\ fuel' = fuel /\ classes' = classes /\ calls' = <<c>>
      /\ ev' = ev /\ eff' = eff /\ thd' = thd
  BY DEF end_thread
<1>2. State' = State
  BY <1>1 DEF State
<1>3. CallInv(State, calls')
  <2>1. CallInv(State, <<>>) /\ h \in LiveOf(State) /\ State.thd[h].kind = "thread"
    BY <1>1, RunsIs
  <2> QED BY <2>1, <1>1, InvIs, DeleteBegins
<1>4. calls' \in Seq(CallRec) /\ calls'[1].queue = <<>>
  <2>1. h \in Nat
    BY InvIs, TypedIs
  <2>2. c \in CallRec
    BY <2>1 DEF CallRec
  <2> QED BY <2>2, <1>1
<1>5. Queued(ev, calls'[1].queue)
  BY <1>4 DEF Queued
<1>6. Continues(State, calls')
  BY <1>3, <1>4, <1>5, InvIs DEF Continues
<1> QED BY <1>1, <1>2, <1>6, InvIs, Follows

-----------------------------------------------------------------------------
(* The calls.                                                              *)
LEMMA CallIs ==
  ASSUME EffectorInv, NEW op \in {"delete", "detach"}, Within(op)
  PROVE  /\ calls # <<>> /\ calls # Error /\ CallInv(State, calls)
         /\ calls[1] = Call /\ Call.op = op /\ Call \in CallRec /\ 1 \in DOMAIN calls
         /\ Queued(ev, Call.queue)
         /\ op = "delete" => Called \in LiveOf(State) /\ Called \in DOMAIN thd
         /\ op = "detach" => /\ Call.of \in DOMAIN eff /\ eff[Call.of].live
                             /\ eff[Call.of].thd \in LiveOf(State)
<1>1. calls # <<>> /\ Call.op = op /\ calls[1] = Call
  BY DEF Within, Call
<1>2. calls # Error
  <2>1. Error[1].op = "error"
    BY DEF Error
  <2> QED BY <1>1, <2>1
<1>3. CallInv(State, calls) /\ calls \in Seq(CallRec)
  BY <1>2, InvIs
<1>4. Call \in CallRec /\ 1 \in DOMAIN calls
  BY <1>1, <1>3
<1>5. Queued(ev, Call.queue)
  BY <1>1 DEF EffectorInv, EventInv, Queues
<1>6. op = "delete" => Called \in LiveOf(State) /\ Called \in DOMAIN thd
  BY <1>1, <1>3, <1>4, InvIs DEF CallInv, Chained, Called, LiveOf
<1>7. op = "detach" => Call.of \in DOMAIN eff /\ eff[Call.of].live
  BY <1>1, <1>3, <1>4, InvIs DEF CallInv, Chained
<1>8. op = "detach" => eff[Call.of].thd \in LiveOf(State)
  BY <1>7, InvIs DEF Lists
<1> QED BY <1>1, <1>2, <1>3, <1>4, <1>5, <1>6, <1>7, <1>8

(* A thread that has threads below it is at the bottom of the chain.       *)
LEMMA PostponedCalls ==
  ASSUME NEW s, Typed(s), Tree(s), NEW cs, CallInv(s, cs), cs \in Seq(CallRec), cs # <<>>,
         cs[1].op = "delete", s.thd[cs[1].of].nchild > 0
  PROVE  Tail(cs) = <<>> /\ CallInv(s, <<>>)
<1> DEFINE h == cs[1].of
<1>0. Chained(s, cs) /\ Attached(s, cs) /\ Detaching(s, cs) /\ Counted(s, cs)
  BY DEF CallInv
<1>1. Len(cs) \in Nat \ {0} /\ DOMAIN cs = 1..Len(cs) /\ 1 \in DOMAIN cs
  OBVIOUS
<1>2. h \in LiveOf(s) /\ h \in DOMAIN s.thd
  BY <1>0, <1>1 DEF Chained, LiveOf
<1>3. s.thd[h].nchild = Cardinality(ChildrenOf(s, h)) /\ s.thd[h].nchild > 0
  <2>1. s.thd[h].nchild \in Int
    BY <1>2, TypedIs DEF ThreadRec
  <2> QED BY <2>1, <1>0, <1>2 DEF Counted
<1> HIDE DEF h
<1>4. ChildrenOf(s, h) # {}
  <2>1. Cardinality({}) = 0
    BY FS_EmptySet
  <2>2. Cardinality(ChildrenOf(s, h)) # 0
    BY <1>3
  <2> QED BY <2>1, <2>2
<1>5. s.thd[h].kind = "thread"
  <2>1. PICK g \in ChildrenOf(s, h) : TRUE
    BY <1>4
  <2>2. g \in DOMAIN s.thd /\ s.thd[g].kind = "thread" /\ s.thd[g].parent = h
    BY <2>1 DEF ChildrenOf, LiveOf
  <2>3. g # 1
    <3>1. s.thd[1].parent = 0 /\ h # 0
      BY <1>2, TypedIs DEF Tree
    <3> QED BY <3>1, <2>2
  <2> QED BY <2>2, <2>3 DEF Tree
<1>6. Len(cs) = 1
  <2> SUFFICES ASSUME Len(cs) # 1
               PROVE  FALSE
    OBVIOUS
  <2>1. 1 \in DOMAIN cs \ {Len(cs)}
    BY <1>1
  <2>2. s.thd[h].kind = "effector"
    BY <2>1, <1>0 DEF Chained, h
  <2> QED BY <2>2, <1>5
<1>7. Tail(cs) = <<>>
  <2>1. Tail(cs) \in Seq(CallRec) /\ Len(Tail(cs)) = 0
    BY <1>6, Rested
  <2> QED BY <2>1, EmptySeq
<1>8. DOMAIN cs = {1}
  BY <1>1, <1>6
<1>9. Chained(s, <<>>) /\ Detaching(s, <<>>)
  BY DEF Chained, Detaching
<1>10. Attached(s, <<>>)
  <2> SUFFICES ASSUME NEW e \in DOMAIN s.eff, s.eff[e].thd \in LiveOf(s)
               PROVE  e \in EffsOf(s, OwnerOf(s, e))
    BY DEF Attached
  <2>1. ~Detaches(cs, e, s.eff[e].thd)
    <3>1. s.thd[s.eff[e].thd].kind = "effector"
      BY DEF Tree
    <3>2. s.eff[e].thd # h
      BY <3>1, <1>5
    <3> QED BY <3>2, <1>8 DEF Detaches, h
  <2> QED BY <2>1, <1>0 DEF Attached
<1>11. Counted(s, <<>>)
  <2> SUFFICES ASSUME NEW f \in LiveOf(s)
               PROVE  s.thd[f].nchild = Cardinality(ChildrenOf(s, f))
    BY DEF Counted
  <2>1. CASE f = h
    BY <2>1, <1>3
  <2>2. CASE f # h
    BY <2>2, <1>0, <1>8 DEF Counted, h
  <2> QED BY <2>1, <2>2
<1> QED BY <1>7, <1>9, <1>10, <1>11 DEF CallInv

LEMMA PostponeKeeps ==
  ASSUME EffectorInv, postpone
  PROVE  EffectorInv'
<1> DEFINE h == Called
           t == [thd[h] EXCEPT !.exiting = TRUE]
           hs == [thd EXCEPT ![h] = t]
           r == [ev |-> ev, thd |-> hs, eff |-> eff]
<1>1. /\ Within("delete") /\ thd[h].nchild > 0 /\ thd' = hs /\ calls' = Tail(calls)
      /\ classes' = classes /\ ev' = ev /\ eff' = eff /\ fuel' = fuel
  BY DEF postpone, HasChildren
<1>2. /\ calls # <<>> /\ CallInv(State, calls) /\ calls[1] = Call /\ Call.op = "delete"
      /\ h \in LiveOf(State) /\ h \in DOMAIN thd
  BY <1>1, CallIs
<1>3. thd \in Seq(ThreadRec) /\ thd[h] \in ThreadRec
  BY <1>2, InvIs, TypedIs
<1> HIDE DEF h
<1>4. /\ t \in ThreadRec /\ t.kind = thd[h].kind /\ t.live = thd[h].live /\ t.parent = thd[h].parent
      /\ t.effs = thd[h].effs /\ t.nchild = thd[h].nchild
  BY <1>3 DEF ThreadRec
<1> HIDE DEF t
<1>5. /\ hs \in Seq(ThreadRec) /\ DOMAIN hs = DOMAIN thd /\ hs[h] = t
      /\ \A f \in DOMAIN thd \ {h} : hs[f] = thd[f]
  BY <1>2, <1>3, <1>4, Changed
<1> HIDE DEF hs
<1>6. Good(r, {}) /\ Typed(r)
  <2>1. \A f \in DOMAIN hs : hs[f].effs = thd[f].effs
    BY <1>4, <1>5
  <2>2. \A f \in DOMAIN thd : ToSet(thd[f].effs) \subseteq DOMAIN eff
    BY InvIs DEF Typed, EffsOf
  <2> QED BY <2>1, <2>2, <1>5, ThreadsGood
<1>7. State' = r /\ r.thd = hs /\ r.eff = eff /\ r.ev = ev
  BY <1>1 DEF State
<1> HIDE DEF r
<1>8. SameTree(State, r)
  BY <1>4, <1>5, <1>7, InvIs DEF SameTree
<1>9. Tree(r) /\ Lists(r)
  BY <1>8, InvIs, SameThreads
<1>10. Tail(calls) = <<>> /\ CallInv(State, <<>>)
  <2>1. State.thd[calls[1].of].nchild > 0
    BY <1>1, <1>2, InvIs DEF Called, h
  <2> QED BY <2>1, <1>2, InvIs, PostponedCalls
<1>11. <<>> \in Seq(CallRec)
  OBVIOUS
<1>12. CallInv(r, <<>>)
  <2>1. SameCalls(<<>>, <<>>)
    BY <1>11, SameCallsAs
  <2> QED BY <2>1, <1>8, <1>10, InvIs, SameCallInv
<1>13. Continues(r, calls')
  BY <1>1, <1>6, <1>7, <1>9, <1>10, <1>11, <1>12, InvIs DEF Continues
<1> QED BY <1>1, <1>7, <1>13, InvIs, Follows

LEMMA DeletesIs ==
  ASSUME EffectorInv, Within("delete"), ~HasChildren(Called)
  PROVE  /\ DeletesNow(State, Called, calls)
         /\ calls # <<>> /\ calls \in Seq(CallRec)
         /\ Called \in LiveOf(State) /\ Called \in DOMAIN thd
<1>1. /\ calls # <<>> /\ CallInv(State, calls) /\ calls[1] = Call /\ Call.op = "delete"
      /\ Called \in LiveOf(State) /\ Called \in DOMAIN thd
  BY CallIs
<1>2. ~(State.thd[Called].nchild > 0)
  BY InvIs DEF HasChildren
<1> QED BY <1>1, <1>2, InvIs DEF DeletesNow, Called

LEMMA DetachAllKeeps ==
  ASSUME EffectorInv, detach_all_effectors
  PROVE  EffectorInv'
<1> DEFINE h == Called
           e == thd[h].effs[1]
           q == Tail(thd[h].effs)
           bv == Below(thd[h].eebv, 1)
           o == thd[h].on \ {e}
           t == [thd[h] EXCEPT !.effs = q, !.eebv = bv, !.on = o]
           hs == [thd EXCEPT ![h] = t]
           c == [op |-> "detach", of |-> e, queue |-> <<>>]
           r == [ev |-> ev, thd |-> hs, eff |-> eff]
<1>1. /\ Within("delete") /\ ~HasChildren(Called) /\ HasOwn(Called)
      /\ classes' = classes /\ ev' = ev /\ eff' = eff /\ fuel' = fuel
  BY DEF detach_all_effectors
<1>2. thd' = hs /\ calls' = <<c>> \o calls
  BY DEF detach_all_effectors
<1>3. /\ DeletesNow(State, h, calls) /\ calls \in Seq(CallRec)
      /\ h \in LiveOf(State) /\ h \in DOMAIN thd
  BY <1>1, DeletesIs
<1>4. thd[h].effs # <<>> /\ OwnerOf(State, e) = h
  BY <1>1, InvIs DEF HasOwn, OwnerOf
<1> HIDE DEF h
<1>5. thd \in Seq(ThreadRec) /\ thd[h] \in ThreadRec
  BY <1>3, InvIs, TypedIs
<1>6. thd[h].effs \in Seq(Nat) /\ thd[h].eebv \in Seq(BOOLEAN) /\ thd[h].on \in SUBSET Nat
  BY <1>5 DEF ThreadRec
<1>7. /\ q \in Seq(Nat) /\ e \in Nat
      /\ \A j \in DOMAIN q : j + 1 \in DOMAIN thd[h].effs /\ q[j] = thd[h].effs[j + 1]
  BY <1>4, <1>6, Rested
<1>8. bv \in Seq(BOOLEAN)
  BY <1>6 DEF Below
<1>9. o \in SUBSET Nat
  BY <1>6
<1> DEFINE old == thd[h].effs
<1>10. q = Tail(old) /\ e = old[1]
  OBVIOUS
<1> HIDE DEF q, bv, o, e
<1>11. /\ t \in ThreadRec /\ t.kind = thd[h].kind /\ t.live = thd[h].live
       /\ t.parent = thd[h].parent /\ t.effs = q /\ t.nchild = thd[h].nchild
  BY <1>5, <1>7, <1>8, <1>9 DEF ThreadRec
<1> HIDE DEF t
<1>12. /\ hs \in Seq(ThreadRec) /\ DOMAIN hs = DOMAIN thd /\ hs[h] = t
       /\ \A f \in DOMAIN thd \ {h} : hs[f] = thd[f]
  BY <1>3, <1>5, <1>11, Changed
<1> HIDE DEF hs
<1>13. Good(r, {}) /\ Typed(r)
  <2>1. \A f \in DOMAIN thd : ToSet(thd[f].effs) \subseteq DOMAIN eff
    BY InvIs DEF Typed, EffsOf
  <2>2. ToSet(q) \subseteq ToSet(thd[h].effs)
    BY <1>7 DEF ToSet
  <2>3. \A f \in DOMAIN hs : ToSet(hs[f].effs) \subseteq DOMAIN eff
    BY <2>1, <2>2, <1>3, <1>11, <1>12
  <2> QED BY <2>3, <1>12, ThreadsGood
<1>14. State' = r /\ r.thd = hs /\ r.eff = eff /\ r.ev = ev
  BY <1>1, <1>2 DEF State
<1> HIDE DEF r
<1>15. Unlists(State, h, r)
  <2>1. \A f \in DOMAIN thd :
          /\ hs[f].kind = thd[f].kind /\ hs[f].live = thd[f].live
          /\ hs[f].parent = thd[f].parent /\ hs[f].nchild = thd[f].nchild
    BY <1>11, <1>12
  <2>2. hs[h].effs = Tail(thd[h].effs)
    BY <1>10, <1>11, <1>12
  <2> QED BY <2>1, <2>2, <1>12, <1>14, InvIs DEF Unlists
<1>16. UnlistsFor(State, h, r, calls)
  BY <1>3, <1>4, <1>10, <1>15, InvIs DEF UnlistsFor
<1>17. Tree(r) /\ Lists(r)
  BY <1>16, UnlistsThreads
<1>18. Pushes(calls, c, calls') /\ c.op = "detach" /\ c.of = e /\ c.queue = <<>>
  <2>1. c \in CallRec
    BY <1>7 DEF CallRec
  <2> QED BY <2>1, <1>2, <1>3 DEF Pushes
<1> HIDE DEF c
<1>19. CallInv(r, calls')
  <2>1. e = State.thd[h].effs[1]
    BY <1>10, InvIs
  <2> QED BY <2>1, <1>16, <1>18, UnlistsCalls
<1>20. calls' \in Seq(CallRec) /\ calls'[1].queue = <<>>
  BY <1>18, PushedCalls
<1>21. Queued(r.ev, calls'[1].queue)
  BY <1>20 DEF Queued
<1>22. Continues(r, calls')
  BY <1>13, <1>14, <1>17, <1>19, <1>20, <1>21, InvIs DEF Continues
<1> QED BY <1>1, <1>14, <1>22, InvIs, Follows

LEMMA DeleteKeeps ==
  ASSUME EffectorInv, delete_thread
  PROVE  EffectorInv'
<1> DEFINE h == Called
           p == thd[h].parent
           n == thd[p].nchild - 1
           t == [thd[h] EXCEPT !.live = FALSE]
           u == [thd[p] EXCEPT !.nchild = n]
           c == [op |-> "delete", of |-> p, queue |-> <<>>]
           r == [ev |-> ev, thd |-> thd', eff |-> eff]
<1>1. /\ Within("delete") /\ ~HasChildren(Called) /\ ~HasOwn(Called)
      /\ classes' = classes /\ ev' = ev /\ eff' = eff /\ fuel' = fuel
  BY DEF delete_thread
<1>2. /\ p = 0 => thd' = [thd EXCEPT ![h] = t] /\ calls' = Tail(calls)
      /\ p # 0 => /\ thd' = [thd EXCEPT ![h].live = FALSE, ![p].nchild = @ - 1]
                  /\ calls' = IF thd[p].nchild = 1 /\ thd[p].exiting
                              THEN <<c>> \o Tail(calls) ELSE Tail(calls)
  BY DEF delete_thread
<1>3. /\ DeletesNow(State, h, calls) /\ calls \in Seq(CallRec) /\ calls # <<>>
      /\ h \in LiveOf(State) /\ h \in DOMAIN thd
  BY <1>1, DeletesIs
<1>4. State.thd[h].effs = <<>> \/ OwnerOf(State, State.thd[h].effs[1]) # h
  BY <1>1, InvIs DEF HasOwn, OwnerOf
<1> HIDE DEF h
<1>5. /\ thd \in Seq(ThreadRec) /\ thd[h] \in ThreadRec /\ DOMAIN thd = 1..Len(thd)
      /\ 0 \notin DOMAIN thd
  BY <1>3, InvIs, TypedIs
<1>6. p = 0 \/ (p \in DOMAIN thd /\ p # h /\ h # 1)
  <2>1. CASE h = 1
    BY <2>1, InvIs DEF Tree
  <2>2. CASE h # 1
    <3>1. p \in DOMAIN thd /\ p < h
      BY <2>2, <1>3, InvIs DEF Tree
    <3> QED BY <3>1, <2>2, <1>5
  <2> QED BY <2>1, <2>2
<1>7. /\ t \in ThreadRec /\ t.kind = thd[h].kind /\ t.live = FALSE /\ t.parent = p
      /\ t.effs = thd[h].effs /\ t.nchild = thd[h].nchild
  BY <1>5 DEF ThreadRec
<1>8. p # 0 =>
        /\ u \in ThreadRec /\ u.kind = thd[p].kind /\ u.live = thd[p].live
        /\ u.parent = thd[p].parent /\ u.effs = thd[p].effs /\ u.nchild = n
  <2> SUFFICES ASSUME p # 0
               PROVE  /\ u \in ThreadRec /\ u.kind = thd[p].kind /\ u.live = thd[p].live
                      /\ u.parent = thd[p].parent /\ u.effs = thd[p].effs /\ u.nchild = n
    OBVIOUS
  <2>1. thd[p] \in ThreadRec
    BY <1>6, InvIs, TypedIs
  <2>2. n \in Int
    BY <2>1 DEF ThreadRec
  <2> HIDE DEF n
  <2> QED BY <2>1, <2>2 DEF ThreadRec
<1>9. p # 0 => thd' = [[thd EXCEPT ![h] = t] EXCEPT ![p] = u]
  BY <1>2, <1>6
<1> HIDE DEF t, u, n, p
<1> DEFINE ts == [thd EXCEPT ![h] = t]
<1>10. /\ ts \in Seq(ThreadRec) /\ DOMAIN ts = DOMAIN thd /\ ts[h] = t
       /\ \A f \in DOMAIN thd \ {h} : ts[f] = thd[f]
  BY <1>3, <1>5, <1>7, Changed
<1>11. p # 0 => thd' = [ts EXCEPT ![p] = u]
  BY <1>9
<1>12. p = 0 => thd' = ts
  BY <1>2
<1> HIDE DEF ts
<1>13. /\ thd' \in Seq(ThreadRec) /\ DOMAIN thd' = DOMAIN thd /\ thd'[h] = t
       /\ p # 0 => thd'[p] = u
       /\ \A f \in DOMAIN thd \ {h, p} : thd'[f] = thd[f]
  <2>1. CASE p = 0
    BY <2>1, <1>10, <1>12
  <2>2. CASE p # 0
    <3>1. p \in DOMAIN ts /\ p # h /\ u \in ThreadRec
      BY <2>2, <1>6, <1>8, <1>10
    <3>2. /\ thd' \in Seq(ThreadRec) /\ DOMAIN thd' = DOMAIN ts /\ thd'[p] = u
          /\ \A f \in DOMAIN ts \ {p} : thd'[f] = ts[f]
      BY <2>2, <3>1, <1>10, <1>11, Changed
    <3> QED BY <3>1, <3>2, <1>3, <1>10
  <2> QED BY <2>1, <2>2
<1>14. State' = r /\ r.thd = thd' /\ r.eff = eff /\ r.ev = ev
  BY <1>1 DEF State
<1>15. Dies(State, h, r)
  <2>1. ASSUME NEW f \in DOMAIN thd
        PROVE  /\ thd'[f].kind = thd[f].kind /\ thd'[f].parent = thd[f].parent
               /\ thd'[f].effs = thd[f].effs
               /\ thd'[f].live = (f # h /\ thd[f].live)
               /\ thd'[f].nchild = IF f = p THEN thd[f].nchild - 1 ELSE thd[f].nchild
    <3>1. CASE f = h
      BY <3>1, <1>3, <1>5, <1>6, <1>7, <1>13 DEF p
    <3>2. CASE f # h
      <4>1. thd[f].live \in BOOLEAN
        BY InvIs, TypedIs DEF ThreadRec
      <4>2. CASE f = p
        <5>1. p # 0
          BY <4>2, <1>5
        <5>2. thd'[f] = u /\ u.nchild = thd[p].nchild - 1
          BY <5>1, <4>2, <1>8, <1>13 DEF n
        <5>3. u.kind = thd[p].kind /\ u.live = thd[p].live /\ u.parent = thd[p].parent
              /\ u.effs = thd[p].effs
          BY <5>1, <1>8
        <5> QED BY <5>2, <5>3, <4>1, <4>2, <3>2
      <4>3. CASE f # p
        BY <4>1, <4>3, <3>2, <1>13
      <4> QED BY <4>2, <4>3
    <3> QED BY <3>1, <3>2
  <2>2. State.thd[h].parent = p
    BY InvIs DEF p
  <2> QED BY <2>1, <2>2, <1>13, <1>14, InvIs DEF Dies
<1> HIDE DEF r
<1>16. DiesFor(State, h, r, calls)
  BY <1>3, <1>4, <1>15 DEF DiesFor
<1>17. Good(r, {}) /\ Typed(r)
  <2>1. \A f \in DOMAIN thd' : thd'[f].effs = thd[f].effs
    BY <1>13, <1>14, <1>15, InvIs DEF Dies
  <2>2. \A f \in DOMAIN thd : ToSet(thd[f].effs) \subseteq DOMAIN eff
    BY InvIs DEF Typed, EffsOf
  <2>3. \A f \in DOMAIN thd' : ToSet(thd'[f].effs) \subseteq DOMAIN eff
    BY <2>1, <2>2, <1>13
  <2> DEFINE hs == thd'
  <2>4. hs \in Seq(ThreadRec) /\ DOMAIN thd \subseteq DOMAIN hs
        /\ \A f \in DOMAIN hs : ToSet(hs[f].effs) \subseteq DOMAIN eff
    BY <2>3, <1>13
  <2>5. r = [ev |-> ev, thd |-> hs, eff |-> eff]
    BY DEF r
  <2> HIDE DEF hs
  <2> QED BY <2>4, <2>5, ThreadsGood
<1>18. Tree(r) /\ Lists(r)
  BY <1>16, DiesThreads
<1>19. CallInv(r, Tail(calls))
  BY <1>16, DiesCalls
<1>20. CASE calls' = Tail(calls)
  <2>1. calls' \in Seq(CallRec)
    BY <1>20, <1>3, Rested
  <2>2. calls' # <<>> => calls'[1].queue = <<>>
    <3> SUFFICES ASSUME calls' # <<>>
                 PROVE  calls'[1].queue = <<>>
      OBVIOUS
    <3>1. 1 \in DOMAIN calls'
      BY <2>1
    <3>2. 2 \in DOMAIN calls /\ calls'[1] = calls[2]
      BY <3>1, <1>3, <1>20, Rested
    <3> QED BY <3>2, <1>3, DeletesSets
  <2>3. calls' # <<>> => Queued(r.ev, calls'[1].queue)
    BY <2>2 DEF Queued
  <2>4. Continues(r, calls')
    BY <2>1, <2>3, <1>14, <1>17, <1>18, <1>19, <1>20, InvIs DEF Continues
  <2> QED BY <2>4, <1>1, <1>14, InvIs, Follows
<1>21. CASE p # 0 /\ thd[p].nchild = 1 /\ calls' = <<c>> \o Tail(calls)
  <2>1. p \in DOMAIN thd /\ h # 1
    BY <1>21, <1>6
  <2>2. State.thd[h].kind = "thread" /\ Len(calls) = 1
    <3>1. State.thd[h].parent = p /\ State.thd[p].nchild = 1
      BY <1>21, InvIs DEF p
    <3> QED BY <3>1, <1>3, NextCall
  <2>3. Tail(calls) = <<>>
    <3>1. Tail(calls) \in Seq(CallRec) /\ Len(Tail(calls)) = 0
      BY <2>2, <1>3, Rested
    <3> QED BY <3>1, EmptySeq
  <2>4. calls' = <<c>> /\ CallInv(r, <<>>)
    <3>1. calls' = <<c>> \o <<>> /\ CallInv(r, <<>>)
      BY <2>3, <1>19, <1>21
    <3>2. ASSUME NEW d
          PROVE  <<d>> \o <<>> = <<d>>
      OBVIOUS
    <3> HIDE DEF c
    <3> QED BY <3>1, <3>2
  <2>5. p \in LiveOf(r) /\ r.thd[p].kind = "thread"
    <3>1. h \in DOMAIN State.thd \ {1} /\ State.thd[h].live /\ State.thd[h].parent = p
      BY <2>1, <1>3, InvIs DEF LiveOf, p
    <3>2. State.thd[p].live /\ State.thd[p].kind = "thread" /\ p \in DOMAIN State.thd
      BY <2>2, <3>1, InvIs DEF Tree
    <3>3. p # h
      BY <1>6, <1>21
    <3>4. p \in DOMAIN r.thd /\ r.thd[p].kind = "thread" /\ r.thd[p].live
      BY <3>2, <3>3, <1>15 DEF Dies
    <3> QED BY <3>4 DEF LiveOf
  <2>6. CallInv(r, calls')
    BY <2>4, <2>5, <1>17, <1>18, DeleteBegins
  <2>7. calls' \in Seq(CallRec) /\ calls'[1].queue = <<>>
    <3>1. p \in Nat
      BY <2>1, <1>5
    <3>2. c \in CallRec
      BY <3>1 DEF CallRec
    <3> QED BY <3>2, <2>4
  <2>8. Queued(r.ev, calls'[1].queue)
    BY <2>7 DEF Queued
  <2>9. Continues(r, calls')
    BY <2>6, <2>7, <2>8, <1>14, <1>17, <1>18, InvIs DEF Continues
  <2> QED BY <2>9, <1>1, <1>14, InvIs, Follows
<1> QED BY <1>2, <1>20, <1>21

Requeues(cs, q, ds) == ds = [cs EXCEPT ![1].queue = q]

LEMMA Requeued ==
  ASSUME NEW cs \in Seq(CallRec), cs # <<>>, cs[1].op = "detach", NEW q \in Seq(Nat),
         NEW ds, Requeues(cs, q, ds)
  PROVE  SameCalls(cs, ds) /\ ds \in Seq(CallRec) /\ ds[1].queue = q
<1> DEFINE d == [cs[1] EXCEPT !.queue = q]
<1>1. 1 \in DOMAIN cs /\ cs[1] \in CallRec
  OBVIOUS
<1>2. d \in CallRec /\ d.op = cs[1].op /\ d.of = cs[1].of /\ d.queue = q
  BY <1>1 DEF CallRec
<1>3. ds = [cs EXCEPT ![1] = d]
  BY DEF Requeues
<1> HIDE DEF d
<1>4. /\ ds \in Seq(CallRec) /\ DOMAIN ds = DOMAIN cs /\ Len(ds) = Len(cs) /\ ds[1] = d
      /\ \A j \in DOMAIN cs \ {1} : ds[j] = cs[j]
  BY <1>1, <1>2, <1>3, Changed
<1> QED BY <1>2, <1>4 DEF SameCalls

(* A call continues: the tree as it was or an effector more.               *)
LEMMA CallContinues ==
  ASSUME EffectorInv, Within("detach"), NEW STATE r, NEW Y, State' = r,
         Does(State, eff[Call.of].thd, r, Y), NEW q \in Seq(Nat), Queued(r.ev, q),
         calls' = [calls EXCEPT ![1].queue = q], classes' = classes, fuel' = fuel
  PROVE  EffectorInv'
<1> DEFINE h == eff[Call.of].thd
<1>1. /\ calls # <<>> /\ CallInv(State, calls) /\ calls[1].op = "detach" /\ h \in LiveOf(State)
  BY CallIs
<1>2. SameCalls(calls, calls') /\ calls' \in Seq(CallRec) /\ calls'[1].queue = q
  <2>1. calls \in Seq(CallRec) /\ calls # <<>> /\ calls[1].op = "detach"
    BY <1>1, InvIs
  <2>2. Requeues(calls, q, calls')
    BY DEF Requeues
  <2> HIDE DEF h
  <2> QED BY <2>1, <2>2, Requeued
<1>3. DoesWith(State, h, r, Y)
  BY <1>1, InvIs DEF DoesWith
<1> HIDE DEF h
<1>4. /\ Good(r, {}) /\ Tree(r) /\ Lists(r)
      /\ \A e \in DOMAIN r.eff : r.eff[e].class \in classes \cup {Smfout}
  BY <1>3, DoesThreads
<1>5. CallInv(r, calls')
  BY <1>1, <1>2, <1>3, DoesCalls
<1>6. Continues(r, calls')
  BY <1>2, <1>4, <1>5 DEF Continues
<1> QED BY <1>6, InvIs, Follows

LEMMA DetachKeeps ==
  ASSUME EffectorInv, detach_effector
  PROVE  EffectorInv'
<1> DEFINE e == Call.of
           q == Collected(e).queue
           evs == [i \in DOMAIN ev |-> IF i \in ToSet(q)
                                       THEN [Collected(e).ev[i] EXCEPT !.at = "queue"]
                                       ELSE Collected(e).ev[i]]
           es == [eff EXCEPT ![e].buf = [k \in Track |-> <<>>]]
           r == [ev |-> evs, thd |-> thd, eff |-> es]
<1>1. /\ Within("detach") /\ ev' = evs /\ eff' = es /\ thd' = thd
      /\ calls' = [calls EXCEPT ![1].queue = q] /\ classes' = classes /\ fuel' = fuel
  BY DEF detach_effector
<1>2. e \in DOMAIN eff
  BY <1>1, CallIs
<1>3. Good(r, {}) /\ SameTree(State, r) /\ q \in Seq(Nat) /\ Queued(evs, q)
  BY <1>2, InvIs, Detached
<1>4. State' = r /\ r.ev = evs
  BY <1>1 DEF State
<1> HIDE DEF q, evs, es
<1> DEFINE X == DOMAIN ev
<1>5. Stay(State.ev, r.ev, X)
  <2>1. r.ev \in Seq(EventRec)
    BY <1>3, TypedIs DEF Good
  <2>2. DOMAIN r.ev = DOMAIN ev
    BY <1>4 DEF evs
  <2> HIDE DEF r
  <2> QED BY <2>1, <2>2, InvIs DEF Stay
<1> HIDE DEF r
<1>6. Does(State, eff[Call.of].thd, r, X)
  BY <1>3, <1>5 DEF Does
<1>7. Queued(r.ev, q) /\ q \in Seq(Nat)
  BY <1>3, <1>4
<1> QED BY <1>1, <1>4, <1>6, <1>7, CallContinues

LEMMA FreedDoes ==
  ASSUME NEW s, Good(s, {}), NEW h, NEW i \in DOMAIN s.ev, s.ev[i].at # "buffer",
         NEW where \in Where
  PROVE  Does(s, h, [s EXCEPT !.ev = event_free(@, i, where)], {i})
<1> DEFINE evs == event_free(s.ev, i, where)
           r == [s EXCEPT !.ev = evs]
<1>1. s.ev \in Seq(EventRec) /\ Mutual(s.ev, {})
  BY TypedIs DEF Good
<1>2. Mutual(evs, {} \ {i}) /\ Stay(s.ev, evs, {i})
  BY <1>1, EventFree
<1>3. Mutual(evs, {})
  <2>1. {} \ {i} = {}
    OBVIOUS
  <2> QED BY <2>1, <1>2
<1>4. NotBuffered(s, {i})
  BY DEF NotBuffered
<1> HIDE DEF evs
<1>5. Kept(s, r, {}, {i})
  BY <1>2, <1>3, <1>4, ChangedEvents
<1>6. r = [s EXCEPT !.ev = event_free(@, i, where)]
  BY DEF evs
<1> QED BY <1>5, <1>6, DoesKept

LEMMA OutputNow ==
  ASSUME NEW s, Good(s, {}), NEW h \in DOMAIN s.thd, NEW i \in DOMAIN s.ev,
         s.ev[i].at # "buffer"
  PROVE  Does(s, h, output_event(s, h, i), {i})
<1>1. Kept(s, output_event(s, h, i), {} \ {i}, {i})
  BY OutputKeeps
<1>2. {} \ {i} = {}
  OBVIOUS
<1> QED BY <1>1, <1>2, DoesKept

LEMMA RuleIs ==
  ASSUME NEW c \in Class, NEW e, Rules(c, e) # {}
  PROVE  c.rules[Min(Rules(c, e))].acts \subseteq Act
<1>1. c.rules \in Seq(Rule)
  BY DEF Class
<1>2. Rules(c, e) \subseteq DOMAIN c.rules /\ DOMAIN c.rules \subseteq Nat
  BY <1>1 DEF Rules
<1>3. Min(Rules(c, e)) \in DOMAIN c.rules
  BY <1>2, MinIs
<1> DEFINE k == Min(Rules(c, e))
<1> HIDE DEF k
<1>4. c.rules[k] \in Rule
  BY <1>1, <1>3 DEF k
<1>5. c.rules[k].acts \subseteq Act
  BY <1>4 DEF Rule
<1> QED BY <1>5 DEF k

LEMMA ActionDoes ==
  ASSUME EffectorInv, per_event_action
  PROVE  \E r : Becomes(r) /\ Does(State, eff[Call.of].thd, r, {Head(Call.queue)})
<1> DEFINE i == Head(Call.queue)
           c == eff[Call.of].class
           h == eff[Call.of].thd
           e == ev[i]
<1>1. /\ Within("detach") /\ Call.queue # <<>>
      /\ CASE e.type = "deleted" -> Becomes([State EXCEPT !.ev = event_free(@, i, "freed")])
          [] e.type # "deleted" /\ "BuiltIn" \in c.flags ->
               Becomes([State EXCEPT !.ev = event_free(@, i, "written")])
          [] e.type # "deleted" /\ "BuiltIn" \notin c.flags /\ Passes(c, e) ->
               Becomes(output_event(State, h, i))
          [] e.type # "deleted" /\ "BuiltIn" \notin c.flags /\ ~Passes(c, e)
               /\ Rules(c, e) = {} -> Becomes([State EXCEPT !.ev = event_free(@, i, "freed")])
          [] OTHER ->
               \E act \in c.rules[Min(Rules(c, e))].acts :
                 Becomes(Acted(State, h, i, c.rules[Min(Rules(c, e))], act))
  BY DEF per_event_action
<1>2. /\ Call.of \in DOMAIN eff /\ h \in LiveOf(State) /\ Queued(ev, Call.queue)
      /\ Call.queue \in Seq(Nat)
  BY <1>1, CallIs DEF CallRec
<1>3. h \in DOMAIN State.thd
  BY <1>2 DEF LiveOf
<1>4. i \in DOMAIN State.ev /\ State.ev[i].at # "buffer"
  <2>1. 1 \in DOMAIN Call.queue /\ i = Call.queue[1]
    <3>1. Call.queue # <<>> /\ Call.queue \in Seq(Nat)
      BY <1>1, <1>2
    <3> QED BY <3>1, Rested
  <2>2. Call.queue[1] \in DOMAIN ev /\ ev[Call.queue[1]].at = "queue"
    BY <2>1, <1>2 DEF Queued
  <2>3. State.ev = ev
    BY DEF State
  <2> HIDE DEF i, c, h, e
  <2> QED BY <2>1, <2>2, <2>3
<1>5. c \in Class /\ Good(State, {}) /\ classes \in (SUBSET Class) \ {{}}
  BY <1>2, InvIs, TypedIs DEF EffRec
<1> HIDE DEF i, c, h, e
<1>6. Does(State, h, [State EXCEPT !.ev = event_free(@, i, "freed")], {i})
  BY <1>4, <1>5, FreedDoes DEF Where
<1>7. Does(State, h, [State EXCEPT !.ev = event_free(@, i, "written")], {i})
  BY <1>4, <1>5, FreedDoes DEF Where
<1>8. Does(State, h, output_event(State, h, i), {i})
  BY <1>3, <1>4, <1>5, OutputNow
<1>9. ASSUME NEW act \in c.rules[Min(Rules(c, e))].acts, Rules(c, e) # {}
      PROVE  Does(State, h, Acted(State, h, i, c.rules[Min(Rules(c, e))], act), {i})
  <2>1. act \in Act
    BY <1>5, <1>9, RuleIs
  <2> QED BY <2>1, <1>3, <1>4, <1>5, ActedDoes
<1> DEFINE P == \E r : Becomes(r) /\ Does(State, h, r, {i})
<1>10. CASE e.type = "deleted"
  <2>1. Becomes([State EXCEPT !.ev = event_free(@, i, "freed")])
    BY <1>1, <1>10
  <2> QED BY <2>1, <1>6 DEF h, i
<1>11. CASE e.type # "deleted" /\ "BuiltIn" \in c.flags
  <2>1. Becomes([State EXCEPT !.ev = event_free(@, i, "written")])
    BY <1>1, <1>11
  <2> QED BY <2>1, <1>7 DEF h, i
<1>12. CASE e.type # "deleted" /\ "BuiltIn" \notin c.flags /\ Passes(c, e)
  <2>1. Becomes(output_event(State, h, i))
    BY <1>1, <1>12
  <2> QED BY <2>1, <1>8 DEF h, i
<1>13. CASE e.type # "deleted" /\ "BuiltIn" \notin c.flags /\ ~Passes(c, e) /\ Rules(c, e) = {}
  <2>1. Becomes([State EXCEPT !.ev = event_free(@, i, "freed")])
    BY <1>1, <1>13
  <2> QED BY <2>1, <1>6 DEF h, i
<1>14. CASE e.type # "deleted" /\ "BuiltIn" \notin c.flags /\ ~Passes(c, e) /\ Rules(c, e) # {}
  <2>1. \E act \in c.rules[Min(Rules(c, e))].acts :
          Becomes(Acted(State, h, i, c.rules[Min(Rules(c, e))], act))
    BY <1>1, <1>14
  <2>2. PICK act \in c.rules[Min(Rules(c, e))].acts :
          Becomes(Acted(State, h, i, c.rules[Min(Rules(c, e))], act))
    BY <2>1
  <2>3. Does(State, h, Acted(State, h, i, c.rules[Min(Rules(c, e))], act), {i})
    BY <1>9, <1>14, <2>2
  <2> QED BY <2>2, <2>3 DEF h, i
<1> QED BY <1>10, <1>11, <1>12, <1>13, <1>14

LEMMA ActionKeeps ==
  ASSUME EffectorInv, per_event_action
  PROVE  EffectorInv'
<1> DEFINE i == Head(Call.queue)
           q == Tail(Call.queue)
<1>1. PICK r : Becomes(r) /\ Does(State, eff[Call.of].thd, r, {i})
  BY ActionDoes
<1>2. /\ Within("detach") /\ Call.queue # <<>>
      /\ calls' = [calls EXCEPT ![1].queue = Tail(@)] /\ classes' = classes /\ fuel' = fuel
  BY DEF per_event_action
<1>3. calls' = [calls EXCEPT ![1].queue = q]
  BY <1>2 DEF Call
<1>4. State' = r
  <2>1. Typed(r)
    BY <1>1 DEF Does, Good
  <2> QED BY <2>1, <1>1, Became
<1>5. Queued(ev, Call.queue) /\ Call.queue \in Seq(Nat)
  BY <1>2, CallIs DEF CallRec
<1>6. /\ q \in Seq(Nat) /\ i = Call.queue[1] /\ 1 \in DOMAIN Call.queue
      /\ \A j \in DOMAIN q :
           j \in Nat /\ j # 0 /\ j + 1 \in DOMAIN Call.queue /\ q[j] = Call.queue[j + 1]
  BY <1>2, <1>5, Rested
<1>7. Stay(ev, r.ev, {i})
  BY <1>1, InvIs DEF Does
<1> DEFINE was == Call.queue
<1>8. Queued(ev, was) /\ i = was[1] /\ 1 \in DOMAIN was
      /\ \A j \in DOMAIN q : j \in Nat /\ j # 0 /\ j + 1 \in DOMAIN was /\ q[j] = was[j + 1]
  BY <1>5, <1>6
<1> HIDE DEF q, i, was
<1>9. Queued(r.ev, q)
  <2>1. ASSUME NEW j \in DOMAIN q
        PROVE  q[j] \in DOMAIN ev /\ ev[q[j]].at = "queue" /\ q[j] # i
    <3>1. j + 1 # 1 /\ j + 1 \in DOMAIN was /\ q[j] = was[j + 1]
      BY <1>8
    <3> QED BY <3>1, <1>8 DEF Queued
  <2>2. \A j \in DOMAIN q : q[j] \in DOMAIN r.ev /\ r.ev[q[j]].at = "queue"
    BY <2>1, <1>7 DEF Stay
  <2>3. ASSUME NEW j \in DOMAIN q, NEW k \in DOMAIN q, q[j] = q[k]
        PROVE  j = k
    <3>1. was[j + 1] = was[k + 1] /\ j + 1 \in DOMAIN was /\ k + 1 \in DOMAIN was
      BY <2>3, <1>8
    <3>2. j + 1 = k + 1
      BY <3>1, <1>8 DEF Queued
    <3>3. j \in Nat /\ k \in Nat
      BY <1>8
    <3> QED BY <3>2, <3>3
  <2> QED BY <2>2, <2>3 DEF Queued
<1> QED BY <1>1, <1>2, <1>3, <1>4, <1>6, <1>9, CallContinues

LEMMA DetachEndKeeps ==
  ASSUME EffectorInv, detach_end
  PROVE  EffectorInv'
<1> DEFINE e == Call.of
           f == [eff[e] EXCEPT !.live = FALSE]
           es == [eff EXCEPT ![e] = f]
           c == [op |-> "delete", of |-> eff[e].thd, queue |-> <<>>]
           r == [ev |-> ev, thd |-> thd, eff |-> es]
<1>1. /\ Within("detach") /\ eff' = es /\ calls' = <<c>> \o Tail(calls)
      /\ classes' = classes /\ ev' = ev /\ thd' = thd /\ fuel' = fuel
  BY DEF detach_end
<1>2. /\ calls # <<>> /\ CallInv(State, calls) /\ calls[1].op = "detach" /\ calls[1].of = e
      /\ e \in DOMAIN eff
  BY <1>1, CallIs
<1>3. calls \in Seq(CallRec)
  BY InvIs
<1> HIDE DEF e
<1>4. eff \in Seq(EffRec) /\ eff[e] \in EffRec
  BY <1>2, InvIs, TypedIs
<1>5. /\ f \in EffRec /\ f.thd = eff[e].thd /\ f.live = FALSE /\ f.class = eff[e].class
      /\ f.buf = eff[e].buf
  BY <1>4 DEF EffRec
<1> HIDE DEF f
<1>6. /\ es \in Seq(EffRec) /\ DOMAIN es = DOMAIN eff /\ es[e] = f
      /\ \A d \in DOMAIN eff \ {e} : es[d] = eff[d]
  BY <1>2, <1>4, <1>5, Changed
<1> HIDE DEF es
<1>7. \A d \in DOMAIN eff : /\ es[d].thd = eff[d].thd /\ es[d].class = eff[d].class
                            /\ es[d].buf = eff[d].buf
                            /\ es[d].live = (d # e /\ eff[d].live)
  <2>1. \A d \in DOMAIN eff : eff[d].live \in BOOLEAN
    BY InvIs, TypedIs DEF EffRec
  <2> SUFFICES ASSUME NEW d \in DOMAIN eff
               PROVE  /\ es[d].thd = eff[d].thd /\ es[d].class = eff[d].class
                      /\ es[d].buf = eff[d].buf
                      /\ es[d].live = (d # e /\ eff[d].live)
    OBVIOUS
  <2>2. CASE d = e
    BY <2>2, <1>5, <1>6
  <2>3. CASE d # e
    BY <2>1, <2>3, <1>6
  <2> QED BY <2>2, <2>3
<1>8. Typed(r)
  <2>1. \A h \in DOMAIN thd : ToSet(thd[h].effs) \subseteq DOMAIN es
    BY <1>6, InvIs DEF Typed, EffsOf
  <2>2. \A d \in DOMAIN es : es[d].thd \in DOMAIN thd
    BY <1>6, <1>7, InvIs DEF Typed
  <2>3. ev \in Seq(EventRec) /\ thd \in Seq(ThreadRec)
    BY InvIs, TypedIs
  <2> QED BY <2>1, <2>2, <2>3, <1>6, TypedOf
<1>9. State' = r /\ r.thd = thd /\ r.eff = es /\ r.ev = ev
  BY <1>1 DEF State
<1> HIDE DEF r
<1>10. Good(r, {})
  BY <1>6, <1>7, <1>8, <1>9, InvIs, SameBuffers
<1>11. Frees(State, e, r)
  BY <1>6, <1>7, <1>9, InvIs DEF Frees
<1>12. FreesFor(State, e, r, calls)
  BY <1>2, <1>3, <1>11, InvIs DEF FreesFor
<1>13. Tree(r) /\ Lists(r)
  BY <1>12, FreesThreads
<1>14. Replaces(calls, c, calls') /\ c.op = "delete" /\ c.of = State.eff[e].thd /\ c.queue = <<>>
  <2>1. eff[e].thd \in Nat
    BY <1>4 DEF EffRec
  <2>2. c \in CallRec
    BY <2>1 DEF CallRec
  <2> QED BY <2>2, <1>1, <1>2, <1>3, InvIs DEF Replaces
<1> HIDE DEF c
<1>15. calls' \in Seq(CallRec) /\ CallInv(r, calls')
  BY <1>12, <1>14, FreesCalls
<1>16. calls'[1].queue = <<>>
  BY <1>14, ReplacedCall
<1>17. Queued(r.ev, calls'[1].queue)
  BY <1>16 DEF Queued
<1>18. \A d \in DOMAIN r.eff : r.eff[d].class \in classes \cup {Smfout}
  BY <1>6, <1>7, <1>9, InvIs
<1>19. Continues(r, calls')
  BY <1>10, <1>13, <1>15, <1>17, <1>18 DEF Continues
<1> QED BY <1>1, <1>9, <1>19, InvIs, Follows

-----------------------------------------------------------------------------
(* At the start there are two threads and $smfout.                         *)
LEMMA InitInv ==
  ASSUME Init
  PROVE  EffectorInv
<1> DEFINE a == Thread("thread", 0, <<1>>, <<TRUE>>, {1})
           b == Thread("effector", 1, <<>>, <<>>, {})
           f == Instance(Smfout, 2)
<1>1. /\ classes \in Programs /\ ev = <<>> /\ thd = <<a, b>> /\ eff = <<f>> /\ calls = <<>>
      /\ fuel = Commands
  BY DEF Init
<1>2. /\ a \in ThreadRec /\ a.kind = "thread" /\ a.live = TRUE /\ a.parent = 0 /\ a.nchild = 0
      /\ a.effs = <<1>>
  BY DEF Thread, ThreadRec
<1>3. /\ b \in ThreadRec /\ b.kind = "effector" /\ b.live = TRUE /\ b.parent = 1 /\ b.nchild = 0
      /\ b.effs = <<>>
  BY DEF Thread, ThreadRec
<1>4. /\ f \in EffRec /\ f.class = Smfout /\ f.live = TRUE /\ f.thd = 2
      /\ \A k \in Track : f.buf[k] = <<>>
  <2>1. Smfout \in Class
    BY DEF Smfout, Class, Flag
  <2> DEFINE buf == [k \in Track |-> <<>>]
  <2>2. buf \in [Track -> Seq(Seq(Nat))] /\ \A k \in Track : buf[k] = <<>>
    OBVIOUS
  <2> HIDE DEF buf
  <2>3. f = [class |-> Smfout, live |-> TRUE, thd |-> 2, cthru |-> {}, ethru |-> {},
             buf |-> buf, marks |-> <<>>]
    BY DEF Instance, buf
  <2>4. {} \in SUBSET Chan /\ {} \in SUBSET Type /\ <<>> \in Seq(Int) /\ TRUE \in BOOLEAN
    OBVIOUS
  <2> DEFINE class == Smfout  two == 2
  <2>5. class \in Class /\ two \in Nat
    BY <2>1
  <2>6. f = [class |-> class, live |-> TRUE, thd |-> two, cthru |-> {}, ethru |-> {},
             buf |-> buf, marks |-> <<>>]
    BY <2>3
  <2> HIDE DEF f, class, two
  <2>7. /\ f \in EffRec /\ f.class = class /\ f.live = TRUE /\ f.thd = two /\ f.buf = buf
    BY <2>2, <2>4, <2>5, <2>6 DEF EffRec
  <2> QED BY <2>2, <2>7 DEF class, two
<1> HIDE DEF a, b, f
<1>5. /\ thd \in Seq(ThreadRec) /\ DOMAIN thd = {1, 2} /\ thd[1] = a /\ thd[2] = b
      /\ eff \in Seq(EffRec) /\ DOMAIN eff = {1} /\ eff[1] = f
      /\ ev \in Seq(EventRec) /\ DOMAIN ev = {}
  BY <1>1, <1>2, <1>3, <1>4
<1>6. ToSet(thd[1].effs) = {1} /\ ToSet(thd[2].effs) = {} /\ DOMAIN <<1>> = {1}
  BY <1>2, <1>3, <1>5 DEF ToSet
<1>7. State.ev = ev /\ State.thd = thd /\ State.eff = eff
  BY DEF State
<1>8. Typed(State)
  <2>1. \A h \in DOMAIN thd : ToSet(thd[h].effs) \subseteq DOMAIN eff
    BY <1>5, <1>6
  <2>2. \A e \in DOMAIN eff : eff[e].thd \in DOMAIN thd
    BY <1>4, <1>5
  <2> QED BY <2>1, <2>2, <1>5, TypedOf DEF State
<1>9. TypeOK
  <2>1. classes \in (SUBSET Class) \ {{}} /\ fuel \in Nat
    BY <1>1, ProgramAssumption, BoundAssumption
  <2>2. calls \in Seq(CallRec)
    BY <1>1
  <2> QED BY <2>1, <2>2, <1>4, <1>5, <1>8 DEF TypeOK
<1>10. Buffered(State)
  <2>1. \A k \in Track : State.eff[1].buf[k] = <<>>
    BY <1>4, <1>5, <1>7
  <2>2. Slots(<<>>) = {}
    BY DEF Slots
  <2>3. Places(State) = {}
    BY <2>1, <2>2, <1>5, <1>7 DEF Places
  <2> QED BY <2>3 DEF Buffered
<1>11. EventInv
  BY <1>1, <1>5, <1>10 DEF EventInv, Mutual, Queues
<1>12. Tree(State)
  BY <1>2, <1>3, <1>4, <1>5, <1>7 DEF Tree
<1>13. EffsOf(State, 1) = {1} /\ EffsOf(State, 2) = {} /\ LiveOf(State) = {1, 2}
       /\ OwnerOf(State, 1) = 1
  BY <1>2, <1>3, <1>4, <1>5, <1>6, <1>7 DEF EffsOf, LiveOf, OwnerOf
<1>14. Lists(State)
  <2>1. \A h \in DOMAIN State.thd : \A j, k \in DOMAIN State.thd[h].effs :
          j < k => State.thd[h].effs[j] > State.thd[h].effs[k]
    BY <1>2, <1>3, <1>5, <1>6, <1>7
  <2>2. \A h \in LiveOf(State) : \A e \in EffsOf(State, h) :
          /\ State.eff[e].live
          /\ OwnerOf(State, e) = h \/ (h # 1 /\ e \in EffsOf(State, State.thd[h].parent))
          /\ OwnerOf(State, e) = h => \A d \in EffsOf(State, h) : OwnerOf(State, d) # h => d < e
    BY <1>4, <1>5, <1>7, <1>13
  <2>3. \A e \in DOMAIN State.eff : \A d \in EffsOf(State, State.eff[e].thd) :
          OwnerOf(State, d) # State.eff[e].thd => d < e
    BY <1>4, <1>5, <1>7, <1>13
  <2>4. \A e \in DOMAIN State.eff : State.eff[e].live => State.eff[e].thd \in LiveOf(State)
    BY <1>4, <1>5, <1>7, <1>13
  <2> QED BY <2>1, <2>2, <2>3, <2>4 DEF Lists
<1>15. CallInv(State, <<>>)
  <2>1. Chained(State, <<>>) /\ Detaching(State, <<>>)
    BY DEF Chained, Detaching
  <2>2. Attached(State, <<>>)
    BY <1>5, <1>7, <1>13 DEF Attached
  <2>3. ChildrenOf(State, 1) = {} /\ ChildrenOf(State, 2) = {}
    BY <1>2, <1>3, <1>5, <1>7, <1>13 DEF ChildrenOf
  <2>4. Counted(State, <<>>)
    <3>1. Cardinality({}) = 0
      BY FS_EmptySet
    <3> QED BY <3>1, <2>3, <1>2, <1>3, <1>5, <1>7, <1>13 DEF Counted
  <2> QED BY <2>1, <2>2, <2>4 DEF CallInv
<1> QED BY <1>1, <1>9, <1>11, <1>12, <1>14, <1>15 DEF EffectorInv, ThreadInv

LEMMA Unchanged ==
  ASSUME EffectorInv, UNCHANGED vars
  PROVE  EffectorInv'
<1>1. ev' = ev /\ thd' = thd /\ eff' = eff /\ calls' = calls /\ classes' = classes /\ fuel' = fuel
  BY DEF vars
<1>2. State' = State
  BY <1>1 DEF State
<1>3. TypeOK' /\ ThreadInv' /\ EventInv'
  BY <1>1, <1>2 DEF EffectorInv, TypeOK, ThreadInv, EventInv, Error, Queues, Call
<1> QED BY <1>3 DEF EffectorInv

LEMMA StepInv ==
  ASSUME EffectorInv, [Next]_vars
  PROVE  EffectorInv'
<1>1. ASSUME NEW h \in DOMAIN thd,
             \/ do_attach(h) \/ do_enable(h) \/ do_eff_etypes(h) \/ do_eff_chs(h)
             \/ do_note(h) \/ do_ctrl(h) \/ do_timesig(h) \/ create_thread(h) \/ end_thread(h)
      PROVE  EffectorInv'
  <2>1. CASE do_ctrl(h) \/ do_timesig(h)
    BY <2>1, EventKeeps DEF do_ctrl, do_timesig
  <2> QED BY <1>1, <2>1, AttachKeeps, EnableKeeps, TypesKeeps, ChannelsKeeps, NoteKeeps,
             CreateKeeps, EndKeeps
<1>2. CASE postpone \/ detach_all_effectors \/ delete_thread
  BY <1>2, PostponeKeeps, DetachAllKeeps, DeleteKeeps
<1>3. CASE detach_effector \/ per_event_action \/ detach_end
  BY <1>3, DetachKeeps, ActionKeeps, DetachEndKeeps
<1>4. CASE terminated
  BY <1>4, Unchanged DEF terminated
<1>5. CASE UNCHANGED vars
  BY <1>5, Unchanged
<1> QED BY <1>1, <1>2, <1>3, <1>4, <1>5 DEF Next

LEMMA InvNoDangling ==
  ASSUME EffectorInv
  PROVE  NoDangling
<1>1. \A h \in DOMAIN thd : thd[h].live => \A e \in ToSet(thd[h].effs) : eff[e].live
  BY InvIs DEF Lists, LiveOf, EffsOf
<1>2. Mutual(ev, {})
  BY DEF EffectorInv, EventInv
<1>3. 0 \notin DOMAIN ev
  BY InvIs, TypedIs
<1>4. ASSUME NEW i \in DOMAIN ev, ev[i].partner # 0
      PROVE  /\ ev[i].at \in {"buffer", "queue"} /\ ev[ev[i].partner].at \in {"buffer", "queue"}
             /\ ev[ev[i].partner].partner = i
  <2>1. ev[i].partner \in DOMAIN ev /\ ev[ev[i].partner].partner = i
        /\ ev[i].at \in {"buffer", "queue"}
    BY <1>2, <1>4 DEF Mutual
  <2>2. ev[ev[i].partner].partner # 0
    BY <2>1, <1>3
  <2> QED BY <2>1, <2>2, <1>2 DEF Mutual
<1> QED BY <1>1, <1>4 DEF NoDangling

(* A live thread has no effector in its list that was detached, and the    *)
(* partner of a note is an event that is not freed and has it as partner.  *)
THEOREM NoDanglingReferences == Spec => []NoDangling
<1>1. Init => EffectorInv
  BY InitInv
<1>2. EffectorInv /\ [Next]_vars => EffectorInv'
  BY StepInv
<1>3. EffectorInv => NoDangling
  BY InvNoDangling
<1> QED BY <1>1, <1>2, <1>3, PTL DEF Spec
=============================================================================
