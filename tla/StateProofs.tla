---------------------------- MODULE StateProofs ----------------------------
(***************************************************************************)
(* Proofs that every thread of comp/parse.c is in exactly one of the six   *)
(* states a thread can be in (OneState), that === waits for all it should  *)
(* wait for (SyncWaits), and that nothing is left when the compiler ends   *)
(* (CompleteAtEnd); and that the threads implement ThreadLife.             *)
(***************************************************************************)
EXTENDS StackProofs, ThreadLifeImpl

(* Every alt of the program has a guard: one without any sleeps on no      *)
(* WaitStatus, and nobody finds it again (parse.c:1423).                   *)
Guarded == <<>> \notin AltGuards

-----------------------------------------------------------------------------
(* Who sleeps.                                                             *)
Sleeps(h) == \E c \in Channel, w \in Thread : IsBlocked(c, w) /\ ws[c][w].sleep_thd = h
Sleeping == {h \in Thread : Sleeps(h)}

LEMMA SleepersAsleep ==
  ASSUME TypeInv, TreeInv, NEW h, Sleeps(h)
  PROVE  h \in live \ Ready /\ Top(h) \in {"EWAIT", "EALT"} /\ Awakable(h)
<1>1. PICK c \in Channel, w \in Thread : IsBlocked(c, w) /\ ws[c][w].sleep_thd = h
  BY DEF Sleeps
<1>2. h \in live \ Ready /\ Top(h) \in {"EWAIT", "EALT"}  BY <1>1, SleeperOf
<1>. QED  BY <1>2, BusyAwakable

LEMMA SleepsBlocked ==
  ASSUME TypeInv, DutyInv, NEW h
  PROVE  Sleeps(h) <=> Blocked(h)
<1>1. \A c \in Channel : ToSet(wtop[c]) \subseteq Thread
  <2>1. ASSUME NEW c \in Channel  PROVE ToSet(wtop[c]) \subseteq Thread
    <3>1. wtop[c] \in Seq(Thread)  BY DEF TypeInv, TypeOK
    <3>. QED  BY <3>1, ElementsInSet
  <2>. QED  BY <2>1
<1>. QED  BY <1>1 DEF Sleeps, Blocked, DutyInv, Registered, HasStatus

(* What a thread waits for is waited for by no other thread that can run.  *)
LEMMA SleeperUnique ==
  ASSUME TypeInv, TreeInv, DutyInv, NEW c \in Channel, NEW w \in Thread, IsBlocked(c, w),
         NEW h, Awakable(h), WaitsAs(h, w)
  PROVE  ws[c][w].sleep_thd = h
<1>1. PICK g \in live \ Ready :
        /\ g = ws[c][w].sleep_thd /\ Refers(pb[g][1], c, w, ws[c][w].status)
        /\ Head(pb[g]) = pb[g][1] /\ Top(g) \in {"EWAIT", "EALT"}
  BY SleeperOf
<1>2. Awakable(g)  BY <1>1, BusyAwakable
<1>3. Head(pb[g]) \in ToSet(pb[g])  BY TopToken
<1>4. Head(pb[g]).type \in Busy /\ Head(pb[g]).wait_thd = w  BY <1>1 DEF Refers, Busy
<1>5. WaitsAs(g, w)  BY <1>3, <1>4 DEF DutyInv, Receivers
<1>. QED  BY <1>1, <1>2, <1>5, OneActive

LEMMA ReceiverFree ==
  ASSUME TypeInv, TreeInv, DutyInv, rtl # <<>>, NEW w \in Thread, WaitsAs(cur, w),
         NEW c \in Channel
  PROVE  ~IsBlocked(c, w)
<1>1. cur \in Ready /\ Awakable(cur)  BY CurReady
<1>2. ASSUME IsBlocked(c, w)  PROVE FALSE
  <2>1. ws[c][w].sleep_thd = cur  BY <1>1, <1>2, SleeperUnique
  <2>2. Sleeps(cur)  BY <1>2, <2>1 DEF Sleeps
  <2>. QED  BY <1>1, <2>2, SleepersAsleep
<1>. QED  BY <1>2

(* The wait or alt on top of the current thread is its own.                *)
LEMMA CurReceives ==
  ASSUME TypeInv, TreeInv, DutyInv, rtl # <<>>, Top(cur) \in Busy
  PROVE  WaitsAs(cur, Head(pb[cur]).wait_thd)
<1>1. PICK x \in live : x = cur  BY CurReady
<1>2. Head(pb[x]) \in ToSet(pb[x]) /\ Head(pb[x]).type \in Busy  BY <1>1, TopToken, TopOf
<1>. QED  BY <1>1, <1>2 DEF DutyInv, Receivers

LEMMA SleepingStep ==
  ASSUME NEW R, NEW A \in SUBSET Thread, \A h \in A : Sleeps(h)',
         \A c \in Channel, w \in Thread :
           /\ IsBlocked(c, w)' => \/ ws'[c][w].sleep_thd \in A
                                  \/ /\ IsBlocked(c, w) /\ ws[c][w].sleep_thd \notin R
                                     /\ ws'[c][w].sleep_thd = ws[c][w].sleep_thd
           /\ IsBlocked(c, w) => \/ ws[c][w].sleep_thd \in R
                                 \/ /\ IsBlocked(c, w)'
                                    /\ ws'[c][w].sleep_thd = ws[c][w].sleep_thd
  PROVE  /\ Sleeping' = (Sleeping \ R) \cup A
         /\ \A h : Sleeps(h) => h \in R \/ Sleeps(h)'
<1>1. ASSUME NEW h, Sleeps(h), h \notin R  PROVE Sleeps(h)'
  BY <1>1 DEF Sleeps
<1>2. ASSUME NEW h, Sleeps(h)'  PROVE h \in A \/ (Sleeps(h) /\ h \notin R)
  BY <1>2 DEF Sleeps
<1>. QED  BY <1>1, <1>2 DEF Sleeping

LEMMA SameSleeping ==
  ASSUME \A c \in Channel, w \in Thread :
           /\ IsBlocked(c, w)' <=> IsBlocked(c, w)
           /\ IsBlocked(c, w) => ws'[c][w].sleep_thd = ws[c][w].sleep_thd
  PROVE  Sleeping' = Sleeping /\ \A h : Sleeps(h)' <=> Sleeps(h)
BY DEF Sleeping, Sleeps

LEMMA SleepingFinite ==
  ASSUME TypeInv, TreeInv
  PROVE  /\ IsFiniteSet(Sleeping) /\ Cardinality(Sleeping) \in Nat
         /\ Sleeping \subseteq live \ Ready
<1>1. Sleeping \subseteq live \ Ready  BY SleepersAsleep DEF Sleeping
<1>2. IsFiniteSet(Sleeping)  BY FS_Subset, ThreadAssumption DEF Sleeping
<1>. QED  BY <1>1, <1>2, FS_CardinalityType

LEMMA GuardsExact ==
  ASSUME TypeInv, NEW gs, NEW u, NEW status, NEW sleeper,
         ws' = SetGuards(gs, u, status, sleeper), NEW d \in Channel, NEW v \in Thread
  PROVE  IF v = u /\ \E i \in DOMAIN gs : gs[i].chnl = d
         THEN ws'[d][v].status = status /\ ws'[d][v].sleep_thd = sleeper
         ELSE ws'[d][v] = ws[d][v]
<1>1. ws'[d][v] = IF v = u /\ \E i \in DOMAIN gs : gs[i].chnl = d
                  THEN [ws[d][v] EXCEPT !.status = status, !.sleep_thd = sleeper]
                  ELSE ws[d][v]
  BY DEF SetGuards
<1>2. ws[d][v] \in Status  BY StatusTyped
<1>. QED  BY <1>1, <1>2 DEF Status

-----------------------------------------------------------------------------
(* The invariant.  No thread is ever forgotten, and total_blocked counts   *)
(* who sleeps.  That an alt really sleeps on a WaitStatus needs that it    *)
(* has a guard; the guards of an alt are never taken away.                 *)
AltHasGuard ==
  \A h \in live : \A e \in ToSet(pb[h]) : e.type = "EALT" => e.guards # <<>>
Accounts(h) ==
  \/ h = del \/ h \in Ready \/ Sleeps(h) \/ Suspended(h) \/ Idle(h) \/ Exiting(h)
Accounted == \A h \in live : Accounts(h)
TotalBlocked == total_blocked = Cardinality(Sleeping)
AccountInv == AltHasGuard /\ Accounted /\ TotalBlocked

LEMMA SuspendedKept ==
  ASSUME NEW h, Suspended(h),
         \A k \in Thread : Suspending(k) /\ parent[k] = h => Suspending(k)' /\ parent'[k] = h
  PROVE  Suspended(h)'
BY DEF Suspended

(* A step that neither creates nor deletes threads nor names.              *)
LEMMA AccountStep ==
  ASSUME TypeInv, Accounted, TotalBlocked, UNCHANGED <<live, parent, named, del>>,
         \A h \in Thread : /\ "SFLAG" \in flags'[h] <=> "SFLAG" \in flags[h]
                           /\ "EXITING" \in flags'[h] <=> "EXITING" \in flags[h],
         \A h \in live : h \in Ready => h \in Ready' \/ Sleeps(h)',
         \A h : Sleeps(h) => h \in Ready' \/ Sleeps(h)',
         \A h \in named : Top(h) = "EOF" => Top(h)' = "EOF" \/ h \in Ready',
         total_blocked' = Cardinality(Sleeping')
  PROVE  Accounted' /\ TotalBlocked'
<1>1. \A k \in Thread : Suspending(k)' <=> Suspending(k)  BY DEF Suspending, Exiting
<1>2. \A h : Suspended(h)' <=> Suspended(h)  BY <1>1 DEF Suspended
<1>3. \A h \in live : Exiting(h)' <=> Exiting(h)  BY DEF Exiting, TypeInv, TypeOK
<1>4. ASSUME NEW h \in live, Accounts(h)  PROVE Accounts(h)'
  <2>1. CASE h = del  BY <2>1 DEF Accounts
  <2>2. CASE h \in Ready \/ Sleeps(h)  BY <2>2 DEF Accounts
  <2>3. CASE Suspended(h) \/ Exiting(h)  BY <1>2, <1>3, <2>3 DEF Accounts
  <2>4. CASE Idle(h)  BY <2>4 DEF Accounts, Idle
  <2>. QED  BY <1>4, <2>1, <2>2, <2>3, <2>4 DEF Accounts
<1>. QED  BY <1>4 DEF Accounted, TotalBlocked

(* Nobody falls asleep and nobody who sleeps is woken.                     *)
LEMMA AccountQuiet ==
  ASSUME TypeInv, Accounted, TotalBlocked, UNCHANGED <<live, parent, named, del, total_blocked>>,
         \A h \in Thread : /\ "SFLAG" \in flags'[h] <=> "SFLAG" \in flags[h]
                           /\ "EXITING" \in flags'[h] <=> "EXITING" \in flags[h],
         Ready \subseteq Ready',
         \A h \in named : Top(h) = "EOF" => Top(h)' = "EOF" \/ h \in Ready',
         \A c \in Channel, w \in Thread :
           /\ IsBlocked(c, w)' <=> IsBlocked(c, w)
           /\ IsBlocked(c, w) => ws'[c][w].sleep_thd = ws[c][w].sleep_thd
  PROVE  Accounted' /\ TotalBlocked'
<1>1. Sleeping' = Sleeping /\ \A h : Sleeps(h)' <=> Sleeps(h)  BY SameSleeping
<1>. QED  BY <1>1, AccountStep DEF TotalBlocked

(* The current thread falls asleep.                                        *)
LEMMA AccountBlock ==
  ASSUME TypeInv, TreeInv, Accounted, TotalBlocked, rtl # <<>>, Top(cur) # "EOF",
         UNCHANGED <<live, parent, named, del>>,
         \A h \in Thread : /\ "SFLAG" \in flags'[h] <=> "SFLAG" \in flags[h]
                           /\ "EXITING" \in flags'[h] <=> "EXITING" \in flags[h],
         rtl' = Tail(rtl), total_blocked' = total_blocked + 1,
         \A h \in live \ {cur} : pb'[h] = pb[h],
         \E c \in Channel, w \in Thread : IsBlocked(c, w)' /\ ws'[c][w].sleep_thd = cur,
         \A c \in Channel, w \in Thread :
           /\ IsBlocked(c, w)' => \/ ws'[c][w].sleep_thd = cur
                                  \/ IsBlocked(c, w)
           /\ IsBlocked(c, w) =>
                IsBlocked(c, w)' /\ ws'[c][w].sleep_thd = ws[c][w].sleep_thd
  PROVE  Accounted' /\ TotalBlocked'
<1>1. PICK x \in live : x = cur /\ x \in Thread /\ x \in Ready  BY CurReady
<1>2. Sleeps(x)'  BY <1>1 DEF Sleeps
<1>3. /\ Sleeping' = (Sleeping \ {}) \cup {x}
      /\ \A h : Sleeps(h) => h \in {} \/ Sleeps(h)'
  <2>. DEFINE A == {x}
              R == {}
  <2>1. A \in SUBSET Thread /\ \A h \in A : Sleeps(h)'  BY <1>1, <1>2
  <2>2. \A c \in Channel, w \in Thread :
           /\ IsBlocked(c, w)' => \/ ws'[c][w].sleep_thd \in A
                                  \/ /\ IsBlocked(c, w) /\ ws[c][w].sleep_thd \notin R
                                     /\ ws'[c][w].sleep_thd = ws[c][w].sleep_thd
           /\ IsBlocked(c, w) => \/ ws[c][w].sleep_thd \in R
                                 \/ /\ IsBlocked(c, w)'
                                    /\ ws'[c][w].sleep_thd = ws[c][w].sleep_thd
    BY <1>1
  <2>3. /\ Sleeping' = (Sleeping \ R) \cup A
        /\ \A h : Sleeps(h) => h \in R \/ Sleeps(h)'
    <3>. HIDE DEF A, R
    <3>. QED  BY <2>1, <2>2, SleepingStep
  <2>. QED  BY <2>3
<1>4. x \notin Sleeping /\ IsFiniteSet(Sleeping)  BY <1>1, SleepingFinite
<1>5. Cardinality(Sleeping') = Cardinality(Sleeping) + 1  BY <1>3, <1>4, FS_AddElement
<1>6. Ready' = Ready \ {x}  BY <1>1, CurReady, TailReady DEF Ready, cur
<1>7. \A h \in live : h \in Ready => h \in Ready' \/ Sleeps(h)'  BY <1>2, <1>6
<1>8. \A h \in named : Top(h) = "EOF" => Top(h)' = "EOF"
  BY <1>1 DEF Top, TreeInv, Names
<1>. QED  BY <1>3, <1>5, <1>7, <1>8, AccountStep DEF TotalBlocked

-----------------------------------------------------------------------------
(* Every alt keeps its guards.                                             *)
LEMMA GuardStep ==
  ASSUME AltHasGuard,
         \A h \in live' : \A e \in ToSet(pb'[h]) : e.type = "EALT" =>
           (h \in live /\ e \in ToSet(pb[h])) \/ e.guards # <<>>
  PROVE  AltHasGuard'
BY DEF AltHasGuard

LEMMA PopGuard ==
  ASSUME TypeInv, TreeInv, AltHasGuard, NEW x \in live, Pop(x), live' = live
  PROVE  AltHasGuard'
<1>1. /\ \A h \in live \ {x} : pb'[h] = pb[h]
      /\ ToSet(pb[x]) = {Head(pb[x])} \cup ToSet(pb'[x])
  BY PopTokens
<1>2. ASSUME NEW h \in live', NEW e \in ToSet(pb'[h])  PROVE h \in live /\ e \in ToSet(pb[h])
  <2>1. CASE h = x  BY <1>1, <1>2, <2>1
  <2>2. CASE h # x  BY <1>1, <1>2, <2>2
  <2>. QED  BY <2>1, <2>2
<1>. QED  BY <1>2, GuardStep

LEMMA PushGuard ==
  ASSUME TypeInv, TreeInv, AltHasGuard, rtl # <<>>, NEW i \in Item, Push(<<i>>),
         i.type = "EALT" => i.guards # <<>>, live' = live
  PROVE  AltHasGuard'
<1>1. PICK x \in live : x = cur  BY CurReady
<1>2. /\ \A h \in live \ {x} : pb'[h] = pb[h]
      /\ ToSet(pb'[x]) = {i} \cup ToSet(pb[x])
  BY <1>1, PushTokens
<1>3. ASSUME NEW h \in live', NEW e \in ToSet(pb'[h]), e.type = "EALT"
      PROVE  (h \in live /\ e \in ToSet(pb[h])) \/ e.guards # <<>>
  <2>1. CASE h = x  BY <1>2, <1>3, <2>1
  <2>2. CASE h # x  BY <1>2, <1>3, <2>2
  <2>. QED  BY <2>1, <2>2
<1>. QED  BY <1>3, GuardStep

LEMMA CreateGuard ==
  ASSUME TypeInv, TypeInv', TreeInv, AltHasGuard,
         NEW new \in Thread \ live, NEW p \in live, NEW fs, NEW stack, NEW loops,
         create_thread(new, p, fs, stack, loops),
         \A e \in ToSet(stack) : e.type # "EALT"
  PROVE  AltHasGuard'
<1>1. live \subseteq Thread /\ pb \in [Thread -> Seq(Item)]  BY DEF TypeInv, TypeOK
<1>2. /\ live' = live \cup {new} /\ pb'[new] = stack
      /\ \A h \in live : pb'[h] = pb[h]
  BY <1>1 DEF create_thread
<1>3. ASSUME NEW h \in live', NEW e \in ToSet(pb'[h]), e.type = "EALT"
      PROVE  h \in live /\ e \in ToSet(pb[h])
  <2>1. CASE h = new  BY <1>2, <1>3, <2>1
  <2>2. CASE h # new  BY <1>2, <1>3, <2>2
  <2>. QED  BY <2>1, <2>2
<1>. QED  BY <1>3, GuardStep

LEMMA UnguardedKeeps ==
  ASSUME NEW e \in Item, NEW c \in Channel, e.type = "EALT", e.guards # <<>>
  PROVE  Unguarded(e, c).guards # <<>>
<1>. DEFINE gs == e.guards
<1>1. gs \in Seq([chnl : Channel \cup {Freed}, bind : BOOLEAN])  BY DEF Item
<1>2. Unguarded(e, c).guards = [k \in DOMAIN gs |->
         IF gs[k].chnl = c THEN [gs[k] EXCEPT !.chnl = Freed] ELSE gs[k]]
  BY DEF Unguarded, Item
<1>3. 1 \in DOMAIN gs
  <2>1. Len(gs) \in Nat /\ Len(gs) > 0 /\ DOMAIN gs = 1..Len(gs)
    <3>. HIDE DEF gs
    <3>1. gs # <<>>  BY DEF gs
    <3>. QED  BY <1>1, <3>1, Places
  <2>. QED  BY <2>1
<1>4. DOMAIN <<>> = {}  OBVIOUS
<1>5. DOMAIN (Unguarded(e, c).guards) = DOMAIN gs  BY <1>2
<1>. QED  BY <1>3, <1>4, <1>5

LEMMA DestroyGuard ==
  ASSUME TypeInv, TypeInv', TreeInv, AltHasGuard, destroy_channel
  PROVE  AltHasGuard'
<1>1. CASE Halt("error")
  BY <1>1, GuardStep DEF Halt, threadVars, stackVars
<1>2. CASE ~Halt("error")
  <2>1. PICK c \in Channel :
          /\ \A h \in live : ToSet(pb'[h]) = {Unguarded(e, c) : e \in ToSet(pb[h])}
          /\ live' = live
    BY <1>2, DestroyFacts
  <2>2. ASSUME NEW h \in live, NEW i \in ToSet(pb'[h]), i.type = "EALT"
        PROVE  i.guards # <<>>
    <3>1. PICK e \in ToSet(pb[h]) : i = Unguarded(e, c)  BY <2>1
    <3>2. e \in Item
      <4>1. pb[h] \in Seq(Item)  BY TopOf
      <4>. QED  BY <4>1, ElementsInSet
    <3>3. e.type = "EALT"  BY <2>2, <3>1, <3>2, UnguardedFields
    <3>4. e.guards # <<>>  BY <3>3 DEF AltHasGuard
    <3>. QED  BY <3>1, <3>2, <3>3, <3>4, UnguardedKeeps
  <2>. QED  BY <2>1, <2>2, GuardStep
<1>. QED  BY <1>1, <1>2

LEMMA AltGuard ==
  ASSUME Guarded, TypeInv, TypeInv', TreeInv, AltHasGuard, do_alt
  PROVE  AltHasGuard'
<1>1. rtl # <<>>  BY CommandTree DEF do_alt
<1>2. CASE Halt("crash")  BY <1>2, GuardStep DEF Halt, threadVars, stackVars
<1>3. CASE ~Halt("crash")
  <2>1. PICK gs \in AltGuards, w \in Thread, d \in Default :
          Push(<<Ealt(gs, w, d)>>) /\ live' = live
    BY <1>3, ZenonT(30) DEF do_alt
  <2>. DEFINE e == Ealt(gs, w, d)
  <2>2. e \in Item /\ e.guards # <<>>
    <3>1. gs \in Seq([chnl : Channel \cup {Freed}, bind : BOOLEAN]) /\ d \in BOOLEAN
      BY GuardChannelSeq, ProgramAssumption
    <3>. QED  BY <3>1 DEF Ealt, Item, Guarded
  <2>3. Push(<<e>>) /\ live' = live  BY <2>1
  <2>. HIDE DEF e
  <2>. QED  BY <1>1, <2>2, <2>3, PushGuard
<1>. QED  BY <1>2, <1>3

LEMMA ThreadGuard ==
  ASSUME TypeInv, TypeInv', TreeInv, AltHasGuard, do_thread
  PROVE  AltHasGuard'
<1>1. rtl # <<>> /\ live' = live  BY CommandTree DEF do_thread, threadVars
<1>2. PICK x \in named, avoid \in BOOLEAN :
        pb' = [pb EXCEPT ![x] = Front(@) \o
                 <<Bot(reg_t[cur], avoid), Mark("BODY"), Mark("EOT"), Mark("EOF")>>]
  BY DEF do_thread
<1>. DEFINE t == <<Bot(reg_t[cur], avoid), Mark("BODY"), Mark("EOT"), Mark("EOF")>>
<1>3. x \in live /\ x \in Thread /\ live \subseteq Thread /\ pb \in [Thread -> Seq(Item)]
  BY DEF TreeInv, Names, TypeInv, TypeOK
<1>4. /\ t \in Seq(Item) /\ Len(t) = 4
      /\ \A i \in 1..4 : t[i].type \in {"BOT", "BODY", "EOT", "EOF"}
  <2>1. reg_t[cur] \in Nat  BY <1>1, CurReady DEF TypeInv, TypeOK
  <2>2. Bot(reg_t[cur], avoid) \in Item  BY <2>1 DEF Bot, Item
  <2>3. t \in Seq(Item) /\ Len(t) = 4  BY <2>2, MarkItem
  <2>4. /\ t[1].type = "BOT" /\ t[2].type = "BODY" /\ t[3].type = "EOT" /\ t[4].type = "EOF"
    BY DEF Bot, Mark
  <2>5. \A i \in 1..4 : i = 1 \/ i = 2 \/ i = 3 \/ i = 4  OBVIOUS
  <2>. HIDE DEF t
  <2>. QED  BY <2>3, <2>4, <2>5
<1>5. /\ \A h \in live \ {x} : pb'[h] = pb[h]
      /\ pb'[x] = Front(pb[x]) \o t
  BY <1>2, <1>3
<1>. HIDE DEF t
<1>. DEFINE s == pb[x]
<1>6. s \in Seq(Item) /\ WellFormed(s)  BY <1>3, TopOf
<1>. HIDE DEF s
<1>7. pb'[x] = Front(s) \o t  BY <1>5 DEF s
<1>8. \A e \in ToSet(pb'[x]) : e \in ToSet(s) \/ e.type \notin {"EWAIT", "EALT"}
  BY <1>4, <1>6, <1>7, AddItems
<1>9. \A e \in ToSet(pb'[x]) : e.type = "EALT" => e \in ToSet(pb[x])
  BY <1>8 DEF s
<1>10. ASSUME NEW h \in live', NEW e \in ToSet(pb'[h]), e.type = "EALT"
       PROVE  h \in live /\ e \in ToSet(pb[h])
  <2>1. CASE h = x  BY <1>3, <1>9, <1>10, <2>1
  <2>2. CASE h # x  BY <1>1, <1>5, <1>10, <2>2
  <2>. QED  BY <2>1, <2>2
<1>. QED  BY <1>10, GuardStep

LEMMA GroupGuard ==
  ASSUME TypeInv, TypeInv', TreeInv, AltHasGuard, do_defthread \/ do_lbrace \/ do_lbracket
  PROVE  AltHasGuard'
<1>1. rtl # <<>>  BY CommandTree DEF do_defthread, do_lbrace, do_lbracket
<1>2. PICK x \in live : x = cur  BY <1>1, CurReady
<1>3. CASE do_defthread
  <2>1. PICK p \in {cur} \cup named, new \in Thread \ live :
          create_thread(new, p, {}, <<Mark("EOF")>>, 0)
    BY <1>3 DEF do_defthread
  <2>2. p \in live  BY <1>2, <2>1 DEF TreeInv, Names
  <2>. DEFINE stack == <<Mark("EOF")>>
  <2>3. \A e \in ToSet(stack) : e.type # "EALT"  BY DEF ToSet, Mark
  <2>4. create_thread(new, p, {}, stack, 0)  BY <2>1
  <2>. HIDE DEF stack
  <2>. QED  BY <2>2, <2>3, <2>4, CreateGuard
<1>4. CASE do_lbrace \/ do_lbracket
  <2>1. PICK pf \in {{}, {"PFLAG"}} : group(pf)  BY <1>4 DEF do_lbrace, do_lbracket
  <2>. DEFINE stack == <<Mark("BODY"), Mark("EOB"), Mark("EOF")>>
  <2>2. PICK new \in Thread \ live, amp \in BOOLEAN :
          create_thread(new, x, IF amp THEN pf ELSE pf \cup {"SFLAG"}, stack,
                        IF amp THEN 0 ELSE loop_count[x])
    BY <1>2, <2>1 DEF group
  <2>3. \A e \in ToSet(stack) : e.type # "EALT"
    <3>1. \A i \in 1..3 : i = 1 \/ i = 2 \/ i = 3  OBVIOUS
    <3>2. /\ stack[1].type = "BODY" /\ stack[2].type = "EOB" /\ stack[3].type = "EOF"
          /\ DOMAIN stack = 1..3
      BY DEF Mark
    <3>. HIDE DEF stack
    <3>. QED  BY <3>1, <3>2 DEF ToSet
  <2>. HIDE DEF stack
  <2>. DEFINE fs == IF amp THEN pf ELSE pf \cup {"SFLAG"}
              loops == IF amp THEN 0 ELSE loop_count[x]
  <2>4. create_thread(new, x, fs, stack, loops)  BY <2>2
  <2>. HIDE DEF fs, loops
  <2>. QED  BY <2>2, <2>3, <2>4, CreateGuard
<1>. QED  BY <1>3, <1>4

LEMMA WaitGuard ==
  ASSUME TypeInv, TypeInv', TreeInv, AltHasGuard, do_wait
  PROVE  AltHasGuard'
<1>1. rtl # <<>>  BY CommandTree DEF do_wait
<1>2. CASE Halt("crash")  BY <1>2, GuardStep DEF Halt, threadVars, stackVars
<1>3. CASE ~Halt("crash")
  <2>1. PICK c \in Channel, w \in Thread, b \in Bind :
          Push(<<Ewait(c, w, b)>>) /\ live' = live
    BY <1>3 DEF do_wait
  <2>. DEFINE e == Ewait(c, w, b)
  <2>2. e \in Item /\ e.type = "EWAIT"  BY ProgramAssumption DEF Ewait, Item
  <2>3. Push(<<e>>) /\ live' = live  BY <2>1
  <2>. HIDE DEF e
  <2>. QED  BY <1>1, <2>2, <2>3, PushGuard
<1>. QED  BY <1>2, <1>3

(* The other steps push nothing but tokens, pop, or leave the stacks alone. *)
LEMMA StackGuard ==
  ASSUME TypeInv, TypeInv', TreeInv, AltHasGuard, live' = live,
         \/ pb' = pb
         \/ rtl # <<>> /\ \E x \in live : Pop(x)
         \/ rtl # <<>> /\ \E type \in {"BODY", "ESYNC"} : Push(<<Mark(type)>>)
  PROVE  AltHasGuard'
<1>1. CASE pb' = pb  BY <1>1, GuardStep
<1>2. CASE \E x \in live : Pop(x)  BY <1>2, PopGuard
<1>3. CASE rtl # <<>> /\ \E type \in {"BODY", "ESYNC"} : Push(<<Mark(type)>>)
  <2>1. PICK type \in {"BODY", "ESYNC"} : Push(<<Mark(type)>>)  BY <1>3
  <2>. DEFINE i == Mark(type)
  <2>2. i \in Item /\ i.type # "EALT"  BY MarkItem DEF Mark
  <2>3. Push(<<i>>)  BY <2>1
  <2>. HIDE DEF i
  <2>. QED  BY <1>3, <2>2, <2>3, PushGuard
<1>. QED  BY <1>1, <1>2, <1>3

LEMMA TokenGuard ==
  ASSUME TypeInv, TypeInv', TreeInv, AltHasGuard,
         \/ begin_of_named_thread \/ end_of_named_thread \/ end_of_block \/ end_of_tokens
         \/ skip_token \/ break_alt \/ do_sync \/ end_sync \/ end_wait \/ end_alt
  PROVE  AltHasGuard'
<1>1. rtl # <<>> /\ live' = live
  BY CommandTree DEF begin_of_named_thread, end_of_named_thread, end_of_block,
     end_of_tokens, skip_token, break_alt, do_sync, end_sync, sync, end_wait, end_alt, Command,
     Token, Halt, threadVars
<1>2. cur \in live  BY <1>1, CurReady
<1>3. \/ pb' = pb \/ Pop(cur)
      \/ Push(<<Mark("ESYNC")>>) \/ Push(<<Mark("BODY")>>)
  <2>1. CASE do_sync  BY <2>1 DEF do_sync, Push
  <2>2. CASE end_sync  BY <2>2 DEF end_sync
  <2>3. CASE end_wait  BY <2>3 DEF end_wait, Halt, stackVars
  <2>4. CASE end_alt  BY <2>4 DEF end_alt, Halt, stackVars
  <2>5. CASE break_alt  BY <2>5 DEF break_alt, leave_alt
  <2>. QED  BY <2>1, <2>2, <2>3, <2>4, <2>5 DEF begin_of_named_thread, end_of_named_thread,
         end_of_block, end_of_tokens, skip_token
<1>. QED  BY <1>1, <1>2, <1>3, StackGuard

LEMMA GuardsNext ==
  ASSUME Guarded, TypeInv, TypeInv', TreeInv, AltHasGuard, [Next]_vars
  PROVE  AltHasGuard'
<1>1. CASE \/ do_defthread \/ do_lbrace \/ do_lbracket \/ do_thread \/ do_wait \/ do_alt
           \/ destroy_channel
  BY <1>1, GroupGuard, ThreadGuard, WaitGuard, AltGuard, DestroyGuard
<1>2. CASE \/ begin_of_named_thread \/ end_of_named_thread \/ end_of_block \/ end_of_tokens
           \/ skip_token \/ break_alt \/ do_sync \/ end_sync \/ end_wait \/ end_alt
  BY <1>2, TokenGuard
<1>3. CASE \/ do_pitch \/ do_reg \/ attach_effector \/ do_signal \/ do_eof \/ postpone_delete
           \/ do_break \/ do_undef \/ delete_dict \/ begin_cleanup \/ cleanup_idle_threads
           \/ terminated \/ UNCHANGED vars
  <2>1. UNCHANGED <<live, pb>>
    BY <1>3 DEF do_pitch, do_reg, attach_effector, do_signal, do_eof, postpone_delete,
       do_break, do_undef, delete_dict, begin_cleanup, cleanup_idle_threads, terminated, Halt,
       threadVars, stackVars, vars
  <2>. QED  BY <2>1, StackGuard
<1>4. CASE delete_thread
  <2>1. PICK x \in live : /\ live' = live \ {x}
                          /\ \A h \in live \ {x} : pb'[h] = pb[h]
    BY <1>4, DeleteFacts
  <2>. QED  BY <2>1, GuardStep
<1>5. CASE check_dead_lock
  <2>1. \/ UNCHANGED <<live, pb>>
        \/ \E c \in Channel, w \in Thread :
             FirstBlocked(c, w) /\ leave_alt(ws[c][w].sleep_thd) /\ live' = live
    BY <1>5 DEF check_dead_lock, Halt, threadVars, stackVars
  <2>2. CASE UNCHANGED <<live, pb>>  BY <2>2, StackGuard
  <2>3. CASE \E c \in Channel, w \in Thread :
               FirstBlocked(c, w) /\ leave_alt(ws[c][w].sleep_thd) /\ live' = live
    <3>1. PICK c \in Channel, w \in Thread :
               FirstBlocked(c, w) /\ leave_alt(ws[c][w].sleep_thd) /\ live' = live
      BY <2>3
    <3>2. ws[c][w].sleep_thd \in live  BY <3>1, SleeperOf DEF FirstBlocked
    <3>. QED  BY <3>1, <3>2, PopGuard DEF leave_alt
  <2>. QED  BY <2>1, <2>2, <2>3
<1>. QED  BY <1>1, <1>2, <1>3, <1>4, <1>5 DEF Next

-----------------------------------------------------------------------------
(* Steps that wake nobody and put nobody to sleep.                         *)
LEMMA CurAccount ==
  ASSUME TypeInv, TreeInv, Accounted, TotalBlocked, TreeFrame, total_blocked' = total_blocked,
         rtl # <<>>, Ready \subseteq Ready', \A h \in live \ {cur} : pb'[h] = pb[h],
         \A c \in Channel, w \in Thread :
           /\ IsBlocked(c, w)' <=> IsBlocked(c, w)
           /\ IsBlocked(c, w) => ws'[c][w].sleep_thd = ws[c][w].sleep_thd
  PROVE  Accounted' /\ TotalBlocked'
<1>1. cur \in Ready  BY CurReady
<1>2. ASSUME NEW h \in named, Top(h) = "EOF"  PROVE Top(h)' = "EOF" \/ h \in Ready'
  <2>1. CASE h = cur  BY <1>1, <2>1
  <2>2. CASE h # cur  BY <1>2, <2>2 DEF Top, TreeInv, Names
  <2>. QED  BY <2>1, <2>2
<1>. QED  BY <1>2, AccountQuiet DEF TreeFrame

LEMMA SameBlocked ==
  ASSUME ws' = ws
  PROVE  \A c \in Channel, w \in Thread :
           /\ IsBlocked(c, w)' <=> IsBlocked(c, w)
           /\ IsBlocked(c, w) => ws'[c][w].sleep_thd = ws[c][w].sleep_thd
BY DEF IsBlocked

LEMMA SameFrame ==
  ASSUME UNCHANGED <<live, parent, named, flags, nchild, undefs, del>>
  PROVE  TreeFrame
BY DEF TreeFrame

LEMMA HaltAccount ==
  ASSUME TypeInv, TreeInv, Accounted, TotalBlocked, NEW how, Halt(how)
  PROVE  Accounted' /\ TotalBlocked'
<1>1. /\ UNCHANGED <<live, parent, named, flags, nchild, undefs, del, pb, ws, total_blocked>>
      /\ Ready' = Ready
  BY DEF Halt, threadVars, stackVars, chanVars, Ready
<1>2. \A h : Top(h)' = Top(h)  BY <1>1 DEF Top
<1>. QED  BY <1>1, <1>2, SameBlocked, AccountQuiet

LEMMA QuietAccount ==
  ASSUME TypeInv, TreeInv, Accounted, TotalBlocked,
         \/ do_pitch \/ do_reg \/ attach_effector \/ do_break \/ do_undef \/ begin_cleanup
         \/ UNCHANGED vars
  PROVE  Accounted' /\ TotalBlocked'
<1>1. /\ UNCHANGED <<live, parent, named, flags, del, pb, ws, total_blocked>>
      /\ UNCHANGED rtl
  BY DEF do_pitch, do_reg, attach_effector, do_break, do_undef, begin_cleanup, Halt,
         threadVars, stackVars, chanVars, ctlVars, vars
<1>2. \A h : Top(h)' = Top(h)  BY <1>1 DEF Top
<1>3. Ready' = Ready  BY <1>1 DEF Ready
<1>. QED  BY <1>1, <1>2, <1>3, SameBlocked, AccountQuiet

LEMMA TokenAccount ==
  ASSUME TypeInv, TreeInv, Accounted, TotalBlocked,
         \/ begin_of_named_thread \/ end_of_named_thread \/ end_of_block
         \/ end_of_tokens \/ skip_token
  PROVE  Accounted' /\ TotalBlocked'
<1>1. /\ rtl # <<>> /\ Pop(cur)
      /\ UNCHANGED <<rtl, live, parent, named, nchild, undefs, del, ws, total_blocked>>
  BY DEF begin_of_named_thread, end_of_named_thread, end_of_block, end_of_tokens,
         skip_token, Token, threadVars, chanVars, ctlVars
<1>2. TreeFrame
  <2>1. CASE begin_of_named_thread
    <3>1. PICK f \in SUBSET {"CFLAG"} : flags' = [flags EXCEPT ![cur] = (@ \ {"CFLAG"}) \cup f]
      BY <2>1 DEF begin_of_named_thread
    <3>2. flags \in [Thread -> SUBSET Flag] /\ live \subseteq Thread  BY DEF TypeInv, TypeOK
    <3>. QED  BY <1>1, <3>1, <3>2 DEF TreeFrame
  <2>2. CASE ~begin_of_named_thread
    BY <2>2, <1>1 DEF end_of_named_thread, end_of_block, end_of_tokens, skip_token, threadVars,
       TreeFrame
  <2>. QED  BY <2>1, <2>2
<1>3. PICK x \in live : x = cur  BY <1>1, CurReady
<1>4. \A h \in live \ {cur} : pb'[h] = pb[h]  BY <1>1, <1>3, PopTokens
<1>5. Ready \subseteq Ready'  BY <1>1 DEF Ready
<1>. QED  BY <1>1, <1>2, <1>4, <1>5, SameBlocked, CurAccount

LEMMA RotateKeeps ==
  ASSUME TypeInv, TreeInv, rtl # <<>>, rotate_thread
  PROVE  Ready' = Ready
BY CurReady, RotateReady DEF rotate_thread, Ready

LEMMA SyncAccount ==
  ASSUME TypeInv, TreeInv, Accounted, TotalBlocked, do_sync \/ end_sync
  PROVE  Accounted' /\ TotalBlocked'
<1>1. /\ rtl # <<>> /\ Top(cur) \in {"BODY", "ESYNC"}
      /\ UNCHANGED <<live, parent, named, flags, nchild, undefs, del, ws, total_blocked>>
  BY CommandTree, TokenTree DEF do_sync, end_sync, sync, threadVars, chanVars, ctlVars
<1>2. PICK x \in live : x = cur /\ x \in Thread  BY <1>1, CurReady
<1>3. \A h \in live \ {cur} : pb'[h] = pb[h]
  <2>1. pb \in [Thread -> Seq(Item)] /\ live \subseteq Thread  BY DEF TypeInv, TypeOK
  <2>2. \/ pb' = pb \/ Pop(x) \/ pb' = [pb EXCEPT ![x] = <<Mark("ESYNC")>> \o @]
    BY <1>2 DEF do_sync, end_sync
  <2>3. CASE Pop(x)  BY <1>2, <2>3, PopTokens
  <2>. QED  BY <1>2, <2>1, <2>2, <2>3
<1>4. Ready \subseteq Ready'
  <2>1. rotate_thread \/ rtl' = rtl  BY DEF do_sync, end_sync, sync
  <2>. QED  BY <1>1, <2>1, RotateKeeps DEF Ready
<1>5. TreeFrame  BY <1>1, SameFrame
<1>. QED  BY <1>1, <1>3, <1>4, <1>5, SameBlocked, CurAccount

(* THREAD {} wakes the thread if it is idle.                               *)
LEMMA ThreadAccount ==
  ASSUME TypeInv, TreeInv, Accounted, TotalBlocked, do_thread
  PROVE  Accounted' /\ TotalBlocked'
<1>1. /\ rtl # <<>> /\ UNCHANGED <<live, parent, named, flags, del, ws, total_blocked>>
      /\ rtl \in Seq(Thread)
  BY CommandTree DEF do_thread, threadVars, chanVars, ctlVars, TypeInv, TypeOK
<1>2. PICK x \in named, avoid \in BOOLEAN :
        /\ pb' = [pb EXCEPT ![x] = Front(@) \o
                 <<Bot(reg_t[cur], avoid), Mark("BODY"), Mark("EOT"), Mark("EOF")>>]
        /\ awake_if_idle(x)
  BY DEF do_thread
<1>3. x \in Thread /\ named \subseteq Thread /\ pb \in [Thread -> Seq(Item)]
  BY DEF TypeInv, TypeOK
<1>4. Ready' = IF Top(x) = "EOF" THEN {x} \cup Ready ELSE Ready
  <2>1. ToSet(<<x>> \o rtl) = {x} \cup ToSet(rtl)  BY <1>1, <1>3, ConsReady
  <2>. QED  BY <1>2, <2>1 DEF awake_if_idle, Ready
<1>5. ASSUME NEW h \in named, Top(h) = "EOF"  PROVE Top(h)' = "EOF" \/ h \in Ready'
  <2>1. CASE h = x  BY <1>4, <1>5, <2>1
  <2>2. CASE h # x
    <3>1. pb'[h] = pb[h]  BY <1>2, <1>3, <2>2
    <3>. QED  BY <1>5, <3>1 DEF Top
  <2>. QED  BY <2>1, <2>2
<1>6. Ready \subseteq Ready'  BY <1>4
<1>. QED  BY <1>1, <1>5, <1>6, SameBlocked, AccountQuiet

(* The receiver that the current thread serves was not blocked.            *)
LEMMA EndWaitAccount ==
  ASSUME TypeInv, TreeInv, DutyInv, Accounted, TotalBlocked, end_wait
  PROVE  Accounted' /\ TotalBlocked'
<1>1. rtl # <<>> /\ Top(cur) = "EWAIT"  BY TokenTree DEF end_wait
<1>2. CASE \E how \in {"error", "crash"} : Halt(how)  BY <1>2, HaltAccount
<1>3. CASE ~ \E how \in {"error", "crash"} : Halt(how)
  <2>1. PICK x \in live : x = cur  BY <1>1, CurReady
  <2>2. Head(pb[x]) \in Item /\ Head(pb[x]).type = "EWAIT"  BY <1>1, <2>1, TopOf
  <2>3. PICK c \in Channel, w \in Thread : c = Head(pb[x]).chnl /\ w = Head(pb[x]).wait_thd
    BY <2>2 DEF Item
  <2>4. /\ Receive(c, w, "Idle") /\ Pop(x)
        /\ UNCHANGED <<rtl, live, parent, named, flags, nchild, undefs, del, total_blocked>>
    BY <1>3, <2>1, <2>3 DEF end_wait, threadVars, ctlVars
  <2>5. WaitsAs(cur, w)  BY <1>1, <2>1, <2>3, CurReceives DEF Busy
  <2>6. ~IsBlocked(c, w)  BY <1>1, <2>5, ReceiverFree
  <2>7. ASSUME NEW d \in Channel, NEW v \in Thread
        PROVE  /\ IsBlocked(d, v)' <=> IsBlocked(d, v)
               /\ IsBlocked(d, v) => ws'[d][v].sleep_thd = ws[d][v].sleep_thd
    <3>. DEFINE st == Received(ws[c][w], "Idle")
    <3>1. ws' = [ws EXCEPT ![c][w] = st]  BY <2>4 DEF Receive
    <3>2. st.status = "Idle"
      <4>1. ws[c][w] \in Status  BY <2>3, StatusTyped
      <4>. QED  BY <4>1 DEF Received, Status
    <3>. HIDE DEF st
    <3>3. CASE d = c /\ v = w
      <4>0. ws \in [Channel -> [Thread -> Status]]  BY DEF TypeInv, TypeOK
      <4>1. ws'[d][v] = st  BY <3>1, <3>3, <4>0
      <4>. QED  BY <2>6, <3>2, <3>3, <4>1 DEF IsBlocked
    <3>4. CASE ~(d = c /\ v = w)
      <4>1. ws'[d][v] = ws[d][v]  BY <2>3, <3>1, <3>4, StatusPair
      <4>. QED  BY <4>1 DEF IsBlocked
    <3>. QED  BY <3>3, <3>4
  <2>8. \A h \in live \ {cur} : pb'[h] = pb[h]  BY <2>1, <2>4, PopTokens
  <2>9. Ready \subseteq Ready'  BY <2>4 DEF Ready
  <2>10. TreeFrame  BY <2>4, SameFrame
  <2>. QED  BY <1>1, <2>4, <2>7, <2>8, <2>9, <2>10, CurAccount
<1>. QED  BY <1>2, <1>3

(* Leaving an alt changes only WaitStatus that nobody sleeps on.           *)
LEMMA GuardsFree ==
  ASSUME TypeInv, TreeInv, DutyInv, rtl # <<>>, NEW gs, NEW w \in Thread, WaitsAs(cur, w),
         NEW status \in {"Idle", "Executing"}, ws' = SetGuards(gs, w, status, NoThread)
  PROVE  \A c \in Channel, v \in Thread :
           /\ IsBlocked(c, v)' <=> IsBlocked(c, v)
           /\ IsBlocked(c, v) => ws'[c][v].sleep_thd = ws[c][v].sleep_thd
<1>1. ASSUME NEW c \in Channel, NEW v \in Thread
      PROVE  /\ IsBlocked(c, v)' <=> IsBlocked(c, v)
             /\ IsBlocked(c, v) => ws'[c][v].sleep_thd = ws[c][v].sleep_thd
  <2>1. IF v = w /\ \E i \in DOMAIN gs : gs[i].chnl = c
        THEN ws'[c][v].status = status /\ ws'[c][v].sleep_thd = NoThread
        ELSE ws'[c][v] = ws[c][v]
    BY GuardsExact
  <2>2. ~IsBlocked(c, w)  BY ReceiverFree
  <2>. QED  BY <2>1, <2>2 DEF IsBlocked
<1>. QED  BY <1>1

LEMMA BreakAltAccount ==
  ASSUME TypeInv, TreeInv, DutyInv, Accounted, TotalBlocked, break_alt
  PROVE  Accounted' /\ TotalBlocked'
<1>1. /\ rtl # <<>> /\ Top(cur) = "EALT" /\ leave_alt(cur)
      /\ UNCHANGED <<rtl, live, parent, named, flags, nchild, undefs, del, total_blocked>>
  BY DEF break_alt, threadVars
<1>2. PICK x \in live : x = cur  BY <1>1, CurReady
<1>3. Head(pb[x]) \in Item /\ Head(pb[x]).type = "EALT"  BY <1>1, <1>2, TopOf
<1>4. PICK w \in Thread : w = Head(pb[x]).wait_thd  BY <1>3 DEF Item
<1>5. WaitsAs(cur, w)  BY <1>1, <1>2, <1>4, CurReceives DEF Busy
<1>6. Pop(x) /\ ws' = SetGuards(Head(pb[x]).guards, w, "Idle", NoThread)
  BY <1>1, <1>2, <1>4 DEF leave_alt
<1>7. \A c \in Channel, v \in Thread :
           /\ IsBlocked(c, v)' <=> IsBlocked(c, v)
           /\ IsBlocked(c, v) => ws'[c][v].sleep_thd = ws[c][v].sleep_thd
  BY <1>1, <1>5, <1>6, GuardsFree
<1>8. \A h \in live \ {cur} : pb'[h] = pb[h]  BY <1>2, <1>6, PopTokens
<1>9. Ready \subseteq Ready' /\ TreeFrame  BY <1>1, SameFrame DEF Ready
<1>. QED  BY <1>1, <1>7, <1>8, <1>9, CurAccount

LEMMA DestroyAccount ==
  ASSUME TypeInv, TypeInv', TreeInv, DutyInv, Accounted, TotalBlocked, destroy_channel
  PROVE  Accounted' /\ TotalBlocked'
<1>1. CASE Halt("error")  BY <1>1, HaltAccount
<1>2. CASE ~Halt("error")
  <2>1. PICK c \in Channel :
          /\ \A w \in ToSet(wtop[c]) : ws[c][w].status = "Idle"
          /\ \A d \in Channel : ws'[d] = IF d = c THEN [w \in Thread |-> NoStatus] ELSE ws[d]
          /\ UNCHANGED <<rtl, live, parent, named, flags, nchild, undefs, del>>
          /\ UNCHANGED total_blocked
    BY <1>2, DestroyFacts
  <2>2. ASSUME NEW d \in Channel, NEW v \in Thread
        PROVE  /\ IsBlocked(d, v)' <=> IsBlocked(d, v)
               /\ IsBlocked(d, v) => ws'[d][v].sleep_thd = ws[d][v].sleep_thd
    <3>1. CASE d = c
      <4>1. ws'[d][v] = NoStatus  BY <2>1, <3>1
      <4>2. ~IsBlocked(d, v)
        BY <2>1, <3>1 DEF DutyInv, Registered, HasStatus, IsBlocked
      <4>. QED  BY <4>1, <4>2 DEF IsBlocked, NoStatus
    <3>2. CASE d # c  BY <2>1, <3>2 DEF IsBlocked
    <3>. QED  BY <3>1, <3>2
  <2>3. ASSUME NEW h \in named  PROVE Top(h)' = Top(h)
    <3>1. h \in live /\ h \in Thread  BY DEF TreeInv, Names, TypeInv, TypeOK
    <3>2. pb[h] \in Seq(Item) /\ pb[h] # <<>>  BY <3>1, TopOf
    <3>3. Len(pb'[h]) = Len(pb[h]) /\ \A i \in 1..Len(pb[h]) : pb'[h][i].type = pb[h][i].type
      BY <1>2, <3>1, DestroyTypes
    <3>4. pb'[h] \in Seq(Item)  BY <3>1 DEF TypeInv, TypeOK
    <3>5. Len(pb[h]) \in Nat /\ Len(pb[h]) > 0  BY <3>2, Places
    <3>6. pb'[h] # <<>>
      <4>1. Len(<<>>) = 0  OBVIOUS
      <4>. QED  BY <3>3, <3>5, <4>1
    <3>7. Head(pb'[h]) = pb'[h][1] /\ Head(pb[h]) = pb[h][1]  OBVIOUS
    <3>8. 1 \in 1..Len(pb[h])  BY <3>5
    <3>. QED  BY <3>2, <3>3, <3>6, <3>7, <3>8 DEF Top
  <2>4. Ready \subseteq Ready'  BY <2>1 DEF Ready
  <2>. QED  BY <2>1, <2>2, <2>3, <2>4, AccountQuiet
<1>. QED  BY <1>1, <1>2

-----------------------------------------------------------------------------
(* Waiting: the current thread sleeps, or goes to the end of the list.     *)
LEMMA WaitAccount ==
  ASSUME TypeInv, TypeInv', TreeInv, DutyInv, Accounted, TotalBlocked, do_wait
  PROVE  Accounted' /\ TotalBlocked'
<1>1. rtl # <<>> /\ Top(cur) = "BODY"  BY CommandTree DEF do_wait
<1>2. CASE Halt("crash")  BY <1>2, HaltAccount
<1>3. CASE ~Halt("crash")
  <2>1. PICK c \in Channel, w \in Thread, b \in Bind :
          /\ WaitsAs(cur, w)
          /\ flags' = [flags EXCEPT ![w] = @ \cup {"WAITEX"}]
          /\ Push(<<Ewait(c, w, b)>>)
          /\ \/ /\ ws' = [ws EXCEPT ![c][w] = [@ EXCEPT !.status = "Executing"]]
                /\ rotate_thread /\ total_blocked' = total_blocked
             \/ /\ ws' = [ws EXCEPT ![c][w] = [@ EXCEPT !.status = "WaitBlocked",
                                                         !.sleep_thd = cur]]
                /\ total_blocked' = total_blocked + 1 /\ rtl' = Tail(rtl)
          /\ UNCHANGED <<live, parent, named, nchild, undefs, del>>
    BY <1>3, ZenonT(60) DEF do_wait
  <2>2. TreeFrame  BY <2>1, FlagFrame
  <2>3. \A d \in Channel : ~IsBlocked(d, w)  BY <1>1, <2>1, ReceiverFree
  <2>4. \A h \in live \ {cur} : pb'[h] = pb[h]
    <3>. DEFINE e == Ewait(c, w, b)
    <3>1. e \in Item  BY ProgramAssumption DEF Ewait, Item
    <3>2. Push(<<e>>)  BY <2>1
    <3>. HIDE DEF e
    <3>. QED  BY <1>1, <3>1, <3>2, PushTokens
  <2>5. CASE /\ ws' = [ws EXCEPT ![c][w] = [@ EXCEPT !.status = "Executing"]]
             /\ rotate_thread /\ total_blocked' = total_blocked
    <3>1. PICK st : st = [ws[c][w] EXCEPT !.status = "Executing"]  OBVIOUS
    <3>2. st.status = "Executing"
      <4>1. ws[c][w] \in Status  BY StatusTyped
      <4>. QED  BY <3>1, <4>1 DEF Status
    <3>3. ws' = [ws EXCEPT ![c][w] = st]  BY <2>5, <3>1
    <3>4. ASSUME NEW d \in Channel, NEW v \in Thread
          PROVE  /\ IsBlocked(d, v)' <=> IsBlocked(d, v)
                 /\ IsBlocked(d, v) => ws'[d][v].sleep_thd = ws[d][v].sleep_thd
      <4>1. ws'[d][v] = IF d = c /\ v = w THEN st ELSE ws[d][v]
        BY <3>3 DEF TypeInv, TypeOK
      <4>. QED  BY <2>3, <3>2, <4>1 DEF IsBlocked
    <3>5. Ready \subseteq Ready'  BY <1>1, <2>5, RotateKeeps
    <3>. QED  BY <1>1, <2>2, <2>4, <2>5, <3>4, <3>5, CurAccount
  <2>6. CASE /\ ws' = [ws EXCEPT ![c][w] = [@ EXCEPT !.status = "WaitBlocked",
                                                      !.sleep_thd = cur]]
             /\ total_blocked' = total_blocked + 1 /\ rtl' = Tail(rtl)
    <3>1. PICK st : st = [ws[c][w] EXCEPT !.status = "WaitBlocked", !.sleep_thd = cur]
      OBVIOUS
    <3>2. st.status = "WaitBlocked" /\ st.sleep_thd = cur
      <4>1. ws[c][w] \in Status  BY StatusTyped
      <4>. QED  BY <3>1, <4>1 DEF Status
    <3>3. ws' = [ws EXCEPT ![c][w] = st]  BY <2>6, <3>1
    <3>4. ws'[c][w] = st  BY <3>3 DEF TypeInv, TypeOK
    <3>5. ASSUME NEW d \in Channel, NEW v \in Thread
          PROVE  /\ IsBlocked(d, v)' => \/ ws'[d][v].sleep_thd = cur
                                        \/ IsBlocked(d, v)
                 /\ IsBlocked(d, v) =>
                      IsBlocked(d, v)' /\ ws'[d][v].sleep_thd = ws[d][v].sleep_thd
      <4>1. ~(d = c /\ v = w) => ws'[d][v] = ws[d][v]  BY <3>3, StatusPair
      <4>. QED  BY <2>3, <3>2, <3>4, <4>1 DEF IsBlocked
    <3>6. IsBlocked(c, w)' /\ ws'[c][w].sleep_thd = cur  BY <3>2, <3>4 DEF IsBlocked
    <3>7. \E d \in Channel, v \in Thread : IsBlocked(d, v)' /\ ws'[d][v].sleep_thd = cur
      BY <3>6
    <3>8. Top(cur) # "EOF"  BY <1>1
    <3>. QED  BY <1>1, <2>2, <2>4, <2>6, <3>5, <3>7, <3>8, AccountBlock DEF TreeFrame
  <2>. QED  BY <2>1, <2>5, <2>6
<1>. QED  BY <1>2, <1>3

(* The current thread sleeps on every guard of its alt.                    *)
LEMMA GuardsBlock ==
  ASSUME TypeInv, TreeInv, DutyInv, Accounted, TotalBlocked, TreeFrame, rtl # <<>>,
         Top(cur) # "EOF", NEW gs \in Seq([chnl : Channel \cup {Freed}, bind : BOOLEAN]),
         gs # <<>>, \A i \in DOMAIN gs : gs[i].chnl # Freed,
         NEW w \in Thread, WaitsAs(cur, w), Block(gs, w),
         \A h \in live \ {cur} : pb'[h] = pb[h]
  PROVE  Accounted' /\ TotalBlocked'
<1>1. /\ ws' = SetGuards(gs, w, "AltBlocked", cur)
      /\ total_blocked' = total_blocked + 1 /\ rtl' = Tail(rtl)
  BY DEF Block
<1>2. \A d \in Channel : ~IsBlocked(d, w)  BY ReceiverFree
<1>3. ASSUME NEW d \in Channel, NEW v \in Thread
      PROVE  IF v = w /\ \E i \in DOMAIN gs : gs[i].chnl = d
             THEN ws'[d][v].status = "AltBlocked" /\ ws'[d][v].sleep_thd = cur
             ELSE ws'[d][v] = ws[d][v]
  BY <1>1, GuardsExact
<1>4. ASSUME NEW d \in Channel, NEW v \in Thread
      PROVE  /\ IsBlocked(d, v)' => ws'[d][v].sleep_thd = cur \/ IsBlocked(d, v)
             /\ IsBlocked(d, v) =>
                  IsBlocked(d, v)' /\ ws'[d][v].sleep_thd = ws[d][v].sleep_thd
  BY <1>2, <1>3 DEF IsBlocked
<1>5. PICK d \in Channel : \E i \in DOMAIN gs : gs[i].chnl = d
  <2>1. Len(gs) \in Nat /\ Len(gs) > 0 /\ DOMAIN gs = 1..Len(gs)  BY Places
  <2>2. 1 \in 1..Len(gs)  BY <2>1
  <2>3. gs[1] \in [chnl : Channel \cup {Freed}, bind : BOOLEAN]  BY <2>2, ElementOfSeq
  <2>. QED  BY <2>1, <2>2, <2>3
<1>6. IsBlocked(d, w)' /\ ws'[d][w].sleep_thd = cur  BY <1>3, <1>5 DEF IsBlocked
<1>7. \E c \in Channel, v \in Thread : IsBlocked(c, v)' /\ ws'[c][v].sleep_thd = cur
  BY <1>6
<1>. QED  BY <1>1, <1>4, <1>7, AccountBlock DEF TreeFrame

LEMMA AltAccount ==
  ASSUME Guarded, TypeInv, TypeInv', TreeInv, DutyInv, Accounted, TotalBlocked, do_alt
  PROVE  Accounted' /\ TotalBlocked'
<1>1. rtl # <<>> /\ Top(cur) = "BODY"  BY CommandTree DEF do_alt
<1>2. CASE Halt("crash")  BY <1>2, HaltAccount
<1>3. CASE ~Halt("crash")
  <2>0. del' = del /\ undefs' = undefs  BY <1>3, ZenonT(30) DEF do_alt
  <2>1. PICK gs \in AltGuards, w \in Thread, d \in Default :
          /\ WaitsAs(cur, w)
          /\ flags' = [flags EXCEPT ![w] = @ \cup {"WAITEX"}]
          /\ Push(<<Ealt(gs, w, d)>>)
          /\ \/ /\ ws' = SetGuards(gs, w, "Executing", NoThread)
                /\ rotate_thread /\ UNCHANGED <<total_blocked, phase>>
             \/ Block(gs, w)
          /\ UNCHANGED <<live, parent, named, nchild, timeVars, eff, mtop, del, level, undefs>>
    BY <1>3, ZenonT(30) DEF do_alt
  <2>2. TreeFrame  BY <2>1, FlagFrame
  <2>3. gs \in Seq([chnl : Channel \cup {Freed}, bind : BOOLEAN]) /\ d \in BOOLEAN
    BY GuardChannelSeq, ProgramAssumption
  <2>4. \A h \in live \ {cur} : pb'[h] = pb[h]
    <3>. DEFINE e == Ealt(gs, w, d)
    <3>1. e \in Item  BY <2>3 DEF Ealt, Item
    <3>2. Push(<<e>>)  BY <2>1
    <3>. HIDE DEF e
    <3>. QED  BY <1>1, <3>1, <3>2, PushTokens
  <2>5. CASE /\ ws' = SetGuards(gs, w, "Executing", NoThread)
             /\ rotate_thread /\ UNCHANGED <<total_blocked, phase>>
    <3>1. \A c \in Channel, v \in Thread :
           /\ IsBlocked(c, v)' <=> IsBlocked(c, v)
           /\ IsBlocked(c, v) => ws'[c][v].sleep_thd = ws[c][v].sleep_thd
      BY <1>1, <2>1, <2>5, GuardsFree
    <3>2. Ready \subseteq Ready'  BY <1>1, <2>5, RotateKeeps
    <3>. QED  BY <1>1, <2>2, <2>4, <2>5, <3>1, <3>2, CurAccount
  <2>6. CASE Block(gs, w)
    <3>1. gs # <<>>  BY DEF Guarded
    <3>2. \A i \in DOMAIN gs : gs[i].chnl # Freed
      <4>1. gs \in Seq(Guard)  BY ProgramAssumption
      <4>2. ASSUME NEW i \in DOMAIN gs  PROVE gs[i].chnl # Freed
        <5>1. i \in 1..Len(gs)  BY <4>1, Places
        <5>2. gs[i] \in Guard  BY <4>1, <5>1, ElementOfSeq
        <5>. QED  BY <5>2, ChannelAssumption DEF Guard
      <4>. QED  BY <4>2
    <3>3. Top(cur) # "EOF"  BY <1>1
    <3>. QED  BY <1>1, <2>1, <2>2, <2>3, <2>4, <2>6, <3>1, <3>2, <3>3, GuardsBlock
  <2>. QED  BY <2>1, <2>5, <2>6
<1>. QED  BY <1>2, <1>3

LEMMA EndAltAccount ==
  ASSUME TypeInv, TypeInv', TreeInv, DutyInv, AccountInv, end_alt
  PROVE  Accounted' /\ TotalBlocked'
<1>1. rtl # <<>> /\ Top(cur) = "EALT"  BY TokenTree DEF end_alt
<1>2. PICK x \in live : x = cur  BY <1>1, CurReady
<1>. DEFINE item == Head(pb[x])
            gs == item.guards
            w == item.wait_thd
<1>3. item \in Item /\ item.type = "EALT"  BY <1>1, <1>2, TopOf
<1>4. w \in Thread /\ gs \in Seq([chnl : Channel \cup {Freed}, bind : BOOLEAN])
  BY <1>3 DEF Item
<1>5. gs # <<>>
  <2>1. item \in ToSet(pb[x])  BY TopToken
  <2>. QED  BY <1>3, <2>1 DEF AccountInv, AltHasGuard
<1>6. WaitsAs(cur, w)  BY <1>1, <1>2, CurReceives DEF Busy
<1>7. Accounted /\ TotalBlocked  BY DEF AccountInv
<1>8. CASE \E how \in {"error", "crash"} : Halt(how)  BY <1>7, <1>8, HaltAccount
<1>9. CASE /\ \A d \in Channel, v \in Thread :
                /\ ws'[d][v].status = ws[d][v].status
                /\ ws'[d][v].sleep_thd = ws[d][v].sleep_thd
           /\ Push(<<Mark("BODY")>>) /\ rotate_thread
           /\ UNCHANGED <<live, parent, named, flags, nchild, undefs, del, total_blocked>>
  <2>1. \A h \in live \ {cur} : pb'[h] = pb[h]
    <3>. DEFINE e == Mark("BODY")
    <3>1. e \in Item  BY MarkItem
    <3>2. Push(<<e>>)  BY <1>9
    <3>. HIDE DEF e
    <3>. QED  BY <1>1, <3>1, <3>2, PushTokens
  <2>2. Ready \subseteq Ready'  BY <1>1, <1>9, RotateKeeps
  <2>3. TreeFrame  BY <1>9, SameFrame
  <2>4. \A c \in Channel, v \in Thread :
           /\ IsBlocked(c, v)' <=> IsBlocked(c, v)
           /\ IsBlocked(c, v) => ws'[c][v].sleep_thd = ws[c][v].sleep_thd
    BY <1>9 DEF IsBlocked
  <2>. QED  BY <1>1, <1>7, <1>9, <2>1, <2>2, <2>3, <2>4, CurAccount
<1>10. ASSUME NEW i \in DOMAIN gs, Freed \notin GuardChannels(item),
              Receive(gs[i].chnl, w, ws[gs[i].chnl][w].status)
       PROVE  \A d \in Channel, v \in Thread :
                /\ ws'[d][v].status = ws[d][v].status
                /\ ws'[d][v].sleep_thd = ws[d][v].sleep_thd
  <2>1. PICK c \in Channel : c = gs[i].chnl
    <3>1. i \in 1..Len(gs)  BY <1>4, LenProperties
    <3>2. gs[i] \in [chnl : Channel \cup {Freed}, bind : BOOLEAN]
      BY <1>4, <3>1, ElementOfSeq
    <3>3. gs[i].chnl \in Channel \cup {Freed}  BY <3>2
    <3>. QED  BY <1>10, <3>3 DEF GuardChannels
  <2>2. PICK v \in Thread : v = w  BY <1>4
  <2>. DEFINE st == Received(ws[c][v], ws[c][v].status)
  <2>3. ws' = [ws EXCEPT ![c][v] = st]  BY <1>10, <2>1, <2>2 DEF Receive
  <2>4. st.status = ws[c][v].status /\ st.sleep_thd = ws[c][v].sleep_thd
    <3>1. ws[c][v] \in Status  BY StatusTyped
    <3>. QED  BY <3>1 DEF Received, Status
  <2>. HIDE DEF st
  <2>. QED  BY <2>3, <2>4, StatusPair
<1>11. CASE /\ Block(gs, w) /\ Freed \notin GuardChannels(item)
            /\ UNCHANGED <<live, parent, named, flags, nchild, undefs, del, pb>>
  <2>1. \A i \in DOMAIN gs : gs[i].chnl # Freed  BY <1>11 DEF GuardChannels
  <2>2. TreeFrame  BY <1>11, SameFrame
  <2>3. Top(cur) # "EOF" /\ \A h \in live \ {cur} : pb'[h] = pb[h]  BY <1>1, <1>11
  <2>. HIDE DEF gs, w
  <2>. QED  BY <1>1, <1>4, <1>5, <1>6, <1>7, <1>11, <2>1, <2>2, <2>3, GuardsBlock
<1>12. \/ \E how \in {"error", "crash"} : Halt(how)
       \/ /\ Freed \notin GuardChannels(item)
          /\ \E i \in DOMAIN gs : Receive(gs[i].chnl, w, ws[gs[i].chnl][w].status)
          /\ Push(<<Mark("BODY")>>) /\ rotate_thread
          /\ UNCHANGED <<live, parent, named, flags, nchild, undefs, del, total_blocked>>
       \/ /\ Push(<<Mark("BODY")>>) /\ rotate_thread /\ ws' = ws
          /\ UNCHANGED <<live, parent, named, flags, nchild, undefs, del, total_blocked>>
       \/ /\ Block(gs, w) /\ Freed \notin GuardChannels(item)
          /\ UNCHANGED <<live, parent, named, flags, nchild, undefs, del, pb>>
  BY <1>2 DEF end_alt, threadVars, stackVars, chanVars, ctlVars
<1>. HIDE DEF item, gs, w
<1>. QED  BY <1>8, <1>9, <1>10, <1>11, <1>12

-----------------------------------------------------------------------------
(* Waking: a signal wakes everybody who sleeps on the channel.             *)
LEMMA SleeperSame ==
  ASSUME TypeInv, TreeInv, DutyInv, NEW c \in Channel, NEW d \in Channel, NEW v \in Thread,
         IsBlocked(c, v), IsBlocked(d, v)
  PROVE  ws[c][v].sleep_thd = ws[d][v].sleep_thd
<1>1. PICK g \in live \ Ready :
        /\ g = ws[c][v].sleep_thd /\ Refers(pb[g][1], c, v, ws[c][v].status)
        /\ Head(pb[g]) = pb[g][1] /\ Top(g) \in {"EWAIT", "EALT"}
  BY SleeperOf
<1>2. Awakable(g)  BY <1>1, BusyAwakable
<1>3. Head(pb[g]) \in ToSet(pb[g])  BY TopToken
<1>4. Head(pb[g]).type \in Busy /\ Head(pb[g]).wait_thd = v  BY <1>1 DEF Refers, Busy
<1>5. WaitsAs(g, v)  BY <1>3, <1>4 DEF DutyInv, Receivers
<1>. QED  BY <1>1, <1>2, <1>5, SleeperUnique

LEMMA InjectiveCount ==
  ASSUME NEW S, NEW s \in Seq(S), IsInjective(s)
  PROVE  IsFiniteSet(ToSet(s)) /\ Cardinality(ToSet(s)) = Len(s)
<1>. DEFINE D == 1..Len(s)
            T == ToSet(s)
<1>1. Len(s) \in Nat /\ DOMAIN s = D  BY Places
<1>2. IsFiniteSet(D) /\ Cardinality(D) = Len(s)  BY <1>1, FS_Interval
<1>3. s \in [D -> T]
  <2>1. \A i \in D : s[i] \in T  BY Places
  <2>2. s = [i \in D |-> s[i]]  BY <1>1, SeqDef
  <2>. QED  BY <2>1, <2>2
<1>4. \A e \in T : \E i \in D : s[i] = e  BY Places
<1>. HIDE DEF D, T
<1>5. s \in Bijection(D, T)  BY <1>3, <1>4 DEF Bijection, Injection, Surjection
<1>6. ExistsBijection(D, T)  BY <1>5 DEF ExistsBijection
<1>7. IsFiniteSet(T) /\ Cardinality(T) = Cardinality(D)  BY <1>2, <1>6, FS_Bijection
<1>. QED  BY <1>2, <1>7 DEF T

LEMMA LessCount ==
  ASSUME NEW S, IsFiniteSet(S), NEW W \in SUBSET S
  PROVE  /\ IsFiniteSet(S \ W) /\ Cardinality(W) \in Nat
         /\ Cardinality(S \ W) = Cardinality(S) - Cardinality(W)
<1>1. IsFiniteSet(W) /\ IsFiniteSet(S \ W)  BY FS_Subset
<1>2. W \cap (S \ W) = {} /\ W \cup (S \ W) = S  OBVIOUS
<1>3. Cardinality(W) \in Nat /\ Cardinality(S \ W) \in Nat  BY <1>1, FS_CardinalityType
<1>4. Cardinality(W \cup (S \ W)) = Cardinality(W) + Cardinality(S \ W)
  <2>. DEFINE R == S \ W
  <2>1. IsFiniteSet(R) /\ W \cap R = {} /\ Cardinality(R) \in Nat  BY <1>1, <1>3
  <2>2. Cardinality(W \cup R) = Cardinality(W) + Cardinality(R) - Cardinality(W \cap R)
    <3>. HIDE DEF R
    <3>. QED  BY <1>1, <2>1, FS_Union
  <2>3. Cardinality(W \cap R) = 0  BY <2>1, FS_EmptySet
  <2>. QED  BY <1>3, <2>2, <2>3
<1>5. Cardinality(S) = Cardinality(W) + Cardinality(S \ W)  BY <1>2, <1>4
<1>6. ASSUME NEW a, NEW b \in Nat, NEW d \in Nat, a = b + d  PROVE d = a - b  BY <1>6
<1>. QED  BY <1>1, <1>3, <1>5, <1>6

LEMMA WokenSleepers ==
  ASSUME TypeInv, TreeInv, NEW c \in Channel, NEW order \in WakeOrders(c)
  PROVE  LET W == ToSet([i \in DOMAIN order |-> ws[c][order[i]].sleep_thd])
         IN /\ W = {ws[c][w].sleep_thd : w \in {v \in ToSet(wtop[c]) : IsBlocked(c, v)}}
            /\ Cardinality(W) = Len(order) /\ Len(order) \in Nat
            /\ ToSet(rtl \o [i \in DOMAIN order |-> ws[c][order[i]].sleep_thd]) = Ready \cup W
            /\ W \subseteq Sleeping
<1>. DEFINE S == {v \in ToSet(wtop[c]) : IsBlocked(c, v)}
            woken == [i \in DOMAIN order |-> ws[c][order[i]].sleep_thd]
            W == ToSet(woken)
<1>1. S \subseteq Thread /\ IsFiniteSet(S) /\ \A w \in S : IsBlocked(c, w)
  <2>1. wtop[c] \in Seq(Thread)  BY DEF TypeInv, TypeOK
  <2>2. S \subseteq Thread  BY <2>1, ElementsInSet
  <2>. QED  BY <2>2, ThreadAssumption, FS_Subset
<1>2. order \in SetToSeqs(S)  BY DEF WakeOrders
<1>3. /\ ToSet(order) = S /\ DOMAIN order = 1..Len(order) /\ Len(order) \in Nat
      /\ order \in Seq(S)
  <2>. HIDE DEF S
  <2>1. order \in Seq(S) /\ ToSet(order) = S /\ DOMAIN order = 1..Len(order)
    BY <1>1, <1>2, AllPlaced
  <2>. QED  BY <2>1, LenProperties
<1>4. woken \in Seq(Thread) /\ IsInjective(woken)  BY WokenReady
<1>5. Len(woken) = Len(order)  BY <1>3, <1>4, Places
<1>6. W = {ws[c][w].sleep_thd : w \in S}
  <2>1. W = {ws[c][order[i]].sleep_thd : i \in DOMAIN order}  BY DEF ToSet
  <2>2. S = {order[i] : i \in DOMAIN order}  BY <1>3 DEF ToSet
  <2>. HIDE DEF S, W
  <2>. QED  BY <2>1, <2>2
<1>7. Cardinality(W) = Len(order)
  <2>. HIDE DEF woken
  <2>. QED  BY <1>4, <1>5, InjectiveCount
<1>8. ToSet(rtl \o woken) = Ready \cup W
  <2>1. rtl \in Seq(Thread)  BY DEF TypeInv, TypeOK
  <2>. HIDE DEF woken
  <2>. QED  BY <1>4, <2>1, ConcatReady DEF Ready
<1>9. W \subseteq Sleeping
  <2>1. ASSUME NEW h \in W  PROVE h \in Sleeping
    <3>1. PICK w \in S : h = ws[c][w].sleep_thd  BY <1>6
    <3>2. h \in live \ Ready /\ live \subseteq Thread
      BY <1>1, <3>1, SleeperOf DEF TypeInv, TypeOK
    <3>. QED  BY <1>1, <3>1, <3>2 DEF Sleeping, Sleeps
  <2>. QED  BY <2>1
<1>. QED  BY <1>3, <1>6, <1>7, <1>8, <1>9

LEMMA SendAccount ==
  ASSUME TypeInv, TreeInv, DutyInv, TotalBlocked, NEW c \in Channel, NEW time, NEW obj,
         NEW gone, Send(c, time, obj, gone),
         \A d \in Channel, v \in Thread : v \in gone => ~IsBlocked(d, v)
  PROVE  /\ total_blocked' = Cardinality(Sleeping')
         /\ Ready \subseteq Ready'
         /\ \A h : Sleeps(h) => h \in Ready' \/ Sleeps(h)'
<1>1. PICK order \in WakeOrders(c) :
        /\ rtl' = rtl \o [i \in DOMAIN order |-> ws[c][order[i]].sleep_thd]
        /\ total_blocked' = total_blocked - Len(order)
  BY DEF Send
<1>. DEFINE W == ToSet([i \in DOMAIN order |-> ws[c][order[i]].sleep_thd])
<1>2. /\ W = {ws[c][w].sleep_thd : w \in {v \in ToSet(wtop[c]) : IsBlocked(c, v)}}
      /\ Cardinality(W) = Len(order) /\ Len(order) \in Nat
      /\ Ready' = Ready \cup W /\ W \subseteq Sleeping
  <2>1. /\ W = {ws[c][w].sleep_thd : w \in {v \in ToSet(wtop[c]) : IsBlocked(c, v)}}
        /\ Cardinality(W) = Len(order) /\ Len(order) \in Nat
        /\ ToSet(rtl \o [i \in DOMAIN order |-> ws[c][order[i]].sleep_thd]) = Ready \cup W
        /\ W \subseteq Sleeping
    BY WokenSleepers
  <2>. QED  BY <1>1, <2>1 DEF Ready
<1>. HIDE DEF W
<1>3. StillBlocked /\ \A d \in Channel, v \in Thread :
                        IsBlocked(d, v)' => ws[d][v].sleep_thd \notin Ready'
  BY SendTree
<1>4. ASSUME NEW d \in Channel, NEW v \in Thread
      PROVE  /\ IsBlocked(d, v)' => \/ ws'[d][v].sleep_thd \in {}
                                    \/ /\ IsBlocked(d, v) /\ ws[d][v].sleep_thd \notin W
                                       /\ ws'[d][v].sleep_thd = ws[d][v].sleep_thd
             /\ IsBlocked(d, v) => \/ ws[d][v].sleep_thd \in W
                                   \/ /\ IsBlocked(d, v)'
                                      /\ ws'[d][v].sleep_thd = ws[d][v].sleep_thd
  <2>1. IsBlocked(d, v)' => /\ IsBlocked(d, v) /\ ws[d][v].sleep_thd \notin W
                            /\ ws'[d][v].sleep_thd = ws[d][v].sleep_thd
    BY <1>2, <1>3 DEF StillBlocked
  <2>2. CASE IsBlocked(d, v) /\ WokenBy(c, d, v)
    <3>1. v \in ToSet(wtop[c]) /\ IsBlocked(c, v)  BY <2>2 DEF WokenBy, HasStatus
    <3>2. ws[c][v].sleep_thd \in W  BY <1>2, <3>1
    <3>3. ws[c][v].sleep_thd = ws[d][v].sleep_thd  BY <2>2, <3>1, SleeperSame
    <3>. QED  BY <2>1, <3>2, <3>3
  <2>3. CASE IsBlocked(d, v) /\ ~WokenBy(c, d, v)
    <3>1. v \notin gone  BY <2>3
    <3>2. /\ ws'[d][v].status = ws[d][v].status
          /\ ws'[d][v].sleep_thd = ws[d][v].sleep_thd
      BY <2>3, <3>1, SendStatus
    <3>3. IsBlocked(d, v)'  BY <2>3, <3>2 DEF IsBlocked
    <3>. QED  BY <2>1, <3>2, <3>3
  <2>. QED  BY <2>1, <2>2, <2>3
<1>5. /\ Sleeping' = (Sleeping \ W) \cup {}
      /\ \A h : Sleeps(h) => h \in W \/ Sleeps(h)'
  <2>. DEFINE A == {}
  <2>1. A \in SUBSET Thread /\ \A h \in A : Sleeps(h)'  OBVIOUS
  <2>2. \A d \in Channel, v \in Thread :
           /\ IsBlocked(d, v)' => \/ ws'[d][v].sleep_thd \in A
                                  \/ /\ IsBlocked(d, v) /\ ws[d][v].sleep_thd \notin W
                                     /\ ws'[d][v].sleep_thd = ws[d][v].sleep_thd
           /\ IsBlocked(d, v) => \/ ws[d][v].sleep_thd \in W
                                 \/ /\ IsBlocked(d, v)'
                                    /\ ws'[d][v].sleep_thd = ws[d][v].sleep_thd
    BY <1>4
  <2>3. /\ Sleeping' = (Sleeping \ W) \cup A
        /\ \A h : Sleeps(h) => h \in W \/ Sleeps(h)'
    <3>. HIDE DEF A
    <3>. QED  BY <2>1, <2>2, SleepingStep
  <2>. QED  BY <2>3
<1>6. Sleeping' = Sleeping \ W  BY <1>5
<1>7. Cardinality(Sleeping \ W) = Cardinality(Sleeping) - Cardinality(W)
  BY <1>2, SleepingFinite, LessCount
<1>. QED  BY <1>1, <1>2, <1>5, <1>6, <1>7 DEF TotalBlocked

LEMMA SignalAccount ==
  ASSUME TypeInv, TreeInv, DutyInv, Accounted, TotalBlocked, do_signal
  PROVE  Accounted' /\ TotalBlocked'
<1>1. PICK c \in Channel, obj \in Loaded : Send(c, reg_t[cur], obj, {})
  BY DEF do_signal
<1>2. /\ total_blocked' = Cardinality(Sleeping')
      /\ Ready \subseteq Ready'
      /\ \A h : Sleeps(h) => h \in Ready' \/ Sleeps(h)'
  <2>. DEFINE gone == {}
  <2>1. Send(c, reg_t[cur], obj, gone)  BY <1>1
  <2>2. \A d \in Channel, v \in Thread : v \in gone => ~IsBlocked(d, v)  OBVIOUS
  <2>. HIDE DEF gone
  <2>. QED  BY <2>1, <2>2, SendAccount
<1>3. UNCHANGED <<live, parent, named, flags, del, pb>>
  BY DEF do_signal, threadVars, stackVars, ctlVars
<1>4. \A h \in named : Top(h)' = Top(h)  BY <1>3 DEF Top
<1>. QED  BY <1>2, <1>3, <1>4, AccountStep
(* A blocked alt that nothing can wake any more is left by its thread.     *)
LEMMA WakeAccount ==
  ASSUME TypeInv, TreeInv, DutyInv, Accounted, TotalBlocked,
         NEW c \in Channel, NEW w \in Thread, ws[c][w].status = "AltBlocked",
         rtl' = <<ws[c][w].sleep_thd>> \o rtl, leave_alt(ws[c][w].sleep_thd),
         total_blocked' = total_blocked - 1,
         UNCHANGED <<live, parent, named, flags, del>>
  PROVE  Accounted' /\ TotalBlocked'
<1>0. IsBlocked(c, w)  BY DEF IsBlocked
<1>1. PICK x \in live \ Ready : /\ x = ws[c][w].sleep_thd
                                /\ Refers(pb[x][1], c, w, "AltBlocked")
                                /\ Head(pb[x]) = pb[x][1] /\ Top(x) \in {"EWAIT", "EALT"}
  BY <1>0, SleeperOf
<1>. DEFINE item == Head(pb[x])
            R == {x}
            A == {}
<1>2. item.wait_thd = w /\ c \in GuardChannels(item)  BY <1>1 DEF Refers
<1>3. /\ live \subseteq Thread /\ pb \in [Thread -> Seq(Item)] /\ named \subseteq live
      /\ rtl \in Seq(Thread) /\ IsInjective(rtl) /\ x \in Thread
  BY <1>1 DEF TypeInv, TypeOK, TreeInv, Listed, Names
<1>4. ws' = SetGuards(item.guards, w, "Idle", NoThread)  BY <1>1, <1>2 DEF leave_alt
<1>5. ASSUME NEW d \in Channel, NEW v \in Thread
      PROVE  IF v = w /\ d \in GuardChannels(item)
             THEN ws'[d][v].status = "Idle"
             ELSE ws'[d][v] = ws[d][v]
  <2>. DEFINE gs == item.guards
  <2>1. IF v = w /\ \E i \in DOMAIN gs : gs[i].chnl = d
        THEN ws'[d][v].status = "Idle" /\ ws'[d][v].sleep_thd = NoThread
        ELSE ws'[d][v] = ws[d][v]
    <3>1. ws' = SetGuards(gs, w, "Idle", NoThread)  BY <1>4
    <3>. HIDE DEF gs
    <3>. QED  BY <3>1, GuardsExact
  <2>. QED  BY <2>1 DEF GuardChannels
<1>6. ASSUME NEW d \in Channel, NEW v \in Thread
      PROVE  /\ IsBlocked(d, v)' => \/ ws'[d][v].sleep_thd \in A
                                    \/ /\ IsBlocked(d, v) /\ ws[d][v].sleep_thd \notin R
                                       /\ ws'[d][v].sleep_thd = ws[d][v].sleep_thd
             /\ IsBlocked(d, v) => \/ ws[d][v].sleep_thd \in R
                                   \/ /\ IsBlocked(d, v)'
                                      /\ ws'[d][v].sleep_thd = ws[d][v].sleep_thd
  <2>1. CASE v = w /\ d \in GuardChannels(item)
    <3>1. ~IsBlocked(d, v)'  BY <1>5, <2>1 DEF IsBlocked
    <3>2. IsBlocked(d, v) => ws[d][v].sleep_thd = x  BY <1>0, <1>1, <2>1, SleeperSame
    <3>. QED  BY <3>1, <3>2
  <2>2. CASE ~(v = w /\ d \in GuardChannels(item))
    <3>1. ws'[d][v] = ws[d][v]  BY <1>5, <2>2
    <3>2. ASSUME IsBlocked(d, v), ws[d][v].sleep_thd = x  PROVE FALSE
      <4>1. ws[c][w].sleep_thd = ws[d][v].sleep_thd  BY <1>1, <3>2
      <4>2. w = v /\ (d = c \/ d \in GuardChannels(Head(pb[ws[c][w].sleep_thd])))
        BY <1>0, <3>2, <4>1, OneReceiver
      <4>. QED  BY <1>1, <1>2, <2>2, <4>2
    <3>. QED  BY <3>1, <3>2 DEF IsBlocked
  <2>. QED  BY <2>1, <2>2
<1>7. /\ Sleeping' = (Sleeping \ R) \cup A
      /\ \A h : Sleeps(h) => h \in R \/ Sleeps(h)'
  <2>1. A \in SUBSET Thread /\ \A h \in A : Sleeps(h)'  OBVIOUS
  <2>. HIDE DEF A, R
  <2>. QED  BY <1>6, <2>1, SleepingStep
<1>8. x \in Sleeping  BY <1>0, <1>1, <1>3 DEF Sleeping, Sleeps
<1>9. Cardinality(Sleeping') = Cardinality(Sleeping) - 1
  <2>1. Sleeping' = Sleeping \ {x}  BY <1>7
  <2>. QED  BY <1>8, <2>1, SleepingFinite, FS_RemoveElement
<1>10. Ready' = {x} \cup Ready  BY <1>1, <1>3, ConsReady DEF Ready
<1>11. ASSUME NEW h \in named, Top(h) = "EOF"  PROVE Top(h)' = "EOF"
  <2>1. h # x  BY <1>1, <1>11
  <2>2. pb'[h] = pb[h]  BY <1>1, <1>3, <2>1 DEF leave_alt, Pop
  <2>. QED  BY <1>11, <2>2 DEF Top
<1>. QED  BY <1>7, <1>9, <1>10, <1>11, AccountStep DEF TotalBlocked

LEMMA DeadLockAccount ==
  ASSUME TypeInv, TreeInv, DutyInv, Accounted, TotalBlocked, check_dead_lock
  PROVE  Accounted' /\ TotalBlocked'
<1>1. CASE Halt("error")  BY <1>1, HaltAccount
<1>2. CASE \E c \in Channel, w \in Thread :
             /\ FirstBlocked(c, w) /\ ws[c][w].status # "WaitBlocked"
             /\ rtl' = <<ws[c][w].sleep_thd>> \o rtl /\ leave_alt(ws[c][w].sleep_thd)
             /\ total_blocked' = total_blocked - 1
             /\ UNCHANGED <<threadVars, ctlVars>>
  <2>1. PICK c \in Channel, w \in Thread :
             /\ FirstBlocked(c, w) /\ ws[c][w].status # "WaitBlocked"
             /\ rtl' = <<ws[c][w].sleep_thd>> \o rtl /\ leave_alt(ws[c][w].sleep_thd)
             /\ total_blocked' = total_blocked - 1
             /\ UNCHANGED <<threadVars, ctlVars>>
    BY <1>2
  <2>2. ws[c][w].status = "AltBlocked"  BY <2>1 DEF FirstBlocked, IsBlocked
  <2>3. UNCHANGED <<live, parent, named, flags, del>>  BY <2>1 DEF threadVars, ctlVars
  <2>. QED  BY <2>1, <2>2, <2>3, WakeAccount
<1>3. CASE UNCHANGED <<rtl, threadVars, stackVars, chanVars, del>>
  <2>1. UNCHANGED <<rtl, live, parent, named, flags, pb, ws, total_blocked, del>>
    BY <1>3 DEF threadVars, stackVars, chanVars
  <2>2. \A h : Top(h)' = Top(h)  BY <2>1 DEF Top
  <2>3. Ready' = Ready  BY <2>1 DEF Ready
  <2>. QED  BY <2>1, <2>2, <2>3, SameBlocked, AccountQuiet
<1>. QED  BY <1>1, <1>2, <1>3 DEF check_dead_lock

-----------------------------------------------------------------------------
(* The end of a thread: a group wakes its parent; the thread is deleted or *)
(* idle.                                                                   *)
LEMMA SameSleeps ==
  ASSUME UNCHANGED <<ws, total_blocked>>, TotalBlocked
  PROVE  TotalBlocked' /\ \A h : Sleeps(h)' <=> Sleeps(h)
<1>1. Sleeping' = Sleeping /\ \A h : Sleeps(h)' <=> Sleeps(h)
  BY SameBlocked, SameSleeping
<1>. QED  BY <1>1 DEF TotalBlocked

LEMMA EofAccount ==
  ASSUME TypeInv, TreeInv, Accounted, TotalBlocked, do_eof
  PROVE  Accounted' /\ TotalBlocked'
<1>1. /\ del = NoThread /\ rtl # <<>> /\ Top(cur) = "EOF"
      /\ UNCHANGED <<live, parent, named, flags, pb, ws, total_blocked>>
  BY DEF do_eof, threadVars, stackVars, chanVars
<1>2. PICK x \in Ready : /\ x = cur /\ x \in live /\ x \in Thread /\ Awakable(x)
  BY <1>1, CurReady
<1>3. rtl \in Seq(Thread) /\ IsInjective(rtl) /\ live \subseteq Thread /\ NoThread \notin live
  BY ThreadAssumption DEF TypeInv, TypeOK, TreeInv, Listed
<1>4. /\ rtl' = IF Returns(x) THEN <<parent[x]>> \o Tail(rtl) ELSE Tail(rtl)
      /\ del' = IF x \in named THEN NoThread ELSE x
  BY <1>2 DEF do_eof
<1>5. Tail(rtl) \in Seq(Thread) /\ ToSet(Tail(rtl)) = Ready \ {x}
  BY <1>1, <1>2, <1>3, TailReady, HeadTailProperties DEF Ready, cur
<1>6. Ready' = (Ready \ {x}) \cup (IF Returns(x) THEN {parent[x]} ELSE {})
  <2>1. CASE Returns(x)
    <3>. DEFINE p == parent[x]
    <3>1. p \in Thread
      BY <1>2, <1>3, <2>1, ThreadAssumption
         DEF Returns, TypeInv, GroupHasParent, TreeInv, Shape
    <3>2. rtl' = <<p>> \o Tail(rtl)  BY <1>4, <2>1
    <3>. HIDE DEF p
    <3>3. Ready' = {p} \cup (Ready \ {x})  BY <1>5, <3>1, <3>2, ConsReady DEF Ready
    <3>. QED  BY <2>1, <3>3 DEF p
  <2>2. CASE ~Returns(x)  BY <1>4, <1>5, <2>2 DEF Ready
  <2>. QED  BY <2>1, <2>2
<1>7. TotalBlocked' /\ \A h : Sleeps(h)' <=> Sleeps(h)  BY <1>1, SameSleeps
<1>8. \A h : Top(h)' = Top(h)  BY <1>1 DEF Top
<1>9. ASSUME NEW h \in live  PROVE Accounts(h)'
  <2>1. CASE h \in Ready
    <3>1. CASE h = x /\ x \in named  BY <1>1, <1>2, <1>8, <3>1 DEF Accounts, Idle
    <3>2. CASE h = x /\ x \notin named  BY <1>4, <3>2 DEF Accounts
    <3>3. CASE h # x  BY <1>6, <2>1, <3>3 DEF Accounts
    <3>. QED  BY <3>1, <3>2, <3>3
  <2>2. CASE Sleeps(h)  BY <1>7, <2>2 DEF Accounts
  <2>3. CASE Suspended(h)
    <3>1. PICK k \in Thread : Suspending(k) /\ parent[k] = h  BY <2>3 DEF Suspended
    <3>2. CASE k = x
      <4>1. Returns(x)  BY <3>1, <3>2 DEF Suspending, Returns, TreeInv, Names
      <4>2. h \in Ready'  BY <1>6, <3>1, <3>2, <4>1
      <4>. QED  BY <4>2 DEF Accounts
    <3>3. CASE k # x
      <4>1. Suspending(k)' /\ parent'[k] = h
        BY <1>1, <1>3, <1>4, <3>1, <3>3 DEF Suspending, Exiting
      <4>2. Suspended(h)'  BY <4>1 DEF Suspended
      <4>. QED  BY <4>2 DEF Accounts
    <3>. QED  BY <3>2, <3>3
  <2>4. CASE Idle(h)  BY <1>1, <1>8, <2>4 DEF Accounts, Idle
  <2>5. CASE Exiting(h)  BY <1>1, <2>5 DEF Accounts, Exiting
  <2>6. h # del  BY <1>1, <1>3
  <2>. QED  BY <2>1, <2>2, <2>3, <2>4, <2>5, <2>6 DEF Accounted, Accounts
<1>. QED  BY <1>1, <1>7, <1>9 DEF Accounted

(* A thread with children becomes an exiting one.                          *)
LEMMA PostponeAccount ==
  ASSUME TypeInv, TreeInv, Accounted, TotalBlocked, postpone_delete
  PROVE  Accounted' /\ TotalBlocked'
<1>1. /\ del # NoThread /\ del' = NoThread
      /\ flags' = [flags EXCEPT ![del] = @ \cup {"EXITING"}]
      /\ UNCHANGED <<rtl, live, parent, named, pb, ws, total_blocked>>
  BY DEF postpone_delete, stackVars, chanVars
<1>2. PICK x \in live : x = del  BY <1>1 DEF TreeInv, Deleted
<1>3. live \subseteq Thread /\ flags \in [Thread -> SUBSET Flag] /\ NoThread \notin live
  BY ThreadAssumption DEF TypeInv, TypeOK
<1>4. /\ flags'[x] = flags[x] \cup {"EXITING"}
      /\ \A h \in Thread \ {x} : flags'[h] = flags[h]
  BY <1>1, <1>2, <1>3
<1>5. TotalBlocked' /\ \A h : Sleeps(h)' <=> Sleeps(h)  BY <1>1, SameSleeps
<1>6. Ready' = Ready /\ \A h : Top(h)' = Top(h)  BY <1>1 DEF Top, Ready
<1>7. ASSUME NEW h \in live  PROVE Accounts(h)'
  <2>1. CASE h = x  BY <1>4, <2>1 DEF Accounts, Exiting
  <2>2. CASE h # x /\ Suspended(h)
    <3>1. PICK k \in Thread : Suspending(k) /\ parent[k] = h  BY <2>2 DEF Suspended
    <3>2. k # x /\ k \in live  BY <1>2, <3>1 DEF Suspending
    <3>3. Suspending(k)' /\ parent'[k] = h
      BY <1>1, <1>3, <1>4, <3>1, <3>2 DEF Suspending, Exiting
    <3>4. Suspended(h)'  BY <3>3 DEF Suspended
    <3>. QED  BY <3>4 DEF Accounts
  <2>3. CASE h # x /\ ~Suspended(h)
    <3>1. h \in Ready \/ Sleeps(h) \/ Idle(h) \/ Exiting(h)
      BY <1>2, <2>3 DEF Accounted, Accounts
    <3>2. Exiting(h) => Exiting(h)'  BY <1>3, <1>4, <2>3 DEF Exiting
    <3>3. Idle(h) => Idle(h)'  BY <1>1, <1>6 DEF Idle
    <3>. QED  BY <1>5, <1>6, <3>1, <3>2, <3>3 DEF Accounts
  <2>. QED  BY <2>1, <2>2, <2>3
<1>. QED  BY <1>1, <1>5, <1>7 DEF Accounted

(* Nobody waits in the name of a thread without children that has ended.   *)
LEMMA NobodyWaits ==
  ASSUME TypeInv, TreeInv, DutyInv, NEW x \in live, Top(x) = "EOF",
         \A h \in live : parent[h] # x, NEW d \in Channel
  PROVE  ~IsBlocked(d, x)
<1>1. SUFFICES ASSUME IsBlocked(d, x)  PROVE FALSE  OBVIOUS
<1>2. x \in Thread  BY DEF TypeInv, TypeOK
<1>3. PICK g \in live \ Ready :
        /\ g = ws[d][x].sleep_thd /\ Refers(pb[g][1], d, x, ws[d][x].status)
        /\ Head(pb[g]) = pb[g][1] /\ Top(g) \in {"EWAIT", "EALT"}
  BY <1>1, <1>2, SleeperOf
<1>4. Head(pb[g]) \in ToSet(pb[g])  BY TopToken
<1>5. Head(pb[g]).type \in Busy /\ Head(pb[g]).wait_thd = x  BY <1>3 DEF Refers, Busy
<1>6. WaitsAs(g, x)  BY <1>4, <1>5 DEF DutyInv, Receivers
<1>7. x # g  BY <1>3
<1>. QED  BY <1>6, <1>7, WaitsChild

LEMMA DetachAccount ==
  ASSUME TypeInv, TreeInv, DutyInv, TotalBlocked, delete_thread
  PROVE  /\ total_blocked' = Cardinality(Sleeping')
         /\ Ready \subseteq Ready'
         /\ \A h : Sleeps(h) => h \in Ready' \/ Sleeps(h)'
<1>1. PICK x \in live \ (Ready \cup undefs) :
        x = del /\ Top(x) = "EOF" /\ \A h \in live : parent[h] # x
  BY DeleteFacts
<1>. DEFINE gone == IF phase = "cleanup" \/ "WAITEX" \notin flags[x] THEN {} ELSE {x}
<1>2. \/ /\ ws' = [c \in Channel |-> [w \in Thread |->
                      IF w \in gone THEN NoStatus ELSE ws[c][w]]]
         /\ UNCHANGED <<rtl, total_blocked>>
      \/ /\ eff[x] # NoChannel
         /\ \E obj \in Loaded : Send(eff[x], Later(reg_t[x], maxtime[x]), obj, gone)
  BY <1>1 DEF delete_thread
<1>3. gone \subseteq {x}  OBVIOUS
<1>4. \A d \in Channel, v \in Thread : v \in gone => ~IsBlocked(d, v)
  BY <1>1, <1>3, NobodyWaits
<1>. HIDE DEF gone
<1>5. CASE /\ ws' = [c \in Channel |-> [w \in Thread |->
                      IF w \in gone THEN NoStatus ELSE ws[c][w]]]
           /\ UNCHANGED <<rtl, total_blocked>>
  <2>1. ASSUME NEW d \in Channel, NEW v \in Thread
        PROVE  /\ IsBlocked(d, v)' <=> IsBlocked(d, v)
               /\ IsBlocked(d, v) => ws'[d][v].sleep_thd = ws[d][v].sleep_thd
    <3>1. ws'[d][v] = IF v \in gone THEN NoStatus ELSE ws[d][v]  BY <1>5
    <3>. QED  BY <1>4, <3>1 DEF IsBlocked, NoStatus
  <2>2. Sleeping' = Sleeping /\ \A h : Sleeps(h)' <=> Sleeps(h)  BY <2>1, SameSleeping
  <2>. QED  BY <1>5, <2>2 DEF TotalBlocked, Ready
<1>6. CASE /\ eff[x] # NoChannel
           /\ \E obj \in Loaded : Send(eff[x], Later(reg_t[x], maxtime[x]), obj, gone)
  <2>1. eff[x] \in Channel  BY <1>1, <1>6 DEF TypeInv, TypeOK
  <2>. QED  BY <1>4, <1>6, <2>1, SendAccount
<1>. QED  BY <1>2, <1>5, <1>6

LEMMA DeleteAccount ==
  ASSUME TypeInv, TreeInv, DutyInv, Accounted, TotalBlocked, delete_thread
  PROVE  Accounted' /\ TotalBlocked'
<1>1. PICK x \in live \ (Ready \cup undefs) :
        /\ x = del /\ live' = live \ {x} /\ named' = named \ {x}
        /\ \A h \in live \ {x} :
             parent'[h] = parent[h] /\ flags'[h] = flags[h] /\ pb'[h] = pb[h]
        /\ del' = NoThread \/ Exiting(del')
  BY DeleteFacts
<1>2. /\ total_blocked' = Cardinality(Sleeping')
      /\ Ready \subseteq Ready'
      /\ \A h : Sleeps(h) => h \in Ready' \/ Sleeps(h)'
  BY DetachAccount
<1>3. live \subseteq Thread /\ NoThread \notin live
  BY ThreadAssumption DEF TypeInv, TypeOK
<1>4. ASSUME NEW h \in live \ {x}  PROVE Accounts(h)'
  <2>1. CASE h \in Ready \/ Sleeps(h)  BY <1>2, <2>1 DEF Accounts
  <2>2. CASE Suspended(h)
    <3>1. PICK k \in Thread : Suspending(k) /\ parent[k] = h  BY <2>2 DEF Suspended
    <3>2. k \in live \ {x}  BY <1>1, <3>1 DEF Suspending
    <3>3. k # del'  BY <1>1, <1>3, <3>1, <3>2 DEF Suspending
    <3>4. Suspending(k)' /\ parent'[k] = h
      BY <1>1, <3>1, <3>2, <3>3 DEF Suspending, Exiting
    <3>5. Suspended(h)'  BY <3>4 DEF Suspended
    <3>. QED  BY <3>5 DEF Accounts
  <2>3. CASE Idle(h)  BY <1>1, <2>3 DEF Accounts, Idle, Top
  <2>4. CASE Exiting(h)  BY <1>1, <2>4 DEF Accounts, Exiting
  <2>. QED  BY <1>1, <2>1, <2>2, <2>3, <2>4 DEF Accounted, Accounts
<1>. QED  BY <1>1, <1>2, <1>4 DEF Accounted, TotalBlocked

(* undef and the cleanup take named threads, which suspend nobody.         *)
LEMMA NamedAccount ==
  ASSUME TypeInv, TreeInv, Accounted, TotalBlocked, del = NoThread,
         UNCHANGED <<rtl, live, parent, flags, pb, ws, total_blocked>>,
         named' \subseteq named, del' \in named \cup {NoThread},
         \A h \in named : Idle(h) => h \in named' \/ h = del'
  PROVE  Accounted' /\ TotalBlocked'
<1>1. live \subseteq Thread /\ NoThread \notin live  BY ThreadAssumption DEF TypeInv, TypeOK
<1>2. TotalBlocked' /\ \A h : Sleeps(h)' <=> Sleeps(h)  BY SameSleeps
<1>3. Ready' = Ready /\ \A h : Top(h)' = Top(h)  BY DEF Top, Ready
<1>4. ASSUME NEW h \in live  PROVE Accounts(h)'
  <2>1. CASE h \in Ready \/ Sleeps(h)  BY <1>2, <1>3, <2>1 DEF Accounts
  <2>2. CASE Suspended(h)
    <3>1. PICK k \in Thread : Suspending(k) /\ parent[k] = h  BY <2>2 DEF Suspended
    <3>2. k \in live /\ k \notin named  BY <3>1 DEF Suspending, TreeInv, Names
    <3>3. k # del'  BY <1>1, <3>2
    <3>4. Suspending(k)' /\ parent'[k] = h  BY <3>1, <3>2, <3>3 DEF Suspending, Exiting
    <3>5. Suspended(h)'  BY <3>4 DEF Suspended
    <3>. QED  BY <3>5 DEF Accounts
  <2>3. CASE Idle(h)  BY <1>3, <2>3 DEF Accounts, Idle
  <2>4. CASE Exiting(h)  BY <2>4 DEF Accounts, Exiting
  <2>. QED  BY <1>1, <2>1, <2>2, <2>3, <2>4 DEF Accounted, Accounts
<1>. QED  BY <1>2, <1>4 DEF Accounted

LEMMA DictAccount ==
  ASSUME TypeInv, TreeInv, Accounted, TotalBlocked, delete_dict
  PROVE  Accounted' /\ TotalBlocked'
<1>1. /\ del = NoThread
      /\ UNCHANGED <<rtl, live, parent, flags, pb, ws, total_blocked>>
  BY DEF delete_dict, stackVars, chanVars
<1>2. PICK x \in undefs : /\ named' = named \ {x}
                          /\ del' = IF Top(x) = "EOF" THEN x ELSE NoThread
  BY DEF delete_dict
<1>3. x \in named  BY DEF TreeInv, Names
<1>4. \A h \in named : Idle(h) => h \in named' \/ h = del'  BY <1>2 DEF Idle
<1>5. named' \subseteq named /\ del' \in named \cup {NoThread}  BY <1>2, <1>3
<1>. QED  BY <1>1, <1>4, <1>5, NamedAccount

LEMMA CleanupAccount ==
  ASSUME TypeInv, TreeInv, Accounted, TotalBlocked, cleanup_idle_threads
  PROVE  Accounted' /\ TotalBlocked'
<1>1. /\ del = NoThread /\ named' = named
      /\ UNCHANGED <<rtl, live, parent, flags, pb, ws, total_blocked>>
  BY DEF cleanup_idle_threads, threadVars, stackVars, chanVars
<1>2. del' \in named \cup {NoThread}  BY <1>1 DEF cleanup_idle_threads
<1>3. /\ named' \subseteq named
      /\ \A h \in named : Idle(h) => h \in named' \/ h = del'
  BY <1>1
<1>. QED  BY <1>1, <1>2, <1>3, NamedAccount

-----------------------------------------------------------------------------
(* New threads: a named one is idle; a group runs, and its parent sleeps   *)
(* unless '&' was given.                                                   *)
LEMMA CreateAccount ==
  ASSUME TypeInv, TreeInv, Accounted, TotalBlocked, del = NoThread, del' = NoThread,
         NEW new \in Thread \ live, NEW p \in live, NEW fs, NEW stack, NEW loops,
         create_thread(new, p, fs, stack, loops), WellFormed(stack),
         UNCHANGED <<ws, total_blocked>>, named \subseteq named',
         Ready' \subseteq Ready \cup {new},
         \A h \in live : h \in Ready => h \in Ready' \/ Suspended(h)',
         Accounts(new)'
  PROVE  Accounted' /\ TotalBlocked'
<1>1. live \subseteq Thread /\ NoThread \notin live  BY ThreadAssumption DEF TypeInv, TypeOK
<1>2. /\ \A h \in live : /\ flags'[h] = flags[h] /\ parent'[h] = parent[h]
                         /\ Top(h)' = Top(h)
      /\ live' = live \cup {new}
  BY CreateTree
<1>3. TotalBlocked' /\ \A h : Sleeps(h)' <=> Sleeps(h)  BY SameSleeps
<1>4. ASSUME NEW h \in live  PROVE Accounts(h)'
  <2>1. CASE h \in Ready \/ Sleeps(h)  BY <1>3, <2>1 DEF Accounts
  <2>2. CASE Suspended(h)
    <3>1. PICK k \in Thread : Suspending(k) /\ parent[k] = h  BY <2>2 DEF Suspended
    <3>2. k \in live /\ k # NoThread  BY <1>1, <3>1 DEF Suspending
    <3>3. Suspending(k)' /\ parent'[k] = h  BY <1>2, <3>1, <3>2 DEF Suspending, Exiting
    <3>4. Suspended(h)'  BY <3>3 DEF Suspended
    <3>. QED  BY <3>4 DEF Accounts
  <2>3. CASE Idle(h)  BY <1>2, <2>3 DEF Accounts, Idle
  <2>4. CASE Exiting(h)  BY <1>2, <2>4 DEF Accounts, Exiting
  <2>. QED  BY <1>1, <2>1, <2>2, <2>3, <2>4 DEF Accounted, Accounts
<1>. QED  BY <1>2, <1>3, <1>4 DEF Accounted

LEMMA DefthreadAccount ==
  ASSUME TypeInv, TreeInv, Accounted, TotalBlocked, do_defthread
  PROVE  Accounted' /\ TotalBlocked'
<1>1. /\ rtl # <<>> /\ del = NoThread /\ UNCHANGED <<rtl, ws, total_blocked, del>>
  BY CommandTree DEF do_defthread, chanVars, ctlVars
<1>2. PICK p \in {cur} \cup named, new \in Thread \ live :
        /\ create_thread(new, p, {}, <<Mark("EOF")>>, 0) /\ named' = named \cup {new}
  BY DEF do_defthread
<1>3. p \in live  BY <1>1, CurReady DEF TreeInv, Names
<1>. DEFINE stack == <<Mark("EOF")>>
            fs == {}
            loops == 0
<1>4. WellFormed(stack)  BY DEF WellFormed, Mark
<1>5. Ready' = Ready  BY <1>1 DEF Ready
<1>6. Top(new)' = "EOF"
  <2>1. pb'[new] = stack  BY <1>2 DEF create_thread, TypeInv, TypeOK
  <2>2. stack # <<>> /\ Head(stack).type = "EOF"  BY DEF Mark
  <2>. QED  BY <2>1, <2>2 DEF Top
<1>7. Accounts(new)'  BY <1>2, <1>6 DEF Accounts, Idle
<1>8. create_thread(new, p, fs, stack, loops) /\ named \subseteq named'  BY <1>2
<1>. HIDE DEF stack, fs, loops
<1>. QED  BY <1>1, <1>3, <1>4, <1>5, <1>7, <1>8, CreateAccount

LEMMA GroupAccount ==
  ASSUME TypeInv, TreeInv, Accounted, TotalBlocked, do_lbrace \/ do_lbracket
  PROVE  Accounted' /\ TotalBlocked'
<1>1. rtl # <<>> /\ del = NoThread  BY CommandTree DEF do_lbrace, do_lbracket
<1>2. PICK pf \in {{}, {"PFLAG"}} : group(pf)  BY DEF do_lbrace, do_lbracket
<1>3. PICK new \in Thread \ live, amp \in BOOLEAN :
        /\ create_thread(new, cur, IF amp THEN pf ELSE pf \cup {"SFLAG"},
                         <<Mark("BODY"), Mark("EOB"), Mark("EOF")>>,
                         IF amp THEN 0 ELSE loop_count[cur])
        /\ rtl' = IF amp THEN <<new>> \o rtl ELSE <<new>> \o Tail(rtl)
        /\ UNCHANGED <<named, ws, total_blocked, del>>
  BY <1>2 DEF group, chanVars, ctlVars
<1>4. PICK x \in live : x = cur /\ x \in Ready  BY <1>1, CurReady
<1>. DEFINE stack == <<Mark("BODY"), Mark("EOB"), Mark("EOF")>>
            fs == IF amp THEN pf ELSE pf \cup {"SFLAG"}
            loops == IF amp THEN 0 ELSE loop_count[x]
<1>5. WellFormed(stack)  BY DEF WellFormed, Mark
<1>6. /\ rtl \in Seq(Thread) /\ IsInjective(rtl) /\ Tail(rtl) \in Seq(Thread)
      /\ ToSet(Tail(rtl)) = Ready \ {x}
  BY <1>1, <1>4, CurReady, TailReady, HeadTailProperties DEF Ready, cur
<1>7. Ready' = IF amp THEN {new} \cup Ready ELSE {new} \cup (Ready \ {x})
  <2>1. ToSet(<<new>> \o rtl) = {new} \cup Ready  BY <1>6, ConsReady DEF Ready
  <2>2. ToSet(<<new>> \o Tail(rtl)) = {new} \cup (Ready \ {x})  BY <1>6, ConsReady
  <2>. QED  BY <1>3, <2>1, <2>2 DEF Ready
<1>8. create_thread(new, x, fs, stack, loops)  BY <1>3, <1>4
<1>9. ~amp => "SFLAG" \in fs /\ "EXITING" \notin fs  BY <1>2
<1>. HIDE DEF stack, fs, loops
<1>10. live' = live \cup {new} /\ flags'[new] = fs /\ parent'[new] = x
  BY <1>3, <1>4, <1>5, <1>7, <1>8, CreateTree
<1>11. ASSUME ~amp  PROVE Suspended(x)'
  <2>1. new # NoThread  BY ThreadAssumption
  <2>2. Suspending(new)' /\ parent'[new] = x
    BY <1>1, <1>3, <1>9, <1>10, <1>11, <2>1 DEF Suspending, Exiting
  <2>. QED  BY <2>2 DEF Suspended
<1>12. \A h \in live : h \in Ready => h \in Ready' \/ Suspended(h)'  BY <1>7, <1>11
<1>13. Accounts(new)' /\ Ready' \subseteq Ready \cup {new}  BY <1>7 DEF Accounts
<1>14. named \subseteq named' /\ del' = NoThread  BY <1>1, <1>3
<1>. QED  BY <1>1, <1>3, <1>5, <1>8, <1>12, <1>13, <1>14, CreateAccount
-----------------------------------------------------------------------------
(* Every step keeps the account.                                           *)
LEMMA AccountInit == Init => AccountInv
<1>. SUFFICES ASSUME Init PROVE AccountInv  OBVIOUS
<1>. DEFINE stack == <<Mark("BODY"), Mark("EOF")>>
<1>1. \A e \in ToSet(stack) : e.type # "EALT"
  <2>1. \A i \in 1..2 : i = 1 \/ i = 2  OBVIOUS
  <2>2. stack[1].type = "BODY" /\ stack[2].type = "EOF" /\ DOMAIN stack = 1..2  BY DEF Mark
  <2>. HIDE DEF stack
  <2>. QED  BY <2>1, <2>2 DEF ToSet
<1>2. pb[Root] = stack  BY ThreadAssumption DEF Init
<1>. HIDE DEF stack
<1>3. live = {Root} /\ rtl = <<Root>> /\ total_blocked = 0  BY DEF Init
<1>4. AltHasGuard  BY <1>1, <1>2, <1>3 DEF AltHasGuard
<1>5. \A c \in Channel, w \in Thread : ws[c][w].status = "Idle"  BY DEF Init, NoStatus
<1>6. Sleeping = {}  BY <1>5 DEF Sleeping, Sleeps, IsBlocked
<1>7. Root \in Ready  BY <1>3 DEF Ready, ToSet
<1>. QED  BY <1>3, <1>4, <1>6, <1>7, FS_EmptySet DEF AccountInv, Accounted, Accounts, TotalBlocked

LEMMA AccountNext ==
  ASSUME Guarded, TypeInv, TypeInv', TreeInv, DutyInv, AccountInv, [Next]_vars
  PROVE  AccountInv'
<1>. USE DEF AccountInv
<1>1. AltHasGuard'  BY GuardsNext
<1>2. CASE \/ do_defthread \/ do_lbrace \/ do_lbracket \/ do_thread
           \/ begin_of_named_thread \/ end_of_named_thread \/ end_of_block \/ end_of_tokens
           \/ do_pitch \/ do_reg \/ attach_effector \/ do_sync \/ end_sync
  BY <1>1, <1>2, DefthreadAccount, GroupAccount, ThreadAccount, TokenAccount, QuietAccount,
     SyncAccount
<1>3. CASE \/ do_signal \/ do_wait \/ end_wait \/ do_alt \/ end_alt \/ destroy_channel
  BY <1>1, <1>3, SignalAccount, WaitAccount, EndWaitAccount, AltAccount, EndAltAccount,
     DestroyAccount
<1>4. CASE \/ do_eof \/ postpone_delete \/ delete_thread
           \/ do_break \/ skip_token \/ break_alt \/ do_undef \/ delete_dict
  BY <1>1, <1>4, EofAccount, PostponeAccount, DeleteAccount, TokenAccount, BreakAltAccount,
     DictAccount, QuietAccount
<1>5. CASE \/ begin_cleanup \/ cleanup_idle_threads \/ check_dead_lock
           \/ terminated \/ UNCHANGED vars
  BY <1>1, <1>5, CleanupAccount, DeadLockAccount, QuietAccount DEF terminated
<1>. QED  BY <1>2, <1>3, <1>4, <1>5 DEF Next

LEMMA AccountInvariant ==
  ASSUME Guarded
  PROVE  Spec => [](TypeInv /\ TreeInv /\ StackInv /\ DutyInv /\ AccountInv)
<1>. DEFINE I == TypeInv /\ TreeInv /\ StackInv /\ DutyInv /\ AccountInv
<1>1. Init => I  BY TypeInit, TreeInit, StackInit, DutyInit, AccountInit
<1>2. I /\ [Next]_vars => I'
  BY TypeStep, TreeStep, StackNext, DutyNext, AccountNext
<1>. HIDE DEF I
<1>3. Spec => []I  BY <1>1, <1>2, PTL DEF Spec
<1>. QED  BY <1>3 DEF I

(* No two of the six states hold at once.                                  *)
LEMMA Exclusive ==
  ASSUME TypeInv, TreeInv, DutyInv, Accounted, NEW h \in live
  PROVE  \E s : States(h) = {s}
<1>. DEFINE asleep == Suspended(h)
            atEnd == Idle(h) /\ h \notin Ready \cup {del}
            exits == Exiting(h) /\ h # del
<1>1. /\ States(h) \subseteq {"ready", "blocked", "suspended", "idle", "exiting", "deleted"}
      /\ "ready" \in States(h) <=> h \in Ready
      /\ "blocked" \in States(h) <=> Blocked(h)
      /\ "suspended" \in States(h) <=> asleep
      /\ "idle" \in States(h) <=> atEnd
      /\ "exiting" \in States(h) <=> exits
      /\ "deleted" \in States(h) <=> h = del
  BY DEF States
<1>2. Sleeps(h) <=> Blocked(h)  BY SleepsBlocked
<1>3. h \in Ready => ~Sleeps(h) /\ ~Suspended(h) /\ ~Exiting(h) /\ h # del
  BY SleepersAsleep, ReadyAwakable DEF Awakable
<1>4. Sleeps(h) => /\ h \notin Ready /\ ~Suspended(h) /\ ~Exiting(h) /\ h # del
                   /\ Top(h) # "EOF"
  BY SleepersAsleep DEF Awakable
<1>5. Suspended(h) => h \notin Ready /\ Top(h) = "BODY"
  BY DEF Suspended, TreeInv, Groups
<1>6. Exiting(h) => Top(h) = "EOF" /\ h \notin named /\ h \notin Ready  BY DEF TreeInv, Exits
<1>7. h = del => Top(h) = "EOF" /\ h \notin Ready
  <2>1. h # NoThread  BY ThreadAssumption DEF TypeInv, TypeOK
  <2>. QED  BY <2>1 DEF TreeInv, Deleted
<1>8. Idle(h) => Top(h) = "EOF" /\ h \in named  BY DEF Idle
<1>9. h = del \/ h \in Ready \/ Blocked(h) \/ Suspended(h) \/ Idle(h) \/ Exiting(h)
  BY <1>2 DEF Accounted, Accounts
<1>10. CASE h \in Ready
  <2>1. States(h) = {"ready"}  BY <1>1, <1>2, <1>3, <1>10
  <2>. QED  BY <2>1
<1>11. CASE Blocked(h)
  <2>1. States(h) = {"blocked"}  BY <1>1, <1>2, <1>4, <1>8, <1>11
  <2>. QED  BY <2>1
<1>12. CASE Suspended(h)
  <2>1. States(h) = {"suspended"}  BY <1>1, <1>2, <1>4, <1>5, <1>6, <1>7, <1>8, <1>12
  <2>. QED  BY <2>1
<1>13. CASE h = del
  <2>1. States(h) = {"deleted"}  BY <1>1, <1>2, <1>4, <1>5, <1>7, <1>13
  <2>. QED  BY <2>1
<1>14. CASE Exiting(h) /\ h # del
  <2>1. States(h) = {"exiting"}  BY <1>1, <1>2, <1>4, <1>5, <1>6, <1>8, <1>14
  <2>. QED  BY <2>1
<1>15. CASE Idle(h) /\ h \notin Ready /\ h # del
  <2>1. States(h) = {"idle"}  BY <1>1, <1>2, <1>4, <1>5, <1>6, <1>8, <1>15
  <2>. QED  BY <2>1
<1>. QED  BY <1>9, <1>10, <1>11, <1>12, <1>13, <1>14, <1>15

(* A program whose alts all have a guard keeps every thread in exactly one *)
(* of the six states: none is forgotten, so awake_thread is never lost,    *)
(* and none is woken twice, so the ready list never becomes circular.      *)
(* total_blocked counts the blocked ones.                                  *)
THEOREM ThreadStates ==
  ASSUME Guarded
  PROVE  Spec => []OneState
<1>1. TypeInv /\ TreeInv /\ StackInv /\ DutyInv /\ AccountInv => OneState
  <2>. SUFFICES ASSUME TypeInv, TreeInv, DutyInv, AccountInv  PROVE OneState  OBVIOUS
  <2>1. ASSUME NEW h \in live  PROVE Cardinality(States(h)) = 1
    <3>1. PICK s : States(h) = {s}  BY Exclusive DEF AccountInv
    <3>. QED  BY <3>1, FS_Singleton
  <2>2. IsInjective(rtl) /\ Ready \subseteq live  BY DEF TreeInv, Listed
  <2>3. Sleeping = {h \in live : Blocked(h)}
    <3>1. \A h : Sleeps(h) <=> Blocked(h)  BY SleepsBlocked
    <3>2. \A h : Sleeps(h) => h \in live  BY SleepersAsleep
    <3>3. live \subseteq Thread  BY DEF TypeInv, TypeOK
    <3>. QED  BY <3>1, <3>2, <3>3 DEF Sleeping
  <2>. QED  BY <2>1, <2>2, <2>3 DEF OneState, AccountInv, TotalBlocked
<1>. QED  BY <1>1, AccountInvariant, PTL
-----------------------------------------------------------------------------
(* The end.  The parent pointers form no cycle, so somewhere in every set  *)
(* of threads there is one without a child in it; a thread that is exiting *)
(* still has children; when the idle threads have been cleaned up only     *)
(* those with children are left.                                           *)
Forest ==
  \A S \in SUBSET live : S # {} => \E h \in S : \A k \in S : parent[k] # h
ExitsLast == \A h \in live : Exiting(h) /\ h # del => nchild[h] > 0
Drained ==
  phase = "deadlock" =>
    /\ del = NoThread
    /\ rtl = <<>> => \A h \in named : Idle(h) => nchild[h] # 0
Ended == phase = "done" => live = {} /\ total_blocked = 0
EndInv == Forest /\ ExitsLast /\ Drained /\ Ended

LEMMA Childless ==
  ASSUME TypeInv, TreeInv, NEW h \in live
  PROVE  /\ nchild[h] \in Nat
         /\ nchild[h] = 0 <=> \A k \in live : parent[k] # h
<1>. DEFINE K == {k \in live : parent[k] = h}
<1>1. IsFiniteSet(K)  BY ThreadAssumption, FS_Subset DEF TypeInv, TypeOK
<1>2. nchild[h] = Cardinality(K)  BY DEF TreeInv, Count
<1>3. K = {} <=> \A k \in live : parent[k] # h  OBVIOUS
<1>. HIDE DEF K
<1>4. Cardinality(K) \in Nat /\ (Cardinality(K) = 0 <=> K = {})
  BY <1>1, FS_CardinalityType, FS_EmptySet
<1>. QED  BY <1>2, <1>3, <1>4

(* A parent is an ancestor of no thread above itself.                      *)
LEMMA NoCycle ==
  ASSUME TypeInv, TreeInv, Forest, NEW h \in live
  PROVE  h \notin Ancestors(h)
<1>1. SUFFICES ASSUME h \in Ancestors(h)  PROVE FALSE  OBVIOUS
<1>2. Climbs(Up(h), parent, h)  BY UpDef
<1>3. PICK n \in 1..Depth : Up(h)[n] = h  BY <1>1 DEF Ancestors, Depth
<1>4. Depth \in Nat /\ NoThread \notin live
  BY DepthNat, ThreadAssumption DEF TypeInv, TypeOK
<1>. DEFINE up == Up(h)
            S == {up[m] : m \in 0..n}
<1>5. \A m \in 0..Depth : up[m] \in live \cup {NoThread}  BY UpLive
<1>. HIDE DEF up
<1>6. ASSUME NEW m \in 0..n  PROVE up[m] \in live
  <2>1. m \in 0..Depth /\ n \in m..Depth  BY <1>4
  <2>2. ASSUME up[m] = NoThread  PROVE FALSE
    <3>1. Climbs(up, parent, h)  BY <1>2 DEF up
    <3>2. up[n] = NoThread  BY <2>1, <2>2, <3>1, UpNone
    <3>3. up[n] = h  BY <1>3 DEF up
    <3>. QED  BY <1>4, <3>2, <3>3
  <2>. QED  BY <1>5, <2>1, <2>2
<1>7. S \in SUBSET live /\ S # {}
  <2>1. 0 \in 0..n  BY <1>4
  <2>. QED  BY <1>6, <2>1
<1>8. PICK x \in S : \A k \in S : parent[k] # x
  <2>. HIDE DEF S
  <2>. QED  BY <1>7 DEF Forest
<1>9. PICK m \in 0..n : x = up[m]  BY <1>8
<1>10. up[n] = h /\ up[0] = h  BY <1>2, <1>3 DEF up, Climbs
<1>11. \A i \in 1..n : up[i] = parent[up[i-1]]
  <2>1. ASSUME NEW i \in 1..n  PROVE up[i] = parent[up[i-1]]
    <3>1. i \in 1..Depth /\ i - 1 \in 0..n  BY <1>4
    <3>2. up[i] = IF up[i-1] = NoThread THEN NoThread ELSE parent[up[i-1]]
      BY <1>2, <3>1 DEF up, Climbs
    <3>. QED  BY <1>4, <1>6, <3>1, <3>2
  <2>. QED  BY <2>1
<1>12. PICK i \in 1..n : x = up[i]
  <2>1. CASE m = 0
    <3>1. n \in 1..n  OBVIOUS
    <3>. QED  BY <1>9, <1>10, <2>1, <3>1
  <2>2. CASE m # 0
    <3>1. m \in 1..n  BY <2>2
    <3>. QED  BY <1>9, <3>1
  <2>. QED  BY <2>1, <2>2
<1>13. i - 1 \in 0..n  OBVIOUS
<1>14. up[i-1] \in S  BY <1>13
<1>. QED  BY <1>8, <1>11, <1>12, <1>14

LEMMA SameForest ==
  ASSUME Forest, live' \subseteq live, \A h \in live' : parent'[h] = parent[h]
  PROVE  Forest'
<1>1. ASSUME NEW S \in SUBSET live', S # {}
      PROVE  \E h \in S : \A k \in S : parent'[k] # h
  <2>1. PICK h \in S : \A k \in S : parent[k] # h  BY <1>1 DEF Forest
  <2>2. \A k \in S : parent'[k] # h  BY <2>1
  <2>. QED  BY <2>2
<1>. QED  BY <1>1 DEF Forest

(* A step that neither creates nor frees a thread.                         *)
LEMMA SameTree ==
  ASSUME TypeInv, Forest, ExitsLast, UNCHANGED <<live, parent, nchild>>,
         \A h \in live : "EXITING" \in flags'[h] <=> "EXITING" \in flags[h],
         del' = del \/ del = NoThread
  PROVE  Forest' /\ ExitsLast'
<1>1. NoThread \notin live  BY ThreadAssumption DEF TypeInv, TypeOK
<1>2. Forest'  BY SameForest
<1>3. ExitsLast'  BY <1>1 DEF ExitsLast, Exiting
<1>. QED  BY <1>2, <1>3

LEMMA NotEnding ==
  ASSUME phase' \notin {"deadlock", "done"}
  PROVE  Drained' /\ Ended'
BY DEF Drained, Ended

LEMMA HaltEnd ==
  ASSUME TypeInv, Forest, ExitsLast, NEW how \in {"error", "crash"}, Halt(how)
  PROVE  EndInv'
<1>1. UNCHANGED <<live, parent, nchild, flags, del>> /\ phase' \notin {"deadlock", "done"}
  BY DEF Halt, threadVars
<1>. QED  BY <1>1, SameTree, NotEnding DEF EndInv

LEMMA QuietEnd ==
  ASSUME TypeInv, TreeInv, EndInv,
         \/ do_thread \/ begin_of_named_thread \/ end_of_named_thread \/ end_of_block
         \/ end_of_tokens \/ do_pitch \/ do_reg \/ attach_effector \/ do_sync \/ end_sync
         \/ do_signal \/ end_wait \/ end_alt \/ destroy_channel
         \/ do_eof \/ do_break \/ skip_token \/ break_alt \/ do_undef \/ delete_dict
         \/ begin_cleanup
  PROVE  EndInv'
<1>. USE DEF EndInv
<1>1. CASE \E how \in {"error", "crash"} : Halt(how)  BY <1>1, HaltEnd
<1>2. CASE \/ do_thread \/ do_pitch \/ do_reg \/ attach_effector \/ do_sync \/ end_sync
           \/ end_of_named_thread \/ end_of_block \/ end_of_tokens
  <2>1. UNCHANGED <<live, parent, nchild, flags, del, phase>> /\ phase = "running"
    BY <1>2 DEF do_thread, do_pitch, do_reg, attach_effector, do_sync, end_sync, sync,
       end_of_named_thread, end_of_block, end_of_tokens, Command, Token, threadVars, ctlVars
  <2>. QED  BY <2>1, SameTree, NotEnding
<1>3. CASE begin_of_named_thread
  <2>1. UNCHANGED <<live, parent, nchild, del, phase>> /\ phase = "running" /\ rtl # <<>>
    BY <1>3 DEF begin_of_named_thread, Token, ctlVars
  <2>2. PICK f \in SUBSET {"CFLAG"} : flags' = [flags EXCEPT ![cur] = (@ \ {"CFLAG"}) \cup f]
    BY <1>3 DEF begin_of_named_thread
  <2>3. flags \in [Thread -> SUBSET Flag] /\ live \subseteq Thread  BY DEF TypeInv, TypeOK
  <2>4. \A h \in live : "EXITING" \in flags'[h] <=> "EXITING" \in flags[h]  BY <2>2, <2>3
  <2>. QED  BY <2>1, <2>4, SameTree, NotEnding
<1>4. CASE do_signal \/ skip_token \/ break_alt \/ delete_dict \/ begin_cleanup \/ do_eof
  <2>1. /\ UNCHANGED <<live, parent, nchild, flags>> /\ phase' \notin {"deadlock", "done"}
        /\ del' = del \/ del = NoThread
    BY <1>4 DEF do_signal, skip_token, break_alt, delete_dict, begin_cleanup, do_eof,
       Command, threadVars, ctlVars
  <2>. QED  BY <2>1, SameTree, NotEnding
<1>5. CASE /\ end_wait \/ end_alt \/ destroy_channel \/ do_break \/ do_undef
           /\ ~ \E how \in {"error", "crash"} : Halt(how)
  <2>1. /\ UNCHANGED <<live, parent, nchild, flags, del>>
        /\ phase' \notin {"deadlock", "done"}
    BY <1>5 DEF end_wait, end_alt, destroy_channel, do_break, do_undef, Block, BreakPhase,
       Command, Token, threadVars, ctlVars
  <2>. QED  BY <2>1, SameTree, NotEnding
<1>. QED  BY <1>1, <1>2, <1>3, <1>4, <1>5

LEMMA WaitEnd ==
  ASSUME TypeInv, TreeInv, EndInv, do_wait \/ do_alt
  PROVE  EndInv'
<1>. USE DEF EndInv
<1>1. CASE Halt("crash")  BY <1>1, HaltEnd
<1>2. CASE do_wait /\ ~Halt("crash")
  <2>1. /\ UNCHANGED <<live, parent, named, nchild, undefs, del>>
        /\ phase' \in {"running", "blocked"}
        /\ \E w \in Thread : flags' = [flags EXCEPT ![w] = @ \cup {"WAITEX"}]
    BY <1>2, ZenonT(60) DEF do_wait, Command
  <2>2. TreeFrame  BY <2>1, FlagFrame
  <2>3. live \subseteq Thread  BY DEF TypeInv, TypeOK
  <2>. QED  BY <2>1, <2>2, <2>3, SameTree, NotEnding DEF TreeFrame
<1>3. CASE do_alt /\ ~Halt("crash")
  <2>0. phase = "running"  BY <1>3 DEF do_alt, Command
  <2>1. PICK gs \in AltGuards, w \in Thread, d \in Default :
          /\ flags' = [flags EXCEPT ![w] = @ \cup {"WAITEX"}]
          /\ (UNCHANGED <<total_blocked, phase>>) \/ Block(gs, w)
          /\ UNCHANGED <<live, parent, named, nchild, timeVars, eff, mtop, del, level, undefs>>
    BY <1>3, ZenonT(60) DEF do_alt
  <2>2. TreeFrame  BY <2>1, FlagFrame
  <2>3. live \subseteq Thread  BY DEF TypeInv, TypeOK
  <2>4. phase' \in {"running", "blocked"}  BY <2>0, <2>1 DEF Block
  <2>. QED  BY <2>1, <2>2, <2>3, <2>4, SameTree, NotEnding DEF TreeFrame
<1>. QED  BY <1>1, <1>2, <1>3
LEMMA CreateEnd ==
  ASSUME TypeInv, TypeInv', TreeInv, TreeInv', Forest, ExitsLast, del = NoThread, del' = NoThread,
         NEW new \in Thread \ live, NEW p \in live, NEW fs, NEW stack, NEW loops,
         create_thread(new, p, fs, stack, loops), "EXITING" \notin fs
  PROVE  Forest' /\ ExitsLast'
<1>1. /\ live \subseteq Thread /\ NoThread \notin live
      /\ parent \in [Thread -> Thread \cup {NoThread}]
      /\ flags \in [Thread -> SUBSET Flag] /\ nchild \in [Thread -> Int]
  BY ThreadAssumption DEF TypeInv, TypeOK
<1>2. /\ live' = live \cup {new} /\ parent'[new] = p /\ flags'[new] = fs
      /\ \A h \in live : /\ parent'[h] = parent[h] /\ flags'[h] = flags[h]
                         /\ nchild'[h] = nchild[h] \/ nchild'[h] = nchild[h] + 1
  BY <1>1 DEF create_thread
<1>3. Forest'
  <2>1. ASSUME NEW S \in SUBSET live', S # {}
        PROVE  \E h \in S : \A k \in S : parent'[k] # h
    <3>1. CASE new \in S
      <4>1. ASSUME NEW k \in live'  PROVE parent'[k] # new
        <5>1. CASE k = new  BY <1>2, <5>1
        <5>2. CASE k # new
          <6>1. k \in live /\ parent'[k] = parent[k]  BY <1>2, <5>2
          <6>2. parent[k] \in live \cup {NoThread}  BY <6>1 DEF TreeInv, Shape
          <6>. QED  BY <6>1, <6>2, ThreadAssumption
        <5>. QED  BY <5>1, <5>2
      <4>. QED  BY <3>1, <4>1
    <3>2. CASE new \notin S
      <4>1. S \in SUBSET live  BY <1>2, <3>2
      <4>2. PICK h \in S : \A k \in S : parent[k] # h  BY <2>1, <4>1 DEF Forest
      <4>3. \A k \in S : parent'[k] # h  BY <1>2, <4>1, <4>2
      <4>. QED  BY <4>3
    <3>. QED  BY <3>1, <3>2
  <2>. QED  BY <2>1 DEF Forest
<1>4. ExitsLast'
  <2>1. ASSUME NEW h \in live', Exiting(h)'  PROVE nchild'[h] > 0
    <3>1. h \in live /\ Exiting(h)  BY <1>2, <2>1 DEF Exiting
    <3>2. nchild[h] > 0 /\ nchild[h] \in Int  BY <1>1, <3>1 DEF ExitsLast
    <3>. QED  BY <1>2, <3>1, <3>2
  <2>. QED  BY <2>1 DEF ExitsLast
<1>. QED  BY <1>3, <1>4

LEMMA GroupEnd ==
  ASSUME TypeInv, TypeInv', TreeInv, TreeInv', EndInv, do_defthread \/ do_lbrace \/ do_lbracket
  PROVE  EndInv'
<1>1. rtl # <<>> /\ del = NoThread /\ phase = "running"
  BY CommandTree DEF do_defthread, do_lbrace, do_lbracket
<1>2. CASE do_defthread
  <2>1. PICK p \in {cur} \cup named, new \in Thread \ live :
          create_thread(new, p, {}, <<Mark("EOF")>>, 0)
    BY <1>2 DEF do_defthread
  <2>2. p \in live  BY <1>1, CurReady DEF TreeInv, Names
  <2>3. del' = NoThread /\ phase' = "running"  BY <1>1, <1>2 DEF do_defthread, ctlVars
  <2>. DEFINE fs == {}
              stack == <<Mark("EOF")>>
              loops == 0
  <2>4. create_thread(new, p, fs, stack, loops) /\ "EXITING" \notin fs  BY <2>1
  <2>. HIDE DEF fs, stack, loops
  <2>5. Forest' /\ ExitsLast'  BY <1>1, <2>2, <2>3, <2>4, CreateEnd DEF EndInv
  <2>. QED  BY <2>3, <2>5, NotEnding DEF EndInv
<1>3. CASE do_lbrace \/ do_lbracket
  <2>1. PICK pf \in {{}, {"PFLAG"}} : group(pf)  BY <1>3 DEF do_lbrace, do_lbracket
  <2>2. PICK new \in Thread \ live, amp \in BOOLEAN :
          create_thread(new, cur, IF amp THEN pf ELSE pf \cup {"SFLAG"},
                        <<Mark("BODY"), Mark("EOB"), Mark("EOF")>>,
                        IF amp THEN 0 ELSE loop_count[cur])
    BY <2>1 DEF group
  <2>3. PICK p \in live : p = cur  BY <1>1, CurReady
  <2>4. del' = NoThread /\ phase' = "running"  BY <1>1, <2>1 DEF group, ctlVars
  <2>. DEFINE fs == IF amp THEN pf ELSE pf \cup {"SFLAG"}
              stack == <<Mark("BODY"), Mark("EOB"), Mark("EOF")>>
              loops == IF amp THEN 0 ELSE loop_count[cur]
  <2>5. create_thread(new, p, fs, stack, loops)  BY <2>2, <2>3
  <2>6. "EXITING" \notin fs  BY <2>1
  <2>. HIDE DEF fs, stack, loops
  <2>7. Forest' /\ ExitsLast'  BY <1>1, <2>4, <2>5, <2>6, CreateEnd DEF EndInv
  <2>. QED  BY <2>4, <2>7, NotEnding DEF EndInv
<1>. QED  BY <1>2, <1>3

LEMMA PostponeEnd ==
  ASSUME TypeInv, TreeInv, EndInv, postpone_delete
  PROVE  EndInv'
<1>1. /\ del # NoThread /\ nchild[del] > 0
      /\ UNCHANGED <<live, parent, nchild, phase, total_blocked>>
      /\ flags' = [flags EXCEPT ![del] = @ \cup {"EXITING"}]
  BY DEF postpone_delete, HasChildren, chanVars
<1>2. PICK x \in live : x = del  BY <1>1 DEF TreeInv, Deleted
<1>3. live \subseteq Thread /\ flags \in [Thread -> SUBSET Flag]  BY DEF TypeInv, TypeOK
<1>4. Forest'  BY <1>1, SameForest DEF EndInv
<1>5. ExitsLast'
  <2>1. ASSUME NEW h \in live, Exiting(h)'  PROVE nchild[h] > 0
    <3>1. CASE h = x  BY <1>1, <1>2, <3>1
    <3>2. CASE h # x
      <4>1. flags'[h] = flags[h]  BY <1>1, <1>2, <1>3, <3>2
      <4>. QED  BY <1>2, <2>1, <3>2, <4>1 DEF EndInv, ExitsLast, Exiting
    <3>. QED  BY <3>1, <3>2
  <2>. QED  BY <1>1, <2>1 DEF ExitsLast
<1>6. phase # "deadlock" /\ phase # "done"
  BY <1>1, <1>2 DEF EndInv, Drained, Ended
<1>. QED  BY <1>1, <1>4, <1>5, <1>6, NotEnding DEF EndInv

(* The last child to be freed hands its exiting parent to delete_thread.   *)
LEMMA DeleteEnd ==
  ASSUME TypeInv, TreeInv, EndInv, delete_thread
  PROVE  EndInv'
<1>1. PICK x \in live \ (Ready \cup undefs) :
        /\ x = del /\ x # NoThread /\ live' = live \ {x} /\ phase' = phase
        /\ \A h \in live \ {x} :
             /\ parent'[h] = parent[h] /\ flags'[h] = flags[h]
             /\ nchild'[h] = IF h = parent[x] THEN nchild[h] - 1 ELSE nchild[h]
        /\ parent[x] \in live /\ Exiting(parent[x]) /\ nchild[parent[x]] = 1
             => del' = parent[x]
  BY DeleteFacts
<1>2. Forest'  BY <1>1, SameForest DEF EndInv
<1>3. ExitsLast'
  <2>1. ASSUME NEW h \in live \ {x}, Exiting(h)', h # del'  PROVE nchild'[h] > 0
    <3>1. Exiting(h)  BY <1>1, <2>1 DEF Exiting
    <3>2. nchild[h] > 0 /\ nchild[h] \in Nat  BY <1>1, <3>1, Childless DEF EndInv, ExitsLast
    <3>3. CASE h = parent[x]
      <4>1. nchild[h] # 1  BY <1>1, <2>1, <3>1, <3>3
      <4>2. nchild'[h] = nchild[h] - 1  BY <1>1, <3>3
      <4>. QED  BY <3>2, <4>1, <4>2
    <3>4. CASE h # parent[x]  BY <1>1, <3>2, <3>4
    <3>. QED  BY <3>3, <3>4
  <2>. QED  BY <1>1, <2>1 DEF ExitsLast
<1>4. phase # "deadlock" /\ phase # "done"
  BY <1>1 DEF EndInv, Drained, Ended
<1>. QED  BY <1>1, <1>2, <1>3, <1>4, NotEnding DEF EndInv

LEMMA CleanupEnd ==
  ASSUME TypeInv, TreeInv, EndInv, cleanup_idle_threads
  PROVE  EndInv'
<1>1. /\ del = NoThread
      /\ UNCHANGED <<live, parent, named, nchild, flags, pb, rtl>>
      /\ \/ phase' = "cleanup"
         \/ /\ del' = del /\ phase' \in {"deadlock", "running"}
            /\ {h \in named : Idle(h) /\ nchild[h] = 0} = {}
  BY DEF cleanup_idle_threads, threadVars, stackVars
<1>2. Forest' /\ ExitsLast'  BY <1>1, SameTree DEF EndInv
<1>3. \A h \in named : Idle(h)' <=> Idle(h)  BY <1>1 DEF Idle, Top
<1>4. Drained'
  <2>1. CASE phase' = "deadlock"
    <3>1. {h \in named : Idle(h) /\ nchild[h] = 0} = {}  BY <1>1, <2>1
    <3>2. \A h \in named : Idle(h) => nchild[h] # 0  BY <3>1
    <3>. QED  BY <1>1, <1>3, <2>1, <3>2 DEF Drained
  <2>2. CASE phase' # "deadlock"  BY <2>2 DEF Drained
  <2>. QED  BY <2>1, <2>2
<1>5. Ended'  BY <1>1 DEF Ended
<1>. QED  BY <1>2, <1>4, <1>5 DEF EndInv

(* FirstBlocked fails only when nobody is blocked.                         *)
LEMMA NoneBlocked ==
  ASSUME TypeInv, DutyInv, ~ \E c \in Channel, w \in Thread : FirstBlocked(c, w)
  PROVE  \A c \in Channel, w \in Thread : ~IsBlocked(c, w)
<1>1. SUFFICES ASSUME NEW c0 \in Channel, NEW w0 \in Thread, IsBlocked(c0, w0)
               PROVE  \E c \in Channel, w \in Thread : FirstBlocked(c, w)
  OBVIOUS
<1>. DEFINE Some(c) == \E w \in ToSet(wtop[c]) : IsBlocked(c, w)
            N == Len(all_chnls)
            T == {m \in 1..N : Some(all_chnls[m])}
<1>2. all_chnls \in Seq(Channel) /\ N \in Nat  BY LenProperties DEF TypeInv, TypeOK
<1>3. /\ DOMAIN all_chnls = 1..N
      /\ \A e \in ToSet(all_chnls) : \E i \in 1..N : all_chnls[i] = e
  BY <1>2, Places
<1>4. w0 \in ToSet(wtop[c0]) /\ c0 \in ToSet(all_chnls)
  BY <1>1 DEF DutyInv, Registered, HasStatus
<1>5. PICK m0 \in 1..N : all_chnls[m0] = c0  BY <1>3, <1>4
<1>6. T \in SUBSET (0..N) /\ T # {}
  <2>1. Some(all_chnls[m0])  BY <1>1, <1>4, <1>5
  <2>2. m0 \in T  BY <2>1
  <2>. HIDE DEF Some
  <2>. QED  BY <1>2, <2>2
<1>7. PICK m \in T : \A k \in T : m <= k
  <2>. HIDE DEF T, N
  <2>. QED  BY <1>2, <1>6, Least
<1>8. PICK c \in Channel : c = all_chnls[m]  BY <1>2, <1>7, ElementOfSeq
<1>. DEFINE M == Len(wtop[c])
            B == {n \in 1..M : IsBlocked(c, wtop[c][n])}
<1>9. wtop[c] \in Seq(Thread) /\ M \in Nat  BY LenProperties DEF TypeInv, TypeOK
<1>10. /\ DOMAIN wtop[c] = 1..M
       /\ \A e \in ToSet(wtop[c]) : \E i \in 1..M : wtop[c][i] = e
  BY <1>9, Places
<1>11. B \in SUBSET (0..M) /\ B # {}
  <2>1. PICK w \in ToSet(wtop[c]) : IsBlocked(c, w)  BY <1>7, <1>8
  <2>2. PICK n \in 1..M : wtop[c][n] = w  BY <1>10, <2>1
  <2>3. n \in B  BY <2>1, <2>2
  <2>. QED  BY <1>9, <2>3
<1>12. PICK n \in B : \A k \in B : n <= k
  <2>. HIDE DEF B, M
  <2>. QED  BY <1>9, <1>11, Least
<1>13. PICK w \in Thread : w = wtop[c][n]  BY <1>9, <1>12, ElementOfSeq
<1>14. \A k \in 1..(n-1) : ~IsBlocked(c, wtop[c][k])
  <2>1. ASSUME NEW k \in 1..(n-1), IsBlocked(c, wtop[c][k])  PROVE FALSE
    <3>1. n \in 1..M  BY <1>12
    <3>2. k \in 1..M /\ ~(n <= k)  BY <1>9, <3>1
    <3>3. k \in B  BY <2>1, <3>2
    <3>. QED  BY <1>12, <3>2, <3>3
  <2>. QED  BY <2>1
<1>15. \A l \in 1..(m-1) : \A v \in ToSet(wtop[all_chnls[l]]) : ~IsBlocked(all_chnls[l], v)
  <2>1. ASSUME NEW l \in 1..(m-1), Some(all_chnls[l])  PROVE FALSE
    <3>1. m \in 1..N  BY <1>7
    <3>2. l \in 1..N /\ ~(m <= l)  BY <1>2, <3>1
    <3>3. l \in T  BY <2>1, <3>2
    <3>. QED  BY <1>7, <3>2, <3>3
  <2>. QED  BY <2>1
<1>16. m \in DOMAIN all_chnls /\ n \in DOMAIN wtop[c]  BY <1>3, <1>7, <1>10, <1>12
<1>17. IsBlocked(c, w)  BY <1>12, <1>13
<1>. HIDE DEF T, B
<1>18. FirstBlocked(c, w)  BY <1>8, <1>13, <1>14, <1>15, <1>16, <1>17 DEF FirstBlocked
<1>. QED  BY <1>18

(* When check_dead_lock finds nothing to wake, nothing is left.            *)
LEMMA NothingLeft ==
  ASSUME TypeInv, TreeInv, DutyInv, AccountInv, EndInv, phase = "deadlock", rtl = <<>>,
         total_blocked = 0 \/ ~ \E c \in Channel, w \in Thread : FirstBlocked(c, w)
  PROVE  live = {} /\ total_blocked = 0
<1>1. IsFiniteSet(Sleeping) /\ total_blocked = Cardinality(Sleeping)
  BY SleepingFinite DEF AccountInv, TotalBlocked
<1>2. Sleeping = {}
  <2>1. CASE total_blocked = 0  BY <1>1, <2>1, FS_EmptySet
  <2>2. CASE ~ \E c \in Channel, w \in Thread : FirstBlocked(c, w)
    BY <2>2, NoneBlocked DEF Sleeping, Sleeps
  <2>. QED  BY <2>1, <2>2
<1>3. del = NoThread /\ \A h \in named : Idle(h) => nchild[h] # 0
  BY DEF EndInv, Drained
<1>4. Ready = {} /\ NoThread \notin live /\ live \subseteq Thread
  BY ThreadAssumption DEF Ready, ToSet, TypeInv, TypeOK
<1>5. ASSUME NEW h \in live  PROVE \E k \in live : parent[k] = h
  <2>1. CASE Suspended(h)  BY <2>1 DEF Suspended, Suspending
  <2>2. CASE Idle(h) \/ Exiting(h)
    <3>1. nchild[h] # 0
      <4>1. CASE Idle(h)  BY <1>3, <4>1 DEF Idle
      <4>2. CASE Exiting(h)  BY <1>3, <1>4, <4>2 DEF EndInv, ExitsLast
      <4>. QED  BY <2>2, <4>1, <4>2
    <3>. QED  BY <3>1, Childless
  <2>3. ~Sleeps(h)  BY <1>2, <1>4 DEF Sleeping
  <2>4. Suspended(h) \/ Idle(h) \/ Exiting(h)
    BY <1>3, <1>4, <2>3 DEF AccountInv, Accounted, Accounts
  <2>. QED  BY <2>1, <2>2, <2>4
<1>6. live = {}
  <2>1. live \in SUBSET live  OBVIOUS
  <2>. QED  BY <1>5, <2>1 DEF EndInv, Forest
<1>. QED  BY <1>1, <1>2, <1>6, FS_EmptySet

LEMMA DeadLockEnd ==
  ASSUME TypeInv, TreeInv, DutyInv, AccountInv, EndInv, check_dead_lock
  PROVE  EndInv'
<1>1. phase \in {"deadlock", "blocked"}  BY DEF check_dead_lock
<1>2. CASE Halt("error")  BY <1>2, HaltEnd DEF EndInv
<1>3. CASE \E h : rtl' = <<h>> \o rtl /\ UNCHANGED <<threadVars, ctlVars>>
  <2>1. PICK h : rtl' = <<h>> \o rtl /\ UNCHANGED <<threadVars, ctlVars>>  BY <1>3
  <2>2. UNCHANGED <<live, parent, nchild, flags, del, phase>>
    BY <2>1 DEF threadVars, ctlVars
  <2>3. Forest' /\ ExitsLast'  BY <2>2, SameTree DEF EndInv
  <2>4. rtl' # <<>>
    <3>1. rtl \in Seq(Thread)  BY DEF TypeInv, TypeOK
    <3>2. Len(<<h>> \o rtl) = 1 + Len(rtl) /\ Len(rtl) \in Nat /\ Len(<<>>) = 0
      BY <3>1, LenProperties
    <3>. QED  BY <2>1, <3>2
  <2>5. Drained' /\ Ended'
    BY <1>1, <2>2, <2>4 DEF EndInv, Drained, Ended
  <2>. QED  BY <2>3, <2>5 DEF EndInv
<1>4. CASE /\ total_blocked = 0 \/ ~ \E c \in Channel, w \in Thread : FirstBlocked(c, w)
           /\ phase' = IF rtl # <<>> THEN "running"
                       ELSE IF phase = "deadlock" THEN "done" ELSE "crash"
           /\ UNCHANGED <<rtl, threadVars, stackVars, chanVars, del>>
  <2>1. UNCHANGED <<live, parent, nchild, flags, del, total_blocked>>
    BY <1>4 DEF threadVars, chanVars
  <2>2. Forest' /\ ExitsLast'  BY <2>1, SameTree DEF EndInv
  <2>3. CASE phase' = "done"
    <3>1. phase = "deadlock" /\ rtl = <<>>  BY <1>4, <2>3
    <3>2. live = {} /\ total_blocked = 0  BY <1>4, <3>1, NothingLeft
    <3>. QED  BY <2>1, <2>2, <2>3, <3>2 DEF EndInv, Drained, Ended
  <2>4. CASE phase' # "done"
    <3>1. phase' # "deadlock"  BY <1>4
    <3>. QED  BY <2>2, <2>4, <3>1, NotEnding DEF EndInv
  <2>. QED  BY <2>3, <2>4
<1>. QED  BY <1>2, <1>3, <1>4 DEF check_dead_lock

LEMMA EndInit == Init => EndInv
<1>. SUFFICES ASSUME Init PROVE EndInv  OBVIOUS
<1>1. /\ live = {Root} /\ flags = [h \in Thread |-> {}] /\ phase = "running"
      /\ parent = [h \in Thread |-> NoThread]
  BY DEF Init
<1>2. ExitsLast  BY <1>1, ThreadAssumption DEF ExitsLast, Exiting
<1>3. Forest
  <2>1. ASSUME NEW S \in SUBSET live, S # {}
        PROVE  \E h \in S : \A k \in S : parent[k] # h
    BY <1>1, <2>1, ThreadAssumption
  <2>. QED  BY <2>1 DEF Forest
<1>. QED  BY <1>1, <1>2, <1>3 DEF EndInv, Drained, Ended

LEMMA EndNext ==
  ASSUME TypeInv, TypeInv', TreeInv, TreeInv', DutyInv, AccountInv, EndInv, [Next]_vars
  PROVE  EndInv'
<1>1. CASE \/ do_defthread \/ do_lbrace \/ do_lbracket \/ do_thread
           \/ begin_of_named_thread \/ end_of_named_thread \/ end_of_block \/ end_of_tokens
           \/ do_pitch \/ do_reg \/ attach_effector \/ do_sync \/ end_sync
  BY <1>1, GroupEnd, QuietEnd
<1>2. CASE \/ do_signal \/ do_wait \/ end_wait \/ do_alt \/ end_alt \/ destroy_channel
           \/ do_eof \/ postpone_delete \/ delete_thread
  BY <1>2, QuietEnd, WaitEnd, PostponeEnd, DeleteEnd
<1>3. CASE \/ do_break \/ skip_token \/ break_alt \/ do_undef \/ delete_dict
           \/ begin_cleanup \/ cleanup_idle_threads \/ check_dead_lock
  BY <1>3, QuietEnd, CleanupEnd, DeadLockEnd
<1>4. CASE UNCHANGED vars
  <2>1. UNCHANGED <<rtl, live, parent, named, flags, nchild, pb, total_blocked, phase, del>>
    BY <1>4 DEF vars, threadVars, stackVars, chanVars, ctlVars
  <2>2. Forest' /\ ExitsLast'  BY <2>1, SameTree DEF EndInv
  <2>3. \A h : Idle(h)' <=> Idle(h)  BY <2>1 DEF Idle, Top
  <2>. QED  BY <2>1, <2>2, <2>3 DEF EndInv, Drained, Ended
<1>. QED  BY <1>1, <1>2, <1>3, <1>4 DEF Next, terminated

LEMMA EndInvariant ==
  ASSUME Guarded
  PROVE  Spec => [](TypeInv /\ TreeInv /\ StackInv /\ DutyInv /\ AccountInv /\ EndInv)
<1>. DEFINE I == TypeInv /\ TreeInv /\ StackInv /\ DutyInv /\ AccountInv /\ EndInv
<1>1. Init => I  BY TypeInit, TreeInit, StackInit, DutyInit, AccountInit, EndInit
<1>2. I /\ [Next]_vars => I'
  BY TypeStep, TreeStep, StackNext, DutyNext, AccountNext, EndNext
<1>. HIDE DEF I
<1>3. Spec => []I  BY <1>1, <1>2, PTL DEF Spec
<1>. QED  BY <1>3 DEF I

(* When the compiler ends successfully no thread is left, so every wrap    *)
(* action has been run and every effector has written its events: whoever  *)
(* has no children is freed by cleanup_idle_threads or by its last child,  *)
(* and every set of threads without a cycle has one without children.      *)
THEOREM NothingRemains ==
  ASSUME Guarded
  PROVE  Spec => []CompleteAtEnd
<1>1. EndInv => CompleteAtEnd  BY DEF EndInv, Ended, CompleteAtEnd
<1>. QED  BY <1>1, EndInvariant, PTL

(* A thread that gets past === has no descendant that could still run:     *)
(* each has come to its end, or sleeps in wait or alt, or above a group.   *)
THEOREM SyncComplete ==
  ASSUME Guarded
  PROVE  Spec => SyncWaits
<1>. DEFINE I == TypeInv /\ TreeInv /\ DutyInv /\ AccountInv /\ EndInv
            Past == (do_sync \/ end_sync) /\ Head(pb'[cur]).type # "ESYNC"
                      => \A g \in live : cur \in Ancestors(g) =>
                           Top(g) = "EOF" \/ Blocked(g) \/ Suspended(g)
<1>1. I => Past
  <2>. SUFFICES ASSUME I, do_sync \/ end_sync, Head(pb'[cur]).type # "ESYNC",
                       NEW g \in live, cur \in Ancestors(g)
                PROVE  Top(g) = "EOF" \/ Blocked(g) \/ Suspended(g)
    OBVIOUS
  <2>1. rtl # <<>> /\ del = NoThread /\ Top(cur) \in {"BODY", "ESYNC"}
    BY CommandTree, TokenTree DEF do_sync, end_sync
  <2>2. PICK x \in live : x = cur /\ x \in Thread  BY <2>1, CurReady
  <2>3. ~HasReadyDescendant(cur)
    <3>1. SUFFICES ASSUME HasReadyDescendant(cur)  PROVE FALSE  OBVIOUS
    <3>2. CASE do_sync
      <4>1. pb' = [pb EXCEPT ![x] = <<Mark("ESYNC")>> \o @]
        BY <2>2, <3>1, <3>2 DEF do_sync
      <4>2. pb \in [Thread -> Seq(Item)]  BY DEF TypeInv, TypeOK
      <4>3. pb'[x] = <<Mark("ESYNC")>> \o pb[x]  BY <2>2, <4>1, <4>2
      <4>4. Head(<<Mark("ESYNC")>> \o pb[x]) = Mark("ESYNC")
        BY <2>2, <4>2, MarkItem, PushItems
      <4>. QED  BY <2>2, <4>3, <4>4 DEF Mark
    <3>3. CASE end_sync
      <4>1. pb' = pb /\ Top(x) = "ESYNC"  BY <2>2, <3>1, <3>3 DEF end_sync, Token
      <4>. QED  BY <2>2, <4>1, TopOf
    <3>. QED  BY <3>2, <3>3
  <2>4. g # x  BY <2>2, NoCycle DEF EndInv
  <2>5. g \notin Ready  BY <2>2, <2>3, <2>4 DEF HasReadyDescendant
  <2>6. Exiting(g) => Top(g) = "EOF"  BY DEF TreeInv, Exits
  <2>7. g # NoThread  BY ThreadAssumption DEF TypeInv, TypeOK
  <2>8. Sleeps(g) => Blocked(g)  BY SleepsBlocked
  <2>. QED  BY <2>1, <2>5, <2>6, <2>7, <2>8 DEF AccountInv, Accounted, Accounts, Idle
<1>2. I => [Past]_vars  BY <1>1
<1>3. Spec => []I  BY EndInvariant, PTL
<1>. HIDE DEF I
<1>4. Spec => [][Past]_vars  BY <1>2, <1>3, PTL
<1>. QED  BY <1>4 DEF SyncWaits

-----------------------------------------------------------------------------
(***************************************************************************)
(* The threads implement ThreadLife: the step that each action is of the   *)
(* life of its threads.                                                    *)
(***************************************************************************)
LifeInv == TypeInv /\ TreeInv /\ DutyInv /\ AccountInv

-----------------------------------------------------------------------------
(* The mapping.  A thread is in one state only, so the first that fits is  *)
(* it, and who fits none of the others is blocked.                         *)
StateOf(h) ==
  IF h \notin live THEN "none"
  ELSE IF h = del THEN "deleted"
  ELSE IF h \in Ready THEN "ready"
  ELSE IF Suspended(h) THEN "suspended"
  ELSE IF Idle(h) THEN "idle"
  ELSE IF Exiting(h) THEN "exiting"
  ELSE "blocked"

Mapped ==
  /\ state = [h \in Thread |-> StateOf(h)]
  /\ awaits \in [Thread -> Thread \cup {NoThread}]
  /\ \A h \in Thread : ~Suspended(h) => awaits[h] = NoThread
  /\ \A k \in Thread : Suspending(k) => parent[k] \in Thread /\ awaits[parent[k]] = k

LEMMA Mapping == LifeInv => Mapped
<1>. SUFFICES ASSUME TypeInv, TreeInv, DutyInv, AccountInv  PROVE Mapped  BY DEF LifeInv
<1>1. ASSUME NEW h \in live  PROVE States(h) = {StateOf(h)}
  <2>1. PICK s : States(h) = {s}  BY Exclusive DEF AccountInv
  <2>2. StateOf(h) \in States(h)
    <3>1. h = del \/ h \in Ready \/ Sleeps(h) \/ Suspended(h) \/ Idle(h) \/ Exiting(h)
      BY DEF AccountInv, Accounted, Accounts
    <3>2. Sleeps(h) <=> Blocked(h)  BY SleepsBlocked
    <3>. QED  BY <3>1, <3>2 DEF States, StateOf
  <2>. QED  BY <2>1, <2>2
<1>2. ASSUME NEW h \in Thread
      PROVE  (IF h \in live /\ States(h) # {} THEN CHOOSE s \in States(h) : TRUE ELSE "none")
               = StateOf(h)
  <2>1. CASE h \in live  BY <1>1, <2>1
  <2>2. CASE h \notin live  BY <2>2 DEF StateOf
  <2>. QED  BY <2>1, <2>2
<1>3. state = [h \in Thread |-> StateOf(h)]  BY <1>2 DEF state
<1>4. ASSUME NEW h \in Thread, ~Suspended(h)  PROVE awaits[h] = NoThread  BY <1>4 DEF awaits
<1>5. ASSUME NEW k \in Thread, Suspending(k)
      PROVE  parent[k] \in Thread /\ awaits[parent[k]] = k
  <2>. DEFINE p == parent[k]
              Awaited(j) == Suspending(j) /\ parent[j] = p
  <2>1. p \in Thread
    BY <1>5 DEF Suspending, TypeInv, TypeOK, GroupHasParent, TreeInv, Shape
  <2>2. Suspended(p)  BY <1>5 DEF Suspended
  <2>3. awaits[p] = CHOOSE j \in Thread : Awaited(j)  BY <2>1, <2>2 DEF awaits
  <2>4. Awaited(k) /\ \A j \in Thread : Awaited(j) => j = k
    BY <1>5 DEF TreeInv, Groups
  <2>. HIDE DEF Awaited, p
  <2>5. awaits[p] = k  BY <2>3, <2>4
  <2>. QED  BY <2>1, <2>5 DEF p
<1>6. awaits \in [Thread -> Thread \cup {NoThread}]
  <2>1. ASSUME NEW h \in Thread  PROVE awaits[h] \in Thread \cup {NoThread}
    <3>1. CASE Suspended(h)
      <4>1. PICK k \in Thread : Suspending(k) /\ parent[k] = h  BY <3>1 DEF Suspended
      <4>. QED  BY <1>5, <4>1
    <3>2. CASE ~Suspended(h)  BY <1>4, <3>2
    <3>. QED  BY <3>1, <3>2
  <2>2. awaits = [h \in Thread |-> awaits[h]]  BY DEF awaits
  <2>. QED  BY <2>1, <2>2
<1>. QED  BY <1>3, <1>4, <1>5, <1>6 DEF Mapped

LEMMA MappingNext == LifeInv' => Mapped'
BY Mapping, PTL

(* What thread a thread waits for.                                         *)
LEMMA SameAwaits ==
  ASSUME Mapped, Mapped',
         \A k \in Thread : /\ Suspending(k)' <=> Suspending(k)
                           /\ Suspending(k) => parent'[k] = parent[k]
  PROVE  awaits' = awaits /\ \A h \in Thread : Suspended(h)' <=> Suspended(h)
<1>1. ASSUME NEW h \in Thread  PROVE awaits'[h] = awaits[h] /\ (Suspended(h)' <=> Suspended(h))
  <2>1. CASE Suspended(h)
    <3>1. PICK k \in Thread : Suspending(k) /\ parent[k] = h  BY <2>1 DEF Suspended
    <3>2. Suspending(k)' /\ parent'[k] = h  BY <3>1
    <3>. QED  BY <2>1, <3>1, <3>2 DEF Suspended, Mapped
  <2>2. CASE ~Suspended(h)
    <3>1. ~Suspended(h)'  BY <2>2 DEF Suspended
    <3>. QED  BY <2>2, <3>1 DEF Mapped
  <2>. QED  BY <2>1, <2>2
<1>. QED  BY <1>1 DEF Mapped

-----------------------------------------------------------------------------
(* Steps that leave the tree of threads as it is.                          *)
LifeFrame ==
  /\ UNCHANGED <<live, parent, named, del>>
  /\ \A h \in Thread : /\ "SFLAG" \in flags'[h] <=> "SFLAG" \in flags[h]
                       /\ "EXITING" \in flags'[h] <=> "EXITING" \in flags[h]

LEMMA FrameLife ==
  ASSUME LifeInv, LifeInv', LifeFrame
  PROVE  /\ Mapped /\ Mapped' /\ awaits' = awaits /\ parent' = parent
         /\ \A h \in Thread : Suspended(h)' <=> Suspended(h)
         /\ \A h \in live : Exiting(h)' <=> Exiting(h)
         /\ live' = live /\ del' = del /\ named' = named /\ live \subseteq Thread
<1>1. Mapped /\ Mapped'  BY Mapping, MappingNext
<1>2. live \subseteq Thread  BY DEF LifeInv, TypeInv, TypeOK
<1>3. \A k \in Thread : /\ Suspending(k)' <=> Suspending(k)
                        /\ Suspending(k) => parent'[k] = parent[k]
  BY DEF LifeFrame, Suspending, Exiting
<1>4. awaits' = awaits /\ \A h \in Thread : Suspended(h)' <=> Suspended(h)
  BY <1>1, <1>3, SameAwaits
<1>. QED  BY <1>1, <1>2, <1>4 DEF LifeFrame, Exiting

LEMMA WakeLife ==
  ASSUME LifeInv, LifeInv', LifeFrame, NEW W \in SUBSET (live \ Ready), Ready' = Ready \cup W,
         \A h \in W : Top(h) \in {"EWAIT", "EALT"},
         \A h \in live \ Ready' : Top(h) = "EOF" <=> Top(h)' = "EOF"
  PROVE  Abstract!Next
<1>1. /\ Mapped /\ Mapped' /\ awaits' = awaits /\ parent' = parent
      /\ \A h \in Thread : Suspended(h)' <=> Suspended(h)
      /\ \A h \in live : Exiting(h)' <=> Exiting(h)
      /\ live' = live /\ del' = del /\ named' = named /\ live \subseteq Thread
  BY FrameLife
<1>2. \A h \in W : Awakable(h) /\ ~Idle(h)
  <2>1. ASSUME NEW h \in W  PROVE Awakable(h) /\ ~Idle(h)
    <3>1. h \in live /\ Top(h) \notin {"EOF", "BODY"}  OBVIOUS
    <3>. QED  BY <3>1, BusyAwakable DEF LifeInv, Idle
  <2>. QED  BY <2>1
<1>3. \A h \in W : StateOf(h) = "blocked" /\ StateOf(h)' = "ready"
  BY <1>1, <1>2 DEF StateOf, Awakable
<1>4. \A h \in Thread \ W : StateOf(h)' = StateOf(h)
  BY <1>1 DEF StateOf, Idle
<1>5. state' = [h \in Thread |-> IF h \in W THEN "ready" ELSE state[h]]
  BY <1>1, <1>3, <1>4 DEF Mapped
<1>6. \A h \in W : state[h] = "blocked"  BY <1>1, <1>3 DEF Mapped
<1>7. Abstract!Wake(W) /\ W \in SUBSET Thread  BY <1>1, <1>5, <1>6 DEF Abstract!Wake
<1>. QED  BY <1>7 DEF Abstract!Next

LEMMA StillLife ==
  ASSUME LifeInv, LifeInv', LifeFrame, Ready' = Ready,
         \A h \in live \ Ready : Top(h) = "EOF" <=> Top(h)' = "EOF"
  PROVE  Abstract!Next
<1>. DEFINE W == {}
<1>1. /\ W \in SUBSET (live \ Ready) /\ Ready' = Ready \cup W
      /\ \A h \in W : Top(h) \in {"EWAIT", "EALT"}
  OBVIOUS
<1>. HIDE DEF W
<1>. QED  BY <1>1, WakeLife

LEMMA SleepLife ==
  ASSUME LifeInv, LifeInv', LifeFrame, rtl # <<>>, Ready' = Ready \ {cur},
         Head(pb'[cur]).type # "EOF", \A h \in live \ {cur} : pb'[h] = pb[h]
  PROVE  Abstract!Next
<1>1. /\ Mapped /\ Mapped' /\ awaits' = awaits /\ parent' = parent
      /\ \A h \in Thread : Suspended(h)' <=> Suspended(h)
      /\ \A h \in live : Exiting(h)' <=> Exiting(h)
      /\ live' = live /\ del' = del /\ named' = named /\ live \subseteq Thread
  BY FrameLife
<1>2. PICK x \in live : /\ x = cur /\ x \in Thread /\ x \in Ready /\ Awakable(x)
  BY CurReady DEF LifeInv
<1>3. Top(x)' # "EOF"  BY <1>2 DEF Top
<1>4. StateOf(x) = "ready" /\ StateOf(x)' = "blocked"
  BY <1>1, <1>2, <1>3 DEF StateOf, Awakable, Idle
<1>5. ASSUME NEW h \in Thread \ {x}  PROVE StateOf(h)' = StateOf(h)
  <2>1. CASE h \in live
    <3>1. Top(h)' = Top(h)  BY <1>2, <2>1 DEF Top
    <3>. QED  BY <1>1, <1>2, <2>1, <3>1 DEF StateOf, Idle
  <2>2. CASE h \notin live  BY <1>1, <2>2 DEF StateOf
  <2>. QED  BY <2>1, <2>2
<1>6. state' = [state EXCEPT ![x] = "blocked"] /\ state[x] = "ready"
  BY <1>1, <1>2, <1>4, <1>5 DEF Mapped
<1>7. Abstract!Sleep(x)  BY <1>1, <1>6 DEF Abstract!Sleep
<1>. QED  BY <1>2, <1>7 DEF Abstract!Next

-----------------------------------------------------------------------------
(* The commands and tokens of the current thread.                          *)
LEMMA SameLife ==
  ASSUME UNCHANGED <<live, parent, named, flags, del>>
  PROVE  LifeFrame
BY DEF LifeFrame

LEMMA CurLife ==
  ASSUME LifeInv, LifeInv', LifeFrame, rtl # <<>>, Ready' = Ready,
         \A h \in live \ {cur} : pb'[h] = pb[h]
  PROVE  Abstract!Next
<1>1. cur \in Ready  BY CurReady DEF LifeInv
<1>2. \A h \in live \ Ready : Top(h)' = Top(h)  BY <1>1 DEF Top
<1>. QED  BY <1>2, StillLife

LEMMA QuietLife ==
  ASSUME LifeInv, LifeInv', UNCHANGED <<rtl, live, parent, named, flags, del, pb>>
  PROVE  Abstract!Next
<1>1. LifeFrame  BY SameLife
<1>2. Ready' = Ready  BY DEF Ready
<1>3. \A h \in live \ Ready : Top(h)' = Top(h)  BY DEF Top
<1>. QED  BY <1>1, <1>2, <1>3, StillLife

LEMMA HaltLife ==
  ASSUME LifeInv, LifeInv', NEW how, Halt(how)
  PROVE  Abstract!Next
<1>1. UNCHANGED <<rtl, live, parent, named, flags, del, pb>>
  BY DEF Halt, threadVars, stackVars
<1>. QED  BY <1>1, QuietLife

LEMMA CommandLife ==
  ASSUME LifeInv, LifeInv',
         do_pitch \/ do_reg \/ attach_effector \/ do_break \/ do_undef \/ begin_cleanup
  PROVE  Abstract!Next
<1>1. UNCHANGED <<rtl, live, parent, named, flags, del, pb>>
  BY DEF do_pitch, do_reg, attach_effector, do_break, do_undef, begin_cleanup, Halt,
         threadVars, stackVars, ctlVars
<1>. QED  BY <1>1, QuietLife

LEMMA TokenLife ==
  ASSUME LifeInv, LifeInv',
         \/ begin_of_named_thread \/ end_of_named_thread \/ end_of_block
         \/ end_of_tokens \/ skip_token
  PROVE  Abstract!Next
<1>0. TypeInv /\ TreeInv  BY DEF LifeInv
<1>1. rtl # <<>> /\ Pop(cur) /\ UNCHANGED <<rtl, live, parent, named, del>>
  BY DEF begin_of_named_thread, end_of_named_thread, end_of_block, end_of_tokens,
         skip_token, Token, threadVars, ctlVars
<1>2. LifeFrame
  <2>1. CASE begin_of_named_thread
    <3>1. PICK f \in SUBSET {"CFLAG"} : flags' = [flags EXCEPT ![cur] = (@ \ {"CFLAG"}) \cup f]
      BY <2>1 DEF begin_of_named_thread
    <3>2. flags \in [Thread -> SUBSET Flag]  BY <1>0 DEF TypeInv, TypeOK
    <3>. QED  BY <1>1, <3>1, <3>2 DEF LifeFrame
  <2>2. CASE ~begin_of_named_thread
    BY <2>2, <1>1 DEF end_of_named_thread, end_of_block, end_of_tokens, skip_token, threadVars,
       LifeFrame
  <2>. QED  BY <2>1, <2>2
<1>3. PICK x \in live : x = cur  BY <1>0, <1>1, CurReady
<1>4. \A h \in live \ {cur} : pb'[h] = pb[h]  BY <1>0, <1>1, <1>3, PopTokens
<1>5. Ready' = Ready  BY <1>1 DEF Ready
<1>. QED  BY <1>1, <1>2, <1>4, <1>5, CurLife

LEMMA SyncLife ==
  ASSUME LifeInv, LifeInv', do_sync \/ end_sync
  PROVE  Abstract!Next
<1>0. TypeInv /\ TreeInv  BY DEF LifeInv
<1>1. rtl # <<>> /\ UNCHANGED <<live, parent, named, flags, del>>
  BY <1>0, CommandTree, TokenTree DEF do_sync, end_sync, sync, threadVars, ctlVars
<1>2. PICK x \in live : x = cur /\ x \in Thread  BY <1>0, <1>1, CurReady
<1>3. \A h \in live \ {cur} : pb'[h] = pb[h]
  <2>1. pb \in [Thread -> Seq(Item)] /\ live \subseteq Thread  BY <1>0 DEF TypeInv, TypeOK
  <2>2. \/ pb' = pb \/ Pop(x) \/ pb' = [pb EXCEPT ![x] = <<Mark("ESYNC")>> \o @]
    BY <1>2 DEF do_sync, end_sync
  <2>3. CASE Pop(x)  BY <1>0, <1>2, <2>3, PopTokens
  <2>. QED  BY <1>2, <2>1, <2>2, <2>3
<1>4. Ready' = Ready
  <2>1. rotate_thread \/ rtl' = rtl  BY DEF do_sync, end_sync, sync
  <2>. QED  BY <1>0, <1>1, <2>1, RotateKeeps DEF Ready
<1>. QED  BY <1>1, <1>3, <1>4, SameLife, CurLife

(* THREAD {} starts the thread if it is idle.                              *)
LEMMA StartLife ==
  ASSUME LifeInv, LifeInv', do_thread
  PROVE  Abstract!Next
<1>0. TypeInv /\ TreeInv  BY DEF LifeInv
<1>1. /\ rtl # <<>> /\ UNCHANGED <<live, parent, named, flags, del>>
      /\ rtl \in Seq(Thread) /\ del = NoThread
  BY <1>0, CommandTree DEF do_thread, threadVars, ctlVars, TypeInv, TypeOK
<1>2. PICK x \in named, avoid \in BOOLEAN :
        /\ pb' = [pb EXCEPT ![x] = Front(@) \o
                 <<Bot(reg_t[cur], avoid), Mark("BODY"), Mark("EOT"), Mark("EOF")>>]
        /\ awake_if_idle(x)
  BY DEF do_thread
<1>3. x \in Thread /\ x \in live /\ live \subseteq Thread /\ pb \in [Thread -> Seq(Item)]
  BY <1>0 DEF TypeInv, TypeOK, TreeInv, Names
<1>4. Ready' = IF Top(x) = "EOF" THEN {x} \cup Ready ELSE Ready
  <2>1. ToSet(<<x>> \o rtl) = {x} \cup ToSet(rtl)  BY <1>1, <1>3, ConsReady
  <2>. QED  BY <1>2, <2>1 DEF awake_if_idle, Ready
<1>5. \A h \in live \ {x} : Top(h)' = Top(h)  BY <1>2, <1>3 DEF Top
<1>6. LifeFrame  BY <1>1, SameLife
<1>7. CASE Top(x) = "EOF"
  <2>1. /\ Mapped /\ Mapped' /\ awaits' = awaits /\ parent' = parent
        /\ \A h \in Thread : Suspended(h)' <=> Suspended(h)
        /\ \A h \in live : Exiting(h)' <=> Exiting(h)
        /\ live' = live /\ del' = del /\ named' = named /\ live \subseteq Thread
    BY <1>6, FrameLife
  <2>2. Awakable(x)  BY <1>0, <1>1, <1>7, IdleAwakable
  <2>3. x \notin Ready
    BY <1>0, <1>7, CommandTree DEF do_thread
  <2>4. StateOf(x) = "idle" /\ StateOf(x)' = "ready"
    BY <1>3, <1>4, <1>7, <2>1, <2>2, <2>3 DEF StateOf, Awakable, Idle
  <2>5. \A h \in Thread \ {x} : StateOf(h)' = StateOf(h)
    BY <1>4, <1>5, <1>7, <2>1 DEF StateOf, Idle
  <2>6. state' = [state EXCEPT ![x] = "ready"] /\ state[x] = "idle"
    BY <1>3, <2>1, <2>4, <2>5 DEF Mapped
  <2>7. Abstract!Start(x)  BY <2>1, <2>6 DEF Abstract!Start
  <2>. QED  BY <1>3, <2>7 DEF Abstract!Next
<1>8. CASE Top(x) # "EOF"
  <2>1. Top(x)' # "EOF"
    <3>1. pb[x] \in Seq(Item) /\ WellFormed(pb[x]) /\ Head(pb[x]).type # "EOF"
      BY <1>0, <1>3, <1>8, TopOf
    <3>. DEFINE t == <<Bot(reg_t[cur], avoid), Mark("BODY"), Mark("EOT"), Mark("EOF")>>
    <3>2. t \in Seq(Item) /\ Len(t) = 4 /\ (\A i \in 1..4 : t[i].type = "EOF" <=> i = 4)
          /\ \A i \in 1..4 : t[i].type # "EALT"
      <4>1. Bot(reg_t[cur], avoid) \in Item
        <5>1. reg_t[cur] \in Nat  BY <1>0, <1>1, CurReady DEF TypeInv, TypeOK
        <5>. QED  BY <5>1 DEF Bot, Item
      <4>. QED  BY <4>1, MarkItem DEF Bot, Mark
    <3>3. pb'[x] = Front(pb[x]) \o t  BY <1>2, <1>3
    <3>. HIDE DEF t
    <3>4. Head(pb'[x]) = Head(pb[x])  BY <3>1, <3>2, <3>3, AddWellFormed
    <3>. QED  BY <3>1, <3>4 DEF Top
  <2>2. \A h \in live \ Ready : Top(h) = "EOF" <=> Top(h)' = "EOF"  BY <1>5, <1>8, <2>1
  <2>. QED  BY <1>4, <1>6, <1>8, <2>2, StillLife
<1>. QED  BY <1>7, <1>8

-----------------------------------------------------------------------------
(* Channels: the current thread goes on or falls asleep, and others wake.  *)
LEMMA PassOrSleep ==
  ASSUME LifeInv, LifeInv', LifeFrame, rtl # <<>>, rotate_thread \/ rtl' = Tail(rtl),
         Head(pb'[cur]).type # "EOF", \A h \in live \ {cur} : pb'[h] = pb[h]
  PROVE  Abstract!Next
<1>0. TypeInv /\ TreeInv  BY DEF LifeInv
<1>1. CASE rotate_thread
  <2>1. Ready' = Ready  BY <1>0, <1>1, RotateKeeps
  <2>. QED  BY <2>1, CurLife
<1>2. CASE rtl' = Tail(rtl)
  <2>1. rtl \in Seq(Thread) /\ IsInjective(rtl)  BY <1>0, CurReady
  <2>2. Ready' = Ready \ {cur}  BY <1>2, <2>1, TailReady DEF Ready, cur
  <2>. QED  BY <2>2, SleepLife
<1>. QED  BY <1>1, <1>2

LEMMA WaitLife ==
  ASSUME LifeInv, LifeInv', do_wait
  PROVE  Abstract!Next
<1>0. TypeInv /\ TreeInv  BY DEF LifeInv
<1>1. rtl # <<>>  BY <1>0, CommandTree DEF do_wait
<1>2. CASE Halt("crash")  BY <1>2, HaltLife
<1>3. CASE ~Halt("crash")
  <2>1. PICK c \in Channel, w \in Thread, b \in Bind :
          /\ flags' = [flags EXCEPT ![w] = @ \cup {"WAITEX"}]
          /\ Push(<<Ewait(c, w, b)>>)
          /\ rotate_thread \/ rtl' = Tail(rtl)
          /\ UNCHANGED <<live, parent, named, del>>
    BY <1>3 DEF do_wait
  <2>2. LifeFrame
    <3>1. flags \in [Thread -> SUBSET Flag]  BY <1>0 DEF TypeInv, TypeOK
    <3>. QED  BY <2>1, <3>1 DEF LifeFrame
  <2>. DEFINE e == Ewait(c, w, b)
  <2>3. e \in Item /\ e.type = "EWAIT"  BY ProgramAssumption DEF Ewait, Item
  <2>4. Push(<<e>>)  BY <2>1
  <2>. HIDE DEF e
  <2>5. /\ \A h \in live \ {cur} : pb'[h] = pb[h]
        /\ Head(pb'[cur]) = e
    BY <1>0, <1>1, <2>3, <2>4, PushTree
  <2>. QED  BY <1>1, <2>1, <2>2, <2>3, <2>5, PassOrSleep
<1>. QED  BY <1>2, <1>3

LEMMA AltLife ==
  ASSUME LifeInv, LifeInv', do_alt
  PROVE  Abstract!Next
<1>0. TypeInv /\ TreeInv  BY DEF LifeInv
<1>1. rtl # <<>> /\ Top(cur) = "BODY"  BY <1>0, CommandTree DEF do_alt
<1>2. CASE Halt("crash")  BY <1>2, HaltLife
<1>3. CASE ~Halt("crash")
  <2>1. PICK gs \in AltGuards, w \in Thread, d \in Default :
          /\ flags' = [flags EXCEPT ![w] = @ \cup {"WAITEX"}]
          /\ Push(<<Ealt(gs, w, d)>>)
          /\ rotate_thread \/ Block(gs, w)
          /\ UNCHANGED <<live, parent, named, nchild, timeVars, eff, mtop, del, level, undefs>>
    BY <1>3, ZenonT(30) DEF do_alt
  <2>2. LifeFrame
    <3>1. flags \in [Thread -> SUBSET Flag]  BY <1>0 DEF TypeInv, TypeOK
    <3>. QED  BY <2>1, <3>1 DEF LifeFrame
  <2>. DEFINE e == Ealt(gs, w, d)
  <2>3. e \in Item /\ e.type = "EALT"
    <3>1. gs \in Seq([chnl : Channel \cup {Freed}, bind : BOOLEAN]) /\ d \in BOOLEAN
      BY GuardChannelSeq, ProgramAssumption
    <3>. QED  BY <3>1 DEF Ealt, Item
  <2>4. Push(<<e>>)  BY <2>1
  <2>. HIDE DEF e
  <2>5. /\ \A h \in live \ {cur} : pb'[h] = pb[h]
        /\ Head(pb'[cur]) = e
    BY <1>0, <1>1, <2>3, <2>4, PushTree
  <2>6. rotate_thread \/ rtl' = Tail(rtl)  BY <2>1 DEF Block
  <2>. QED  BY <1>1, <2>2, <2>3, <2>5, <2>6, PassOrSleep
<1>. QED  BY <1>2, <1>3

LEMMA EndWaitLife ==
  ASSUME LifeInv, LifeInv', end_wait
  PROVE  Abstract!Next
<1>0. TypeInv /\ TreeInv  BY DEF LifeInv
<1>1. rtl # <<>>  BY <1>0, TokenTree DEF end_wait
<1>2. CASE \E how \in {"error", "crash"} : Halt(how)  BY <1>2, HaltLife
<1>3. CASE ~ \E how \in {"error", "crash"} : Halt(how)
  <2>1. PICK x \in live : x = cur  BY <1>0, <1>1, CurReady
  <2>2. Pop(x) /\ UNCHANGED <<rtl, live, parent, named, flags, del>>
    BY <1>3, <2>1 DEF end_wait, threadVars, ctlVars
  <2>3. \A h \in live \ {cur} : pb'[h] = pb[h]  BY <1>0, <2>1, <2>2, PopTokens
  <2>4. Ready' = Ready  BY <2>2 DEF Ready
  <2>. QED  BY <1>1, <2>2, <2>3, <2>4, SameLife, CurLife
<1>. QED  BY <1>2, <1>3

LEMMA EndAltLife ==
  ASSUME LifeInv, LifeInv', end_alt
  PROVE  Abstract!Next
<1>0. TypeInv /\ TreeInv  BY DEF LifeInv
<1>1. rtl # <<>> /\ Top(cur) = "EALT"  BY <1>0, TokenTree DEF end_alt
<1>2. PICK x \in live : x = cur  BY <1>0, <1>1, CurReady
<1>3. CASE \E how \in {"error", "crash"} : Halt(how)  BY <1>3, HaltLife
<1>4. CASE /\ Push(<<Mark("BODY")>>) /\ rotate_thread
           /\ UNCHANGED <<live, parent, named, flags, del>>
  <2>. DEFINE e == Mark("BODY")
  <2>1. e \in Item /\ e.type = "BODY"  BY MarkItem DEF Mark
  <2>2. Push(<<e>>)  BY <1>4
  <2>. HIDE DEF e
  <2>3. \A h \in live \ {cur} : pb'[h] = pb[h]  BY <1>0, <1>1, <2>1, <2>2, PushTree
  <2>4. Ready' = Ready  BY <1>0, <1>1, <1>4, RotateKeeps
  <2>. QED  BY <1>1, <1>4, <2>3, <2>4, SameLife, CurLife
<1>5. CASE rtl' = Tail(rtl) /\ UNCHANGED <<live, parent, named, flags, del, pb>>
  <2>1. Head(pb'[cur]).type # "EOF"  BY <1>0, <1>1, <1>2, <1>5, TopOf
  <2>2. \A h \in live \ {cur} : pb'[h] = pb[h]  BY <1>5
  <2>. QED  BY <1>1, <1>5, <2>1, <2>2, SameLife, PassOrSleep
<1>6. \/ \E how \in {"error", "crash"} : Halt(how)
      \/ /\ Push(<<Mark("BODY")>>) /\ rotate_thread
         /\ UNCHANGED <<live, parent, named, flags, del>>
      \/ rtl' = Tail(rtl) /\ UNCHANGED <<live, parent, named, flags, del, pb>>
  BY DEF end_alt, Block, threadVars, stackVars, chanVars, ctlVars
<1>. QED  BY <1>3, <1>4, <1>5, <1>6

LEMMA BreakAltLife ==
  ASSUME LifeInv, LifeInv', break_alt
  PROVE  Abstract!Next
<1>0. TypeInv /\ TreeInv  BY DEF LifeInv
<1>1. rtl # <<>> /\ Pop(cur) /\ UNCHANGED <<rtl, live, parent, named, flags, del>>
  BY DEF break_alt, leave_alt, threadVars
<1>2. PICK x \in live : x = cur  BY <1>0, <1>1, CurReady
<1>3. \A h \in live \ {cur} : pb'[h] = pb[h]  BY <1>0, <1>1, <1>2, PopTokens
<1>4. Ready' = Ready  BY <1>1 DEF Ready
<1>. QED  BY <1>1, <1>3, <1>4, SameLife, CurLife

LEMMA DestroyLife ==
  ASSUME LifeInv, LifeInv', destroy_channel
  PROVE  Abstract!Next
<1>0. TypeInv /\ TypeInv' /\ TreeInv /\ TreeInv'  BY DEF LifeInv
<1>1. CASE Halt("error")  BY <1>1, HaltLife
<1>2. CASE ~Halt("error")
  <2>1. UNCHANGED <<rtl, live, parent, named, flags, del>>  BY <1>0, <1>2, DestroyFacts
  <2>2. ASSUME NEW h \in live  PROVE Top(h)' = Top(h)
    <3>1. h \in Thread  BY <1>0 DEF TypeInv, TypeOK
    <3>2. pb[h] \in Seq(Item) /\ pb[h] # <<>>  BY <1>0, TopOf
    <3>3. pb'[h] # <<>>  BY <1>0, <2>1 DEF TreeInv, Stacks, WellFormed
    <3>4. Len(pb[h]) \in Nat /\ Len(pb[h]) > 0  BY <3>2, Places
    <3>5. \A i \in 1..Len(pb[h]) : pb'[h][i].type = pb[h][i].type
      BY <1>0, <1>2, <3>1, DestroyTypes
    <3>6. pb'[h][1].type = pb[h][1].type  BY <3>4, <3>5
    <3>7. Head(pb'[h]) = pb'[h][1] /\ Head(pb[h]) = pb[h][1]  OBVIOUS
    <3>. QED  BY <3>2, <3>3, <3>6, <3>7 DEF Top
  <2>3. Ready' = Ready  BY <2>1 DEF Ready
  <2>. QED  BY <2>1, <2>2, <2>3, SameLife, StillLife
<1>. QED  BY <1>1, <1>2

LEMMA SignalLife ==
  ASSUME LifeInv, LifeInv', do_signal
  PROVE  Abstract!Next
<1>0. TypeInv /\ TreeInv  BY DEF LifeInv
<1>1. PICK c \in Channel, obj \in Loaded : Send(c, reg_t[cur], obj, {})
  BY DEF do_signal
<1>2. PICK W \in SUBSET (live \ Ready) :
        Ready' = Ready \cup W /\ \A h \in W : Top(h) \in {"EWAIT", "EALT"}
  <2>. DEFINE gone == {}
  <2>1. Send(c, reg_t[cur], obj, gone)  BY <1>1
  <2>. HIDE DEF gone
  <2>. QED  BY <1>0, <2>1, SendTree
<1>3. UNCHANGED <<live, parent, named, flags, del, pb>>
  BY DEF do_signal, threadVars, stackVars, ctlVars
<1>4. \A h \in live : Top(h)' = Top(h)  BY <1>3 DEF Top
<1>. QED  BY <1>2, <1>3, <1>4, SameLife, WakeLife

LEMMA DeadLockLife ==
  ASSUME LifeInv, LifeInv', check_dead_lock
  PROVE  Abstract!Next
<1>0. TypeInv /\ TreeInv  BY DEF LifeInv
<1>1. CASE Halt("error")  BY <1>1, HaltLife
<1>2. CASE \E c \in Channel, w \in Thread :
             /\ IsBlocked(c, w)
             /\ rtl' = <<ws[c][w].sleep_thd>> \o rtl /\ Pop(ws[c][w].sleep_thd)
             /\ UNCHANGED <<live, parent, named, flags, del>>
  <2>1. PICK c \in Channel, w \in Thread :
             /\ IsBlocked(c, w)
             /\ rtl' = <<ws[c][w].sleep_thd>> \o rtl /\ Pop(ws[c][w].sleep_thd)
             /\ UNCHANGED <<live, parent, named, flags, del>>
    BY <1>2
  <2>2. PICK x \in live \ Ready : x = ws[c][w].sleep_thd /\ Top(x) \in {"EWAIT", "EALT"}
    BY <1>0, <2>1, SleeperOf
  <2>3. Pop(x) /\ rtl' = <<x>> \o rtl /\ rtl \in Seq(Thread) /\ x \in Thread
    BY <1>0, <2>1, <2>2 DEF TypeInv, TypeOK
  <2>. DEFINE W == {x}
  <2>4. Ready' = Ready \cup W  BY <2>3, ConsReady DEF Ready
  <2>5. \A h \in live \ {x} : Top(h)' = Top(h)  BY <1>0, <2>2, <2>3, PopTokens DEF Top
  <2>6. /\ W \in SUBSET (live \ Ready) /\ \A h \in W : Top(h) \in {"EWAIT", "EALT"}
        /\ \A h \in live \ Ready' : Top(h) = "EOF" <=> Top(h)' = "EOF"
    BY <2>2, <2>4, <2>5
  <2>. HIDE DEF W
  <2>. QED  BY <2>1, <2>4, <2>6, SameLife, WakeLife
<1>3. CASE UNCHANGED <<rtl, live, parent, named, flags, del, pb>>  BY <1>3, QuietLife
<1>4. \/ Halt("error")
      \/ \E c \in Channel, w \in Thread :
             /\ IsBlocked(c, w)
             /\ rtl' = <<ws[c][w].sleep_thd>> \o rtl /\ Pop(ws[c][w].sleep_thd)
             /\ UNCHANGED <<live, parent, named, flags, del>>
      \/ UNCHANGED <<rtl, live, parent, named, flags, del, pb>>
  BY DEF check_dead_lock, FirstBlocked, leave_alt, threadVars, stackVars, ctlVars
<1>. QED  BY <1>1, <1>2, <1>3, <1>4

-----------------------------------------------------------------------------
(* The end of a thread.                                                    *)

(* A group that ends resumes the thread that waits for it, and only that.  *)
LEMMA EofLife ==
  ASSUME LifeInv, LifeInv', do_eof
  PROVE  Abstract!Next
<1>0. TypeInv /\ TreeInv /\ TreeInv'  BY DEF LifeInv
<1>1. /\ del = NoThread /\ rtl # <<>> /\ Top(cur) = "EOF"
      /\ UNCHANGED <<live, parent, named, flags, pb>>
  BY DEF do_eof, threadVars, stackVars
<1>2. PICK x \in Ready : /\ x = cur /\ x \in live /\ x \in Thread /\ Awakable(x)
  BY <1>0, <1>1, CurReady
<1>3. /\ rtl \in Seq(Thread) /\ IsInjective(rtl) /\ live \subseteq Thread /\ NoThread \notin live
      /\ named \subseteq live
  BY <1>0, ThreadAssumption DEF TypeInv, TypeOK, TreeInv, Listed, Names
<1>4. /\ rtl' = IF Returns(x) THEN <<parent[x]>> \o Tail(rtl) ELSE Tail(rtl)
      /\ del' = IF x \in named THEN NoThread ELSE x
  BY <1>2 DEF do_eof
<1>5. Tail(rtl) \in Seq(Thread) /\ ToSet(Tail(rtl)) = Ready \ {x}
  BY <1>1, <1>2, <1>3, TailReady, HeadTailProperties DEF Ready, cur
<1>6. Ready' = (Ready \ {x}) \cup (IF Returns(x) THEN {parent[x]} ELSE {})
  <2>1. CASE Returns(x)
    <3>. DEFINE p == parent[x]
    <3>1. p \in Thread
      BY <1>0, <1>2, <1>3, <2>1, ThreadAssumption
         DEF Returns, TypeInv, GroupHasParent, TreeInv, Shape
    <3>2. rtl' = <<p>> \o Tail(rtl)  BY <1>4, <2>1
    <3>. HIDE DEF p
    <3>3. Ready' = {p} \cup (Ready \ {x})  BY <1>5, <3>1, <3>2, ConsReady DEF Ready
    <3>. QED  BY <2>1, <3>3 DEF p
  <2>2. CASE ~Returns(x)  BY <1>4, <1>5, <2>2 DEF Ready
  <2>. QED  BY <2>1, <2>2
<1>7. Mapped /\ Mapped'  BY Mapping, MappingNext
<1>8. \A h \in live : (Idle(h)' <=> Idle(h)) /\ (Exiting(h)' <=> Exiting(h))
  BY <1>1 DEF Idle, Top, Exiting
<1>9. StateOf(x) = "ready" /\ x # NoThread  BY <1>1, <1>2, <1>3 DEF StateOf
<1>10. CASE x \in named
  <2>1. del' = del /\ Ready' = Ready \ {x}  BY <1>1, <1>4, <1>6, <1>10 DEF Returns
  <2>2. \A k \in Thread : /\ Suspending(k)' <=> Suspending(k)
                          /\ Suspending(k) => parent'[k] = parent[k]
    BY <1>1, <2>1 DEF Suspending, Exiting
  <2>3. awaits' = awaits /\ \A h \in Thread : Suspended(h)' <=> Suspended(h)
    BY <1>7, <2>2, SameAwaits
  <2>4. StateOf(x)' = "idle"
    BY <1>1, <1>2, <1>8, <1>10, <2>1, <2>3, <1>9 DEF StateOf, Awakable, Idle
  <2>5. \A h \in Thread \ {x} : StateOf(h)' = StateOf(h)
    BY <1>1, <1>8, <2>1, <2>3 DEF StateOf
  <2>6. state' = [state EXCEPT ![x] = "idle"] /\ state[x] = "ready"
    BY <1>2, <1>7, <1>9, <2>4, <2>5 DEF Mapped
  <2>7. Abstract!Rest(x)  BY <1>1, <2>3, <2>6 DEF Abstract!Rest
  <2>. QED  BY <1>2, <2>7 DEF Abstract!Next
<1>11. CASE x \notin named
  <2>1. del' = x  BY <1>4, <1>11
  <2>2. \A k \in Thread : Suspending(k)' <=> (Suspending(k) /\ k # x)
    BY <1>1, <1>3, <2>1 DEF Suspending, Exiting
  <2>3. Suspending(x) <=> Returns(x)
    BY <1>1, <1>2, <1>9, <1>11 DEF Suspending, Returns, Awakable
  <2>4. ASSUME NEW h \in Thread
        PROVE  /\ awaits[h] = x <=> Returns(x) /\ parent[x] = h
               /\ awaits'[h] = IF awaits[h] = x THEN NoThread ELSE awaits[h]
               /\ Suspended(h)' <=> Suspended(h) /\ awaits[h] # x
    <3>1. CASE Suspended(h)
      <4>1. PICK k \in Thread : Suspending(k) /\ parent[k] = h  BY <3>1 DEF Suspended
      <4>2. awaits[h] = k  BY <1>7, <4>1 DEF Mapped
      <4>3. \A j \in Thread : Suspending(j) /\ parent[j] = h => j = k
        BY <1>7, <4>2 DEF Mapped
      <4>4. CASE k = x
        <5>1. ~Suspended(h)'  BY <1>1, <2>2, <4>3, <4>4 DEF Suspended
        <5>. QED  BY <1>7, <2>3, <4>1, <4>2, <4>4, <5>1 DEF Mapped
      <4>5. CASE k # x
        <5>1. Suspending(k)' /\ parent'[k] = h  BY <1>1, <2>2, <4>1, <4>5
        <5>2. Suspended(h)' /\ awaits'[h] = k  BY <1>7, <5>1 DEF Suspended, Mapped
        <5>. QED  BY <1>2, <2>3, <3>1, <4>2, <4>3, <4>5, <5>2
      <4>. QED  BY <4>4, <4>5
    <3>2. CASE ~Suspended(h)
      <4>1. awaits[h] = NoThread /\ ~Suspended(h)'
        BY <1>1, <1>7, <2>2, <3>2 DEF Suspended, Mapped
      <4>2. awaits'[h] = NoThread  BY <1>7, <4>1 DEF Mapped
      <4>3. ~(Returns(x) /\ parent[x] = h)  BY <1>2, <2>3, <3>2 DEF Suspended
      <4>. QED  BY <1>9, <3>2, <4>1, <4>2, <4>3
    <3>. QED  BY <3>1, <3>2
  <2>5. awaits' = [k \in Thread |-> IF awaits[k] = x THEN NoThread ELSE awaits[k]]
    BY <1>7, <2>4 DEF Mapped
  <2>6. StateOf(x)' = "deleted"  BY <1>1, <1>2, <2>1 DEF StateOf
  <2>7. ASSUME NEW h \in Thread \ {x}
        PROVE  StateOf(h)' = IF awaits[h] = x THEN "ready" ELSE StateOf(h)
    <3>1. CASE awaits[h] = x
      <4>1. h \in Ready' /\ h # del'  BY <1>6, <2>1, <2>4, <3>1
      <4>2. h \in live'  BY <1>0, <4>1 DEF TreeInv, Listed
      <4>. QED  BY <3>1, <4>1, <4>2 DEF StateOf
    <3>2. CASE awaits[h] # x
      <4>1. h \in Ready' <=> h \in Ready  BY <1>6, <2>4, <3>2
      <4>2. Suspended(h)' <=> Suspended(h)  BY <2>4, <3>2
      <4>3. h \in live => h # del /\ h # del'  BY <1>1, <1>3, <2>1
      <4>. QED  BY <1>1, <1>8, <3>2, <4>1, <4>2, <4>3 DEF StateOf
    <3>. QED  BY <3>1, <3>2
  <2>8. /\ state' = [k \in Thread |-> IF k = x THEN "deleted"
                                     ELSE IF awaits[k] = x THEN "ready" ELSE state[k]]
        /\ state[x] = "ready"
    BY <1>2, <1>7, <1>9, <2>6, <2>7 DEF Mapped
  <2>9. Abstract!End(x)  BY <1>1, <2>5, <2>8 DEF Abstract!End
  <2>. QED  BY <1>2, <2>9 DEF Abstract!Next
<1>. QED  BY <1>10, <1>11

(* The children of a thread are those that were not freed.                 *)
LEMMA ChildrenLive ==
  ASSUME LifeInv, NEW h \in live
  PROVE  /\ Abstract!Children(h) = {k \in live : parent[k] = h}
         /\ nchild[h] \in Nat
         /\ nchild[h] = 0 <=> Abstract!Children(h) = {}
         /\ \A k \in live : parent[k] = h =>
              (nchild[h] = 1 <=> Abstract!Children(h) = {k})
<1>0. TypeInv /\ TreeInv /\ Mapped  BY Mapping DEF LifeInv
<1>1. live \subseteq Thread  BY <1>0 DEF TypeInv, TypeOK
<1>2. \A k \in Thread : state[k] # "none" <=> k \in live
  BY <1>0 DEF Mapped, StateOf
<1>. DEFINE K == {k \in live : parent[k] = h}
<1>3. Abstract!Children(h) = K  BY <1>1, <1>2 DEF Abstract!Children
<1>4. IsFiniteSet(K)  BY <1>1, ThreadAssumption, FS_Subset
<1>5. nchild[h] = Cardinality(K)  BY <1>0 DEF TreeInv, Count
<1>. HIDE DEF K
<1>6. nchild[h] \in Nat /\ (nchild[h] = 0 <=> K = {})
  BY <1>4, <1>5, FS_CardinalityType, FS_EmptySet
<1>7. ASSUME NEW k \in K  PROVE nchild[h] = 1 <=> K = {k}
  <2>1. CASE K = {k}  BY <1>5, <2>1, FS_Singleton
  <2>2. CASE nchild[h] = 1
    <3>1. PICK j : K = {j}  BY <1>4, <1>5, <2>2, FS_Singleton
    <3>. QED  BY <2>2, <3>1
  <2>. QED  BY <2>1, <2>2
<1>. QED  BY <1>3, <1>6, <1>7 DEF K

LEMMA PostponeLife ==
  ASSUME LifeInv, LifeInv', postpone_delete
  PROVE  Abstract!Next
<1>0. TypeInv /\ TreeInv /\ TreeInv' /\ Mapped /\ Mapped'
  BY Mapping, MappingNext DEF LifeInv
<1>1. /\ del # NoThread /\ del' = NoThread /\ nchild[del] > 0
      /\ flags' = [flags EXCEPT ![del] = @ \cup {"EXITING"}]
      /\ UNCHANGED <<rtl, live, parent, named, pb>>
  BY DEF postpone_delete, stackVars, HasChildren
<1>2. PICK x \in live : x = del /\ x \in Thread /\ x \notin Ready /\ Top(x) = "EOF"
  BY <1>0, <1>1 DEF TypeInv, TypeOK, TreeInv, Deleted
<1>3. flags \in [Thread -> SUBSET Flag] /\ NoThread \notin live /\ live \subseteq Thread
  BY <1>0, ThreadAssumption DEF TypeInv, TypeOK
<1>4. Exiting(x)' /\ \A h \in Thread \ {x} : flags'[h] = flags[h]
  BY <1>1, <1>2, <1>3 DEF Exiting
<1>5. \A k \in Thread : /\ Suspending(k)' <=> Suspending(k)
                        /\ Suspending(k) => parent'[k] = parent[k]
  BY <1>1, <1>2, <1>3, <1>4 DEF Suspending, Exiting
<1>6. awaits' = awaits /\ \A h \in Thread : Suspended(h)' <=> Suspended(h)
  BY <1>0, <1>5, SameAwaits
<1>7. StateOf(x) = "deleted"  BY <1>2 DEF StateOf
<1>8. StateOf(x)' = "exiting"
  <2>1. ~Suspended(x)  BY <1>0, <1>2 DEF Suspended, TreeInv, Groups
  <2>2. x \notin named'  BY <1>0, <1>1, <1>2, <1>4 DEF TreeInv, Exits
  <2>. QED  BY <1>1, <1>2, <1>3, <1>4, <1>6, <2>1, <2>2 DEF StateOf, Idle, Ready
<1>9. ASSUME NEW h \in Thread \ {x}  PROVE StateOf(h)' = StateOf(h)
  <2>1. h \in live => h # del /\ h # del'  BY <1>1, <1>2, <1>3
  <2>2. /\ Suspended(h)' <=> Suspended(h)
        /\ Exiting(h)' <=> Exiting(h)
        /\ Idle(h)' <=> Idle(h)
        /\ Ready' = Ready
    BY <1>1, <1>4, <1>6 DEF Exiting, Idle, Top, Ready
  <2>. QED  BY <1>1, <2>1, <2>2 DEF StateOf
<1>10. state' = [state EXCEPT ![x] = "exiting"] /\ state[x] = "deleted"
  BY <1>0, <1>2, <1>7, <1>8, <1>9 DEF Mapped
<1>11. Abstract!Children(x) # {}
  <2>1. nchild[x] # 0  BY <1>1, <1>2
  <2>. QED  BY <2>1, ChildrenLive
<1>12. Abstract!Postpone(x)  BY <1>1, <1>6, <1>10, <1>11 DEF Abstract!Postpone
<1>. QED  BY <1>2, <1>12 DEF Abstract!Next

LEMMA FreeLife ==
  ASSUME LifeInv, LifeInv', delete_thread
  PROVE  Abstract!Next
<1>0. TypeInv /\ TreeInv /\ Mapped /\ Mapped'
  BY Mapping, MappingNext DEF LifeInv
<1>1. /\ del # NoThread /\ ~(nchild[del] > 0)
      /\ live' = live \ {del} /\ named' = named \ {del}
      /\ parent' = [parent EXCEPT ![del] = NoThread]
      /\ flags' = [flags EXCEPT ![del] = {}]
      /\ pb' = [pb EXCEPT ![del] = <<>>]
      /\ del' = IF /\ parent[del] # NoThread /\ nchild[parent[del]] = 1
                   /\ "EXITING" \in flags[parent[del]]
                THEN parent[del] ELSE NoThread
  BY DEF delete_thread, HasChildren
<1>2. PICK x \in live : x = del /\ x \in Thread /\ x \notin Ready /\ Top(x) = "EOF"
  BY <1>0, <1>1 DEF TypeInv, TypeOK, TreeInv, Deleted
<1>3. /\ flags \in [Thread -> SUBSET Flag] /\ pb \in [Thread -> Seq(Item)]
      /\ parent \in [Thread -> Thread \cup {NoThread}]
      /\ NoThread \notin live /\ live \subseteq Thread
  BY <1>0, ThreadAssumption DEF TypeInv, TypeOK
<1>4. \A h \in Thread \ {x} :
        flags'[h] = flags[h] /\ parent'[h] = parent[h] /\ pb'[h] = pb[h]
  BY <1>1, <1>2, <1>3
<1>5. PICK W \in SUBSET (live \ Ready) :
        Ready' = Ready \cup W /\ \A h \in W : Top(h) \in {"EWAIT", "EALT"}
  BY <1>0, DetachTree
<1>6. \A h \in W : Awakable(h) /\ ~Idle(h) /\ h # x
  <2>1. ASSUME NEW h \in W  PROVE Awakable(h) /\ ~Idle(h) /\ h # x
    <3>1. h \in live /\ Top(h) \notin {"EOF", "BODY"}  BY <1>5
    <3>. QED  BY <1>0, <1>2, <3>1, BusyAwakable DEF Idle
  <2>. QED  BY <2>1
<1>. DEFINE p == parent[x]
            last == p # NoThread /\ nchild[p] = 1 /\ "EXITING" \in flags[p]
<1>7. /\ Abstract!Children(x) = {} /\ p # x
      /\ p # NoThread => p \in live /\ (nchild[p] = 1 <=> Abstract!Children(p) = {x})
  <2>1. nchild[x] = 0 /\ Abstract!Children(x) = {}  BY <1>1, <1>2, ChildrenLive
  <2>2. p # x  BY <1>2, <2>1, ChildrenLive
  <2>3. p # NoThread => p \in live  BY <1>0, <1>2 DEF TreeInv, Shape
  <2>. QED  BY <1>2, <2>1, <2>2, <2>3, ChildrenLive
<1>8. del' = IF last THEN p ELSE NoThread  BY <1>1, <1>2
<1>9. \A k \in Thread : /\ Suspending(k)' <=> Suspending(k)
                        /\ Suspending(k) => parent'[k] = parent[k]
  <2>1. ASSUME NEW k \in Thread  PROVE Suspending(k)' <=> Suspending(k)
    <3>1. CASE k = x  BY <1>1, <1>2, <3>1 DEF Suspending
    <3>2. CASE k # x
      <4>1. k \in live' <=> k \in live  BY <1>1, <1>2, <3>2
      <4>2. k = del' => Exiting(k)
        BY <1>1, <1>2, <1>3, <1>8, <3>2, <4>1, ThreadAssumption DEF Exiting
      <4>3. Exiting(k)' <=> Exiting(k)  BY <1>4, <3>2 DEF Exiting
      <4>. QED  BY <1>2, <1>4, <3>2, <4>1, <4>2, <4>3 DEF Suspending
    <3>. QED  BY <3>1, <3>2
  <2>2. ASSUME NEW k \in Thread, Suspending(k)  PROVE parent'[k] = parent[k]
    BY <1>2, <1>4, <2>2 DEF Suspending
  <2>. QED  BY <2>1, <2>2
<1>10. awaits' = awaits /\ \A h \in Thread : Suspended(h)' <=> Suspended(h)
  BY <1>0, <1>9, SameAwaits
<1>11. StateOf(x) = "deleted" /\ StateOf(x)' = "none"  BY <1>1, <1>2 DEF StateOf
<1>12. \A h \in W : StateOf(h) = "blocked" /\ StateOf(h)' = "ready"
  <2>1. ASSUME NEW h \in W  PROVE StateOf(h) = "blocked" /\ StateOf(h)' = "ready"
    <3>1. h \in live /\ h \notin Ready /\ Awakable(h) /\ ~Idle(h) /\ h # x  BY <1>6
    <3>2. h # del'  BY <1>3, <1>8, <3>1 DEF Awakable, Exiting
    <3>3. h \in live' /\ h \in Ready'  BY <1>1, <1>2, <1>5, <3>1
    <3>. QED  BY <1>2, <3>1, <3>2, <3>3 DEF StateOf, Awakable
  <2>. QED  BY <2>1
<1>13. ASSUME NEW h \in Thread, h \notin W, h # x
       PROVE  StateOf(h)' = IF StateOf(h) = "exiting" /\ Abstract!Children(h) = {x}
                            THEN "deleted" ELSE StateOf(h)
  <2>1. /\ h \in live' <=> h \in live
        /\ h \in Ready' <=> h \in Ready
        /\ Suspended(h)' <=> Suspended(h)
        /\ Exiting(h)' <=> Exiting(h)
        /\ Idle(h)' <=> Idle(h)
    BY <1>1, <1>2, <1>4, <1>5, <1>10, <1>13 DEF Exiting, Idle, Top
  <2>2. CASE h \notin live  BY <2>1, <2>2 DEF StateOf
  <2>3. CASE h \in live /\ last /\ h = p
    <3>1. Exiting(h)  BY <2>3 DEF Exiting
    <3>2. h \notin Ready /\ ~Suspended(h) /\ ~Idle(h)
      BY <1>0, <2>3, <3>1 DEF TreeInv, Exits, Suspended, Groups, Idle
    <3>3. StateOf(h) = "exiting"  BY <1>2, <1>13, <2>3, <3>1, <3>2 DEF StateOf
    <3>4. StateOf(h)' = "deleted"  BY <1>8, <2>1, <2>3 DEF StateOf
    <3>5. Abstract!Children(h) = {x}  BY <1>7, <2>3
    <3>. QED  BY <3>3, <3>4, <3>5
  <2>4. CASE h \in live /\ ~(last /\ h = p)
    <3>1. h # del /\ h # del'  BY <1>2, <1>3, <1>8, <1>13, <2>4
    <3>2. StateOf(h)' = StateOf(h)  BY <2>1, <3>1 DEF StateOf
    <3>3. ~(StateOf(h) = "exiting" /\ Abstract!Children(h) = {x})
      <4>1. SUFFICES ASSUME StateOf(h) = "exiting", Abstract!Children(h) = {x}  PROVE FALSE
        OBVIOUS
      <4>2. h = p  BY <2>4, <4>1, ChildrenLive
      <4>3. Exiting(h)  BY <4>1 DEF StateOf
      <4>. QED  BY <1>3, <1>7, <2>4, <4>1, <4>2, <4>3 DEF Exiting
    <3>. QED  BY <3>2, <3>3
  <2>. QED  BY <2>2, <2>3, <2>4
<1>. HIDE DEF p, last
<1>14. /\ state[x] = "deleted" /\ \A k \in W : state[k] = "blocked"
       /\ W \in SUBSET Thread
  BY <1>0, <1>2, <1>3, <1>11, <1>12 DEF Mapped
<1>15. state' = [k \in Thread |->
                  IF k = x THEN "none" ELSE IF k \in W THEN "ready"
                  ELSE IF state[k] = "exiting" /\ Abstract!Children(k) = {x} THEN "deleted"
                  ELSE state[k]]
  BY <1>0, <1>11, <1>12, <1>13 DEF Mapped
<1>16. parent' = [parent EXCEPT ![x] = NoThread]  BY <1>1, <1>2
<1>17. Abstract!Free(x, W)  BY <1>7, <1>10, <1>14, <1>15, <1>16 DEF Abstract!Free
<1>. QED  BY <1>2, <1>14, <1>17 DEF Abstract!Next

(* undef and the end of the program delete idle threads.                   *)
LEMMA DeleteLife ==
  ASSUME LifeInv, LifeInv', del = NoThread, NEW x \in named, Idle(x), x \notin Ready,
         del' = x, UNCHANGED <<rtl, live, parent, flags, pb>>,
         named' \subseteq named, \A h \in named \ {x} : Idle(h) => h \in named'
  PROVE  Abstract!Next
<1>0. TypeInv /\ TreeInv /\ Mapped /\ Mapped'
  BY Mapping, MappingNext DEF LifeInv
<1>1. x \in live /\ "SFLAG" \notin flags[x] /\ live \subseteq Thread /\ NoThread \notin live
  BY <1>0, ThreadAssumption DEF TreeInv, Names, TypeInv, TypeOK
<1>2. Top(x) = "EOF"  BY DEF Idle
<1>3. \A k \in Thread : /\ Suspending(k)' <=> Suspending(k)
                        /\ Suspending(k) => parent'[k] = parent[k]
  BY <1>1 DEF Suspending, Exiting
<1>4. awaits' = awaits /\ \A h \in Thread : Suspended(h)' <=> Suspended(h)
  BY <1>0, <1>3, SameAwaits
<1>5. ~Suspended(x)  BY <1>0, <1>2 DEF Suspended, TreeInv, Groups
<1>6. StateOf(x) = "idle" /\ StateOf(x)' = "deleted"  BY <1>1, <1>5 DEF StateOf
<1>7. ASSUME NEW h \in Thread \ {x}  PROVE StateOf(h)' = StateOf(h)
  <2>1. h \in live => h # del /\ h # del'  BY <1>1
  <2>2. (Idle(h)' <=> Idle(h)) /\ (Exiting(h)' <=> Exiting(h)) /\ Ready' = Ready
    BY DEF Idle, Top, Exiting, Ready
  <2>. QED  BY <1>4, <2>1, <2>2 DEF StateOf
<1>8. state' = [state EXCEPT ![x] = "deleted"] /\ state[x] = "idle"
  BY <1>0, <1>1, <1>6, <1>7 DEF Mapped
<1>9. Abstract!Delete(x)  BY <1>4, <1>8 DEF Abstract!Delete
<1>. QED  BY <1>1, <1>9 DEF Abstract!Next

(* A thread that loses its name while it has tokens goes on.               *)
LEMMA UnnameLife ==
  ASSUME LifeInv, LifeInv', UNCHANGED <<rtl, live, parent, flags, pb, del>>,
         named' \subseteq named, \A h \in named : Idle(h) => h \in named'
  PROVE  Abstract!Next
<1>0. TypeInv /\ TreeInv /\ Mapped /\ Mapped'
  BY Mapping, MappingNext DEF LifeInv
<1>1. \A k \in Thread : /\ Suspending(k)' <=> Suspending(k)
                        /\ Suspending(k) => parent'[k] = parent[k]
  BY DEF Suspending, Exiting
<1>2. awaits' = awaits /\ \A h \in Thread : Suspended(h)' <=> Suspended(h)
  BY <1>0, <1>1, SameAwaits
<1>3. ASSUME NEW h \in Thread  PROVE StateOf(h)' = StateOf(h)
  <2>1. (Idle(h)' <=> Idle(h)) /\ (Exiting(h)' <=> Exiting(h)) /\ Ready' = Ready
    BY DEF Idle, Top, Exiting, Ready
  <2>. QED  BY <1>2, <2>1 DEF StateOf
<1>4. state' = state  BY <1>0, <1>3 DEF Mapped
<1>. DEFINE W == {}
<1>5. state' = [h \in Thread |-> IF h \in W THEN "ready" ELSE state[h]]
  BY <1>0, <1>4 DEF Mapped
<1>6. W \in SUBSET Thread /\ \A h \in W : state[h] = "blocked"  OBVIOUS
<1>. HIDE DEF W
<1>7. Abstract!Wake(W)  BY <1>2, <1>5, <1>6 DEF Abstract!Wake
<1>. QED  BY <1>6, <1>7 DEF Abstract!Next

LEMMA DictLife ==
  ASSUME LifeInv, LifeInv', delete_dict
  PROVE  Abstract!Next
<1>0. TypeInv /\ TreeInv  BY DEF LifeInv
<1>1. del = NoThread /\ phase = "undef" /\ UNCHANGED <<rtl, live, parent, flags, pb>>
  BY DEF delete_dict, stackVars
<1>2. PICK x \in undefs : /\ named' = named \ {x}
                          /\ del' = IF Top(x) = "EOF" THEN x ELSE NoThread
  BY DEF delete_dict
<1>3. x \in named  BY <1>0 DEF TreeInv, Names
<1>4. CASE Top(x) = "EOF"
  <2>1. x \notin Ready  BY <1>0, <1>1, <1>4 DEF TreeInv, Listed, AtEnd, Waking
  <2>2. Idle(x) /\ del' = x  BY <1>2, <1>3, <1>4 DEF Idle
  <2>. QED  BY <1>1, <1>2, <1>3, <2>1, <2>2, DeleteLife
<1>5. CASE Top(x) # "EOF"
  <2>1. \A h \in named : Idle(h) => h \in named'  BY <1>2, <1>5 DEF Idle
  <2>2. del' = del /\ named' \subseteq named  BY <1>1, <1>2, <1>5
  <2>. QED  BY <1>1, <2>1, <2>2, UnnameLife
<1>. QED  BY <1>4, <1>5

LEMMA CleanupLife ==
  ASSUME LifeInv, LifeInv', cleanup_idle_threads
  PROVE  Abstract!Next
<1>0. TypeInv /\ TreeInv  BY DEF LifeInv
<1>1. /\ del = NoThread /\ phase = "cleanup"
      /\ UNCHANGED <<rtl, live, parent, named, flags, pb>>
  BY DEF cleanup_idle_threads, threadVars, stackVars
<1>2. CASE \E x \in named : Idle(x) /\ del' = x
  <2>1. PICK x \in named : Idle(x) /\ del' = x  BY <1>2
  <2>2. x \notin Ready  BY <1>0, <1>1, <2>1 DEF TreeInv, Listed, AtEnd, Waking, Idle
  <2>3. named' \subseteq named /\ \A h \in named \ {x} : Idle(h) => h \in named'  BY <1>1
  <2>. QED  BY <1>1, <2>1, <2>2, <2>3, DeleteLife
<1>3. CASE del' = del  BY <1>1, <1>3, QuietLife
<1>4. (\E x \in named : Idle(x) /\ del' = x) \/ del' = del
  BY DEF cleanup_idle_threads
<1>. QED  BY <1>2, <1>3, <1>4

-----------------------------------------------------------------------------
(* New threads.                                                            *)
LEMMA CreateLife ==
  ASSUME LifeInv, LifeInv', del = NoThread, del' = NoThread,
         NEW new \in Thread \ live, NEW p \in live, NEW fs, NEW stack, NEW loops,
         create_thread(new, p, fs, stack, loops), WellFormed(stack), ws' = ws,
         Ready' \subseteq Ready \cup {new}
  PROVE  /\ Mapped /\ Mapped' /\ p \in Thread /\ live \subseteq Thread
         /\ parent' = [parent EXCEPT ![new] = p] /\ live' = live \cup {new}
         /\ StateOf(new) = "none" /\ StateOf(p) # "none"
         /\ \A h \in live : /\ Exiting(h)' <=> Exiting(h)
                            /\ Top(h)' = Top(h)
                            /\ h # del /\ h # del'
         /\ \A k \in Thread \ {new} : /\ Suspending(k)' <=> Suspending(k)
                                      /\ Suspending(k) => parent'[k] = parent[k]
         /\ Suspending(new)' <=> ("SFLAG" \in fs /\ "EXITING" \notin fs)
         /\ ~Suspending(new) /\ flags'[new] = fs /\ pb'[new] = stack
<1>0. TypeInv /\ TreeInv /\ Mapped /\ Mapped'
  BY Mapping, MappingNext DEF LifeInv
<1>1. /\ \A h \in live : /\ pb'[h] = pb[h] /\ flags'[h] = flags[h] /\ parent'[h] = parent[h]
                         /\ Top(h)' = Top(h)
      /\ live' = live \cup {new}
      /\ pb'[new] = stack /\ flags'[new] = fs /\ parent'[new] = p
  BY <1>0, CreateTree
<1>2. live \subseteq Thread /\ NoThread \notin live /\ NoThread \notin Thread
  BY <1>0, ThreadAssumption DEF TypeInv, TypeOK
<1>3. parent' = [parent EXCEPT ![new] = p]  BY DEF create_thread
<1>4. \A h \in live : (Exiting(h)' <=> Exiting(h)) /\ h # del /\ h # del'
  BY <1>1, <1>2 DEF Exiting
<1>5. ASSUME NEW k \in Thread \ {new}
      PROVE  /\ Suspending(k)' <=> Suspending(k)
             /\ Suspending(k) => parent'[k] = parent[k]
  BY <1>1 DEF Suspending, Exiting
<1>6. Suspending(new)' <=> ("SFLAG" \in fs /\ "EXITING" \notin fs)
  BY <1>1, <1>2 DEF Suspending, Exiting
<1>7. ~Suspending(new)  BY DEF Suspending
<1>8. StateOf(new) = "none" /\ StateOf(p) # "none"  BY DEF StateOf
<1>. QED  BY <1>0, <1>1, <1>2, <1>3, <1>4, <1>5, <1>6, <1>7, <1>8

LEMMA DefineLife ==
  ASSUME LifeInv, LifeInv', do_defthread
  PROVE  Abstract!Next
<1>0. TypeInv /\ TreeInv  BY DEF LifeInv
<1>. DEFINE fs == {}
            stack == <<Mark("EOF")>>
            loops == 0
<1>1. rtl # <<>> /\ del = NoThread /\ del' = NoThread /\ rtl' = rtl /\ ws' = ws
  BY <1>0, CommandTree DEF do_defthread, chanVars, ctlVars
<1>2. PICK p \in {cur} \cup named, new \in Thread \ live :
        create_thread(new, p, fs, stack, loops) /\ named' = named \cup {new}
  BY DEF do_defthread
<1>3. p \in live  BY <1>0, <1>1, CurReady DEF TreeInv, Names
<1>4. WellFormed(stack) /\ Head(stack).type = "EOF" /\ stack # <<>>
  BY DEF WellFormed, Mark
<1>5. "SFLAG" \notin fs /\ Ready' = Ready  BY <1>1 DEF Ready
<1>. HIDE DEF fs, stack, loops
<1>6. Ready' \subseteq Ready \cup {new}  BY <1>5
<1>7. /\ Mapped /\ Mapped' /\ p \in Thread /\ live \subseteq Thread
      /\ parent' = [parent EXCEPT ![new] = p] /\ live' = live \cup {new}
      /\ StateOf(new) = "none" /\ StateOf(p) # "none"
      /\ \A h \in live : /\ Exiting(h)' <=> Exiting(h)
                         /\ Top(h)' = Top(h)
                         /\ h # del /\ h # del'
      /\ \A k \in Thread \ {new} : /\ Suspending(k)' <=> Suspending(k)
                                   /\ Suspending(k) => parent'[k] = parent[k]
      /\ Suspending(new)' <=> ("SFLAG" \in fs /\ "EXITING" \notin fs)
      /\ ~Suspending(new) /\ flags'[new] = fs /\ pb'[new] = stack
  BY <1>1, <1>2, <1>3, <1>4, <1>6, CreateLife
<1>8. awaits' = awaits /\ \A h \in Thread : Suspended(h)' <=> Suspended(h)
  <2>1. \A k \in Thread : /\ Suspending(k)' <=> Suspending(k)
                          /\ Suspending(k) => parent'[k] = parent[k]
    BY <1>5, <1>7
  <2>. QED  BY <1>7, <2>1, SameAwaits
<1>9. new # del' /\ new \notin Ready /\ Idle(new)'
  <2>1. Ready \subseteq live /\ NoThread \notin Thread
    BY <1>0, ThreadAssumption DEF TreeInv, Listed
  <2>2. Top(new)' = "EOF"  BY <1>4, <1>7 DEF Top
  <2>. QED  BY <1>1, <1>2, <2>1, <2>2 DEF Idle
<1>10. ~Suspended(new)'
  <2>1. ~Suspended(new)
    <3>1. ASSUME NEW k \in Thread, Suspending(k), parent[k] = new  PROVE FALSE
      <4>1. k \in live /\ new # NoThread
        BY <3>1, ThreadAssumption DEF Suspending
      <4>. QED  BY <1>0, <3>1, <4>1 DEF TreeInv, Shape
    <3>. QED  BY <3>1 DEF Suspended
  <2>. QED  BY <1>8, <2>1
<1>11. StateOf(new)' = "idle"  BY <1>5, <1>7, <1>9, <1>10 DEF StateOf
<1>12. ASSUME NEW h \in Thread \ {new}  PROVE StateOf(h)' = StateOf(h)
  <2>1. h \in live => (Idle(h)' <=> Idle(h))  BY <1>2, <1>7 DEF Idle
  <2>. QED  BY <1>5, <1>7, <1>8, <2>1 DEF StateOf
<1>13. /\ state' = [state EXCEPT ![new] = "idle"]
       /\ state[new] = "none" /\ state[p] # "none"
  BY <1>7, <1>11, <1>12 DEF Mapped
<1>14. Abstract!Define(p, new)  BY <1>7, <1>8, <1>13 DEF Abstract!Define
<1>. QED  BY <1>7, <1>14 DEF Abstract!Next

(* With '&' a group runs beside its parent; without it the parent waits.   *)
LEMMA GroupLife ==
  ASSUME LifeInv, LifeInv', do_lbrace \/ do_lbracket
  PROVE  Abstract!Next
<1>0. TypeInv /\ TreeInv /\ TreeInv'  BY DEF LifeInv
<1>1. rtl # <<>> /\ del = NoThread /\ del' = NoThread /\ ws' = ws /\ named' = named
  BY <1>0, CommandTree DEF do_lbrace, do_lbracket, group, chanVars, ctlVars
<1>2. PICK x \in live : x = cur /\ x \in Thread /\ x \in Ready /\ Awakable(x)
  BY <1>0, <1>1, CurReady
<1>. DEFINE stack == <<Mark("BODY"), Mark("EOB"), Mark("EOF")>>
<1>3. PICK new \in Thread \ live, amp \in BOOLEAN, pf \in {{}, {"PFLAG"}} :
        /\ create_thread(new, x, IF amp THEN pf ELSE pf \cup {"SFLAG"}, stack,
                         IF amp THEN 0 ELSE loop_count[x])
        /\ rtl' = IF amp THEN <<new>> \o rtl ELSE <<new>> \o Tail(rtl)
  BY <1>2 DEF do_lbrace, do_lbracket, group
<1>. DEFINE fs == IF amp THEN pf ELSE pf \cup {"SFLAG"}
            loops == IF amp THEN 0 ELSE loop_count[x]
<1>4. WellFormed(stack)  BY DEF WellFormed, Mark
<1>5. ("SFLAG" \in fs <=> ~amp) /\ "EXITING" \notin fs  OBVIOUS
<1>6. create_thread(new, x, fs, stack, loops)  BY <1>3
<1>7. rtl \in Seq(Thread) /\ IsInjective(rtl) /\ Tail(rtl) \in Seq(Thread)
  BY <1>0, <1>1, CurReady, HeadTailProperties
<1>8. Ready' = {new} \cup (IF amp THEN Ready ELSE Ready \ {x})
  <2>1. ToSet(Tail(rtl)) = Ready \ {x}  BY <1>1, <1>2, <1>7, TailReady DEF Ready, cur
  <2>2. /\ ToSet(<<new>> \o rtl) = {new} \cup Ready
        /\ ToSet(<<new>> \o Tail(rtl)) = {new} \cup ToSet(Tail(rtl))
    BY <1>7, ConsReady DEF Ready
  <2>. QED  BY <1>3, <2>1, <2>2 DEF Ready
<1>. HIDE DEF fs, stack, loops
<1>9. Ready' \subseteq Ready \cup {new}  BY <1>8
<1>10. /\ Mapped /\ Mapped' /\ live \subseteq Thread
       /\ parent' = [parent EXCEPT ![new] = x] /\ live' = live \cup {new}
       /\ StateOf(new) = "none"
       /\ \A h \in live : /\ Exiting(h)' <=> Exiting(h)
                          /\ Top(h)' = Top(h)
                          /\ h # del /\ h # del'
       /\ \A k \in Thread \ {new} : /\ Suspending(k)' <=> Suspending(k)
                                    /\ Suspending(k) => parent'[k] = parent[k]
       /\ Suspending(new)' <=> ("SFLAG" \in fs /\ "EXITING" \notin fs)
       /\ ~Suspending(new)
  BY <1>1, <1>4, <1>6, <1>9, CreateLife
<1>11. StateOf(x) = "ready"  BY <1>2, <1>10 DEF StateOf
<1>12. StateOf(new)' = "ready"
  <2>1. new # del'  BY <1>1, ThreadAssumption
  <2>. QED  BY <1>8, <1>10, <2>1 DEF StateOf
<1>13. \A h \in live : Idle(h)' <=> Idle(h)  BY <1>1, <1>10 DEF Idle
<1>14. CASE amp
  <2>1. awaits' = awaits /\ \A h \in Thread : Suspended(h)' <=> Suspended(h)
    <3>1. \A k \in Thread : /\ Suspending(k)' <=> Suspending(k)
                            /\ Suspending(k) => parent'[k] = parent[k]
      BY <1>5, <1>10, <1>14
    <3>. QED  BY <1>10, <3>1, SameAwaits
  <2>2. ASSUME NEW h \in Thread \ {new}  PROVE StateOf(h)' = StateOf(h)
    BY <1>8, <1>10, <1>13, <1>14, <2>1 DEF StateOf
  <2>3. state' = [state EXCEPT ![new] = "ready"] /\ state[new] = "none" /\ state[x] = "ready"
    BY <1>2, <1>10, <1>11, <1>12, <2>2 DEF Mapped
  <2>4. Abstract!Spawn(x, new)  BY <1>10, <2>1, <2>3 DEF Abstract!Spawn
  <2>. QED  BY <1>2, <2>4 DEF Abstract!Next
<1>15. CASE ~amp
  <2>1. Suspending(new)' /\ parent'[new] = x
    BY <1>0, <1>5, <1>10, <1>15 DEF TypeInv, TypeOK
  <2>2. Suspended(x)' /\ awaits'[x] = new  BY <1>10, <2>1 DEF Suspended, Mapped
  <2>3. ASSUME NEW h \in Thread \ {x}
        PROVE  awaits'[h] = awaits[h] /\ (Suspended(h)' <=> Suspended(h))
    <3>1. CASE Suspended(h)
      <4>1. PICK k \in Thread : Suspending(k) /\ parent[k] = h  BY <3>1 DEF Suspended
      <4>2. Suspending(k)' /\ parent'[k] = h  BY <1>10, <4>1
      <4>. QED  BY <1>10, <3>1, <4>1, <4>2 DEF Suspended, Mapped
    <3>2. CASE ~Suspended(h)
      <4>1. ~Suspended(h)'  BY <1>10, <2>1, <3>2 DEF Suspended
      <4>. QED  BY <1>10, <3>2, <4>1 DEF Mapped
    <3>. QED  BY <3>1, <3>2
  <2>4. awaits' = [awaits EXCEPT ![x] = new]  BY <1>2, <1>10, <2>2, <2>3 DEF Mapped
  <2>5. x # new  BY <1>2
  <2>6. StateOf(x)' = "suspended"
    BY <1>2, <1>8, <1>10, <1>15, <2>2, <2>5 DEF StateOf
  <2>7. ASSUME NEW h \in Thread \ {x, new}  PROVE StateOf(h)' = StateOf(h)
    BY <1>8, <1>10, <1>13, <1>15, <2>3 DEF StateOf
  <2>8. /\ state' = [state EXCEPT ![new] = "ready", ![x] = "suspended"]
        /\ state[new] = "none" /\ state[x] = "ready"
    BY <1>2, <1>10, <1>11, <1>12, <2>5, <2>6, <2>7 DEF Mapped
  <2>9. Abstract!Call(x, new)  BY <1>10, <2>4, <2>8 DEF Abstract!Call
  <2>. QED  BY <1>2, <2>9 DEF Abstract!Next
<1>. QED  BY <1>14, <1>15

-----------------------------------------------------------------------------
LEMMA LifeInit == LifeInv /\ Init => Abstract!Init
<1>. SUFFICES ASSUME LifeInv, Init  PROVE Abstract!Init  OBVIOUS
<1>1. Mapped  BY Mapping
<1>2. \A k \in Thread : ~Suspending(k)  BY DEF Init, Suspending
<1>3. \A h \in Thread : ~Suspended(h)  BY <1>2 DEF Suspended
<1>4. Ready = {Root} /\ live = {Root} /\ del = NoThread /\ Root # NoThread
  <2>1. rtl = <<Root>>  BY DEF Init
  <2>2. ToSet(<<Root>>) = {Root}  BY DEF ToSet
  <2>. QED  BY <2>1, <2>2, ThreadAssumption DEF Init, Ready
<1>5. \A h \in Thread : StateOf(h) = IF h = Root THEN "ready" ELSE "none"
  BY <1>4 DEF StateOf
<1>6. state = [h \in Thread |-> IF h = Root THEN "ready" ELSE "none"]
  BY <1>1, <1>5 DEF Mapped
<1>7. awaits = [h \in Thread |-> NoThread]  BY <1>1, <1>3 DEF Mapped
<1>8. parent = [h \in Thread |-> NoThread]  BY DEF Init
<1>. QED  BY <1>6, <1>7, <1>8 DEF Abstract!Init

LEMMA LifeNext ==
  ASSUME LifeInv, LifeInv', [Next]_vars
  PROVE  Abstract!Next
<1>1. CASE Next
  BY <1>1, DefineLife, GroupLife, StartLife, TokenLife, CommandLife, SyncLife, SignalLife,
     WaitLife, EndWaitLife, AltLife, EndAltLife, DestroyLife, EofLife, PostponeLife, FreeLife,
     BreakAltLife, DictLife, CleanupLife, DeadLockLife, QuietLife
  DEF Next, terminated, vars, threadVars, stackVars, ctlVars
<1>2. CASE UNCHANGED vars
  BY <1>2, QuietLife DEF vars, threadVars, stackVars, ctlVars
<1>. QED  BY <1>1, <1>2

(* The scheduler of parse.c keeps the promise of ThreadLife, for programs  *)
(* whose alts have a guard: a thread sleeps, wakes, ends and is freed only *)
(* as its life allows, one that awaits a group resumes exactly when that   *)
(* group ends, and none is freed before its children.                      *)
THEOREM LifeImplements ==
  ASSUME Guarded
  PROVE  Spec => LifeCycle
<1>1. Spec => []LifeInv  BY AccountInvariant, PTL DEF LifeInv
<1>2. LifeInv /\ Init => Abstract!Init  BY LifeInit
<1>3. LifeInv /\ LifeInv' /\ [Next]_vars => [Abstract!Next]_(Abstract!lifeVars)
  BY LifeNext
<1>4. Spec => Abstract!Init /\ [][Abstract!Next]_(Abstract!lifeVars)
  BY <1>1, <1>2, <1>3, PTL DEF Spec
<1>. QED  BY <1>4 DEF LifeCycle, Abstract!Life
=============================================================================
