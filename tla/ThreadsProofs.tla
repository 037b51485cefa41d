--------------------------- MODULE ThreadsProofs ---------------------------
(***************************************************************************)
(* Proofs about Threads, for every set of threads, channels, commands and  *)
(* every bound.                                                            *)
(***************************************************************************)
EXTENDS ThreadProperties, FiniteSetTheorems, SequenceTheorems, TLAPS

-----------------------------------------------------------------------------
(* Sequences.                                                              *)

LEMMA PopSeq ==
  ASSUME NEW S, NEW s \in Seq(S)
  PROVE  SubSeq(s, 2, Len(s)) \in Seq(S)
<1>1. Len(s) \in Nat /\ \A i \in 2..Len(s) : s[i] \in S
  BY LenProperties, ElementOfSeq
<1>. QED  BY <1>1, SubSeqProperties

LEMMA FrontSeq ==
  ASSUME NEW S, NEW s \in Seq(S)
  PROVE  Front(s) \in Seq(S)
<1>1. Len(s) \in Nat /\ \A i \in 1..(Len(s) - 1) : s[i] \in S
  BY LenProperties, ElementOfSeq
<1>. QED  BY <1>1, SubSeqProperties DEF Front

LEMMA InsertAtSeq ==
  ASSUME NEW S, NEW s \in Seq(S), NEW p \in 1..(Len(s) + 1), NEW e \in S
  PROVE  /\ InsertAt(s, p, e) \in Seq(S)
         /\ Len(InsertAt(s, p, e)) = Len(s) + 1
         /\ \A i \in 1..(Len(s) + 1) : InsertAt(s, p, e)[i] =
              IF i < p THEN s[i] ELSE IF i = p THEN e ELSE s[i - 1]
<1>. DEFINE a == SubSeq(s, 1, p - 1)
            b == SubSeq(s, p, Len(s))
            ae == a \o <<e>>
<1>1. Len(s) \in Nat /\ p \in Int /\ \A i \in 1..Len(s) : s[i] \in S
  BY LenProperties, ElementOfSeq
<1>2. /\ a \in Seq(S) /\ Len(a) = p - 1
      /\ \A i \in 1..(p - 1) : a[i] = s[i]
  <2>1. \A i \in 1..(p - 1) : s[i] \in S  BY <1>1
  <2>. QED  BY <1>1, <2>1, SubSeqProperties
<1>3. /\ b \in Seq(S) /\ Len(b) = Len(s) - p + 1
      /\ \A i \in 1..(Len(s) - p + 1) : b[i] = s[p + i - 1]
  <2>1. \A i \in p..Len(s) : s[i] \in S  BY <1>1
  <2>. QED  BY <1>1, <2>1, SubSeqProperties
<1>. HIDE DEF a, b
<1>4. /\ ae \in Seq(S) /\ Len(ae) = p
      /\ \A i \in 1..p : ae[i] = IF i < p THEN s[i] ELSE e
  <2>1. <<e>> \in Seq(S) /\ Len(<<e>>) = 1 /\ <<e>>[1] = e  OBVIOUS
  <2>2. /\ a \o <<e>> \in Seq(S) /\ Len(a \o <<e>>) = Len(a) + 1
        /\ \A i \in 1..(Len(a) + 1) : (a \o <<e>>)[i] =
             IF i <= Len(a) THEN a[i] ELSE <<e>>[i - Len(a)]
    BY <1>2, <2>1, ConcatProperties
  <2>. QED  BY <1>1, <1>2, <2>1, <2>2, SMTT(30)
<1>. HIDE DEF ae
<1>5. /\ ae \o b \in Seq(S)
      /\ Len(ae \o b) = Len(ae) + Len(b)
      /\ \A i \in 1..(Len(ae) + Len(b)) : (ae \o b)[i] =
           IF i <= Len(ae) THEN ae[i] ELSE b[i - Len(ae)]
  BY <1>3, <1>4, ConcatProperties
<1>6. InsertAt(s, p, e) = ae \o b  BY DEF InsertAt, ae, a, b
<1>7. Len(ae \o b) = Len(s) + 1  BY <1>1, <1>3, <1>4, <1>5
<1>8. ASSUME NEW i \in 1..(Len(s) + 1)
      PROVE  (ae \o b)[i] = IF i < p THEN s[i] ELSE IF i = p THEN e ELSE s[i - 1]
  <2>1. (ae \o b)[i] = IF i <= p THEN ae[i] ELSE b[i - p]
    BY <1>1, <1>3, <1>4, <1>5
  <2>2. CASE i <= p  BY <1>1, <1>4, <2>1, <2>2
  <2>3. CASE i > p
    <3>1. i - p \in 1..(Len(s) - p + 1) /\ p + (i - p) - 1 = i - 1
      BY <1>1, <2>3
    <3>2. b[i - p] = s[p + (i - p) - 1]  BY <1>3, <3>1
    <3>. QED  BY <1>1, <2>1, <2>3, <3>1, <3>2
  <2>4. i <= p \/ i > p  BY <1>1
  <2>. QED  BY <2>2, <2>3, <2>4
<1>. QED  BY <1>5, <1>6, <1>7, <1>8

LEMMA UnlinkSeq ==
  ASSUME NEW S, NEW s \in Seq(S), NEW e
  PROVE  Unlink(s, e) \in Seq(S)
<1>1. CASE e \notin ToSet(s)  BY <1>1 DEF Unlink
<1>2. CASE e \in ToSet(s)
  <2>1. PICK i \in DOMAIN s : i = CHOOSE j \in DOMAIN s : s[j] = e
    BY <1>2 DEF ToSet
  <2>2. Len(s) \in Nat /\ i \in 1..Len(s) /\ \A j \in 1..Len(s) : s[j] \in S
    BY <2>1, LenProperties, ElementOfSeq
  <2>3. /\ SubSeq(s, 1, i - 1) \in Seq(S)
        /\ SubSeq(s, i + 1, Len(s)) \in Seq(S)
    BY <2>2, SubSeqProperties
  <2>. QED  BY <1>2, <2>1, <2>3, ConcatProperties DEF Unlink, RemoveAt
<1>. QED  BY <1>1, <1>2

LEMMA ElementsInSet ==
  ASSUME NEW S, NEW s \in Seq(S)
  PROVE  ToSet(s) \subseteq S
BY ElementOfSeq, LenProperties DEF ToSet

LEMMA OrderSeq ==
  ASSUME NEW S, IsFiniteSet(S), NEW order \in SetToSeqs(S)
  PROVE  order \in Seq(S) /\ Len(order) \in Nat
<1>1. Cardinality(S) \in Nat  BY FS_CardinalityType
<1>2. order \in [1..Cardinality(S) -> S]  BY DEF SetToSeqs
<1>. QED  BY <1>1, <1>2, SeqDef, LenProperties

-----------------------------------------------------------------------------
(* Type correctness.  It is inductive together with what the steps that    *)
(* follow a pointer rely on: the group that ends has a parent to return    *)
(* to, a blocked WaitStatus has a thread to wake, and a break in progress  *)
(* has a loop left to leave.                                               *)
GroupHasParent == \A h \in Thread : "SFLAG" \in flags[h] => parent[h] \in Thread
SleeperIsThread ==
  \A c \in Channel, w \in Thread : IsBlocked(c, w) => ws[c][w].sleep_thd \in Thread
BreakLevel == phase = "break" => level > 0

TypeInv == TypeOK /\ GroupHasParent /\ SleeperIsThread /\ BreakLevel

LEMMA Running ==
  ASSUME TypeOK, rtl # <<>>
  PROVE  cur \in Thread /\ Tail(rtl) \in Seq(Thread)
BY HeadTailProperties DEF TypeOK, cur

LEMMA MarkItem ==
  \A t \in {"BODY", "EOF", "EOB", "EOT", "ESYNC"} : Mark(t) \in Item
BY DEF Mark, Item

LEMMA PopType ==
  ASSUME TypeOK, NEW h, Pop(h)
  PROVE  pb' \in [Thread -> Seq(Item)]
BY PopSeq DEF TypeOK, Pop

LEMMA PushType ==
  ASSUME TypeOK, NEW items \in Seq(Item), Push(items)
  PROVE  pb' \in [Thread -> Seq(Item)]
BY ConcatProperties DEF TypeOK, Push

LEMMA TypeInit == Init => TypeInv
<1>. SUFFICES ASSUME Init PROVE TypeInv  OBVIOUS
<1>1. <<Mark("BODY"), Mark("EOF")>> \in Seq(Item)  BY MarkItem
<1>2. pb \in [Thread -> Seq(Item)]  BY <1>1 DEF Init
<1>3. rtl \in Seq(Thread)  BY ThreadAssumption DEF Init
<1>4. ws \in [Channel -> [Thread -> Status]]  BY DEF Init, Status, NoStatus
<1>5. TypeOK
  BY <1>2, <1>3, <1>4, ThreadAssumption, BoundAssumption DEF Init, TypeOK, Phase
<1>6. GroupHasParent /\ SleeperIsThread /\ BreakLevel
  BY DEF Init, GroupHasParent, SleeperIsThread, BreakLevel, IsBlocked, NoStatus
<1>. QED  BY <1>5, <1>6 DEF TypeInv

(* A halted compiler only changes phase.                                   *)
LEMMA HaltType ==
  ASSUME TypeInv, NEW how \in {"error", "crash"}, Halt(how), fuel' \in 0..Fuel
  PROVE  TypeInv'
<1>1. TypeOK'
  BY DEF Halt, TypeInv, TypeOK, Phase, threadVars, timeVars, stackVars, chanVars
<1>2. GroupHasParent' /\ SleeperIsThread' /\ BreakLevel'
  BY DEF Halt, TypeInv, GroupHasParent, SleeperIsThread, BreakLevel, IsBlocked,
         threadVars, timeVars, stackVars, chanVars
<1>. QED  BY <1>1, <1>2 DEF TypeInv

LEMMA CommandFuel ==
  ASSUME TypeOK, NEW name, Command(name)
  PROVE  fuel' \in 0..Fuel /\ cur \in Thread /\ phase = "running"
BY Running, BoundAssumption DEF TypeOK, Command

(* What create_thread assigns.                                             *)
TreeType ==
  /\ live \subseteq Thread
  /\ parent \in [Thread -> Thread \cup {NoThread}]
  /\ flags \in [Thread -> SUBSET Flag]
  /\ nchild \in [Thread -> Int]
  /\ reg_t \in [Thread -> Nat] /\ maxtime \in [Thread -> Nat]
  /\ pb \in [Thread -> Seq(Item)]
  /\ loop_count \in [Thread -> Int]
  /\ GroupHasParent

LEMMA CreateType ==
  ASSUME TypeInv, NEW new \in Thread, NEW p \in Thread, NEW fs \in SUBSET Flag,
         NEW stack \in Seq(Item), NEW loops \in Int,
         create_thread(new, p, fs, stack, loops)
  PROVE  TreeType'
<1>1. live' \subseteq Thread /\ parent' \in [Thread -> Thread \cup {NoThread}]
      /\ flags' \in [Thread -> SUBSET Flag] /\ nchild' \in [Thread -> Int]
  BY SMTT(30) DEF TypeInv, TypeOK, create_thread
<1>2. reg_t' \in [Thread -> Nat] /\ maxtime' \in [Thread -> Nat]
      /\ pb' \in [Thread -> Seq(Item)] /\ loop_count' \in [Thread -> Int]
  BY DEF TypeInv, TypeOK, create_thread
<1>3. GroupHasParent'  BY DEF TypeInv, TypeOK, create_thread, GroupHasParent
<1>. QED  BY <1>1, <1>2, <1>3 DEF TreeType

LEMMA DefthreadType == ASSUME TypeInv, do_defthread PROVE TypeInv'
<1>1. fuel' \in 0..Fuel /\ cur \in Thread
  BY CommandFuel DEF TypeInv, do_defthread
<1>2. PICK p \in {cur} \cup named, new \in Thread \ live :
        /\ create_thread(new, p, {}, <<Mark("EOF")>>, 0)
        /\ named' = named \cup {new}
  BY DEF do_defthread
<1>3. new \in Thread /\ p \in Thread /\ <<Mark("EOF")>> \in Seq(Item)
  BY <1>1, MarkItem DEF TypeInv, TypeOK
<1>4. UNCHANGED <<rtl, eff, chanVars, ctlVars>>  BY DEF do_defthread
<1>6. {} \in SUBSET Flag /\ 0 \in Int  OBVIOUS
<1>5. TreeType'  BY <1>2, <1>3, <1>6, CreateType
<1>. QED
  BY <1>1, <1>2, <1>4, <1>5
  DEF TypeInv, TypeOK, TreeType, SleeperIsThread, BreakLevel, IsBlocked, chanVars, ctlVars

LEMMA GroupType ==
  ASSUME TypeInv, NEW pf \in SUBSET Flag, group(pf), rtl # <<>>, fuel' \in 0..Fuel
  PROVE  TypeInv'
<1>1. cur \in Thread /\ Tail(rtl) \in Seq(Thread)  BY Running DEF TypeInv
<1>2. PICK new \in Thread \ live, amp \in BOOLEAN :
        /\ create_thread(new, cur, IF amp THEN pf ELSE pf \cup {"SFLAG"},
                         <<Mark("BODY"), Mark("EOB"), Mark("EOF")>>,
                         IF amp THEN 0 ELSE loop_count[cur])
        /\ rtl' = IF amp THEN <<new>> \o rtl ELSE <<new>> \o Tail(rtl)
        /\ UNCHANGED <<named, eff, chanVars, ctlVars>>
  BY DEF group
<1>. DEFINE fs == IF amp THEN pf ELSE pf \cup {"SFLAG"}
            loops == IF amp THEN 0 ELSE loop_count[cur]
<1>3. fs \in SUBSET Flag  BY DEF Flag
<1>8. loops \in Int  BY <1>1 DEF TypeInv, TypeOK
<1>9. <<Mark("BODY"), Mark("EOB"), Mark("EOF")>> \in Seq(Item)  BY MarkItem
<1>4. rtl' \in Seq(Thread)
  <2>1. <<new>> \in Seq(Thread) /\ rtl \in Seq(Thread)  BY DEF TypeInv, TypeOK
  <2>. QED  BY <1>1, <1>2, <2>1, ConcatProperties
<1>5. create_thread(new, cur, fs,
                    <<Mark("BODY"), Mark("EOB"), Mark("EOF")>>, loops)
  BY <1>2
<1>. HIDE DEF fs, loops
<1>6. TreeType'  BY <1>1, <1>2, <1>3, <1>5, <1>8, <1>9, CreateType
<1>7. UNCHANGED <<named, eff, chanVars, ctlVars>>  BY <1>2
<1>. QED
  BY <1>4, <1>6, <1>7
  DEF TypeInv, TypeOK, TreeType, SleeperIsThread, BreakLevel, IsBlocked, chanVars, ctlVars

LEMMA ThreadType == ASSUME TypeInv, do_thread PROVE TypeInv'
<1>1. fuel' \in 0..Fuel /\ cur \in Thread
  BY CommandFuel DEF TypeInv, do_thread
<1>2. PICK x \in named, avoid \in BOOLEAN :
        /\ pb' = [pb EXCEPT ![x] = Front(@) \o
                   <<Bot(reg_t[cur], avoid), Mark("BODY"), Mark("EOT"), Mark("EOF")>>]
        /\ awake_if_idle(x)
  BY DEF do_thread
<1>3. rtl' \in Seq(Thread)
  <2>1. <<x>> \in Seq(Thread) /\ rtl \in Seq(Thread)  BY DEF TypeInv, TypeOK
  <2>. QED  BY <1>2, <2>1, ConcatProperties DEF awake_if_idle
<1>4. pb' \in [Thread -> Seq(Item)]
  <2>1. Bot(reg_t[cur], avoid) \in Item  BY <1>1 DEF TypeInv, TypeOK, Bot, Item
  <2>2. <<Bot(reg_t[cur], avoid), Mark("BODY"), Mark("EOT"), Mark("EOF")>> \in Seq(Item)
    BY <2>1, MarkItem
  <2>3. x \in Thread /\ pb[x] \in Seq(Item)  BY DEF TypeInv, TypeOK
  <2>4. Front(pb[x]) \in Seq(Item)  BY <2>3, FrontSeq
  <2>5. Front(pb[x]) \o <<Bot(reg_t[cur], avoid), Mark("BODY"), Mark("EOT"), Mark("EOF")>>
          \in Seq(Item)
    BY <2>2, <2>4, ConcatProperties
  <2>. QED  BY <1>2, <2>3, <2>5 DEF TypeInv, TypeOK
<1>5. UNCHANGED <<threadVars, timeVars, loop_count, eff, chanVars, ctlVars>>
  BY DEF do_thread
<1>. QED
  BY <1>1, <1>3, <1>4, <1>5
  DEF TypeInv, TypeOK, GroupHasParent, SleeperIsThread, BreakLevel, IsBlocked,
      threadVars, timeVars, chanVars, ctlVars

LEMMA TopItem ==
  ASSUME TypeOK, NEW h \in Thread, NEW t, Top(h) = t, t # "none"
  PROVE  pb[h] # <<>> /\ Head(pb[h]) \in Item /\ Head(pb[h]).type = t
BY HeadTailProperties DEF TypeOK, Top

LEMMA TokenCur ==
  ASSUME TypeOK, NEW type, Token(type)
  PROVE  cur \in Thread /\ fuel' = fuel /\ rtl # <<>> /\ phase = "running"
BY Running DEF Token

LEMMA BeginNamedType == ASSUME TypeInv, begin_of_named_thread PROVE TypeInv'
<1>1. cur \in Thread /\ fuel' = fuel
  BY TokenCur DEF TypeInv, begin_of_named_thread
<1>2. Head(pb[cur]) \in Item /\ Head(pb[cur]).type = "BOT"
  BY <1>1, TopItem DEF TypeInv, begin_of_named_thread, Token
<1>3. Head(pb[cur]).stime \in Nat  BY <1>2 DEF Item
<1>4. pb' \in [Thread -> Seq(Item)]  BY PopType DEF TypeInv, begin_of_named_thread
<1>5. reg_t' \in [Thread -> Nat]
  BY <1>1, <1>3 DEF TypeInv, TypeOK, begin_of_named_thread, Later
<1>6. /\ flags' \in [Thread -> SUBSET Flag]
      /\ \A h \in Thread : "SFLAG" \in flags'[h] => "SFLAG" \in flags[h]
  BY <1>1 DEF TypeInv, TypeOK, begin_of_named_thread, Flag
<1>. QED
  BY <1>1, <1>4, <1>5, <1>6
  DEF TypeInv, TypeOK, GroupHasParent, SleeperIsThread, BreakLevel, IsBlocked,
      begin_of_named_thread, chanVars, ctlVars

LEMMA EndNamedType == ASSUME TypeInv, end_of_named_thread PROVE TypeInv'
<1>1. cur \in Thread /\ fuel' = fuel
  BY TokenCur DEF TypeInv, end_of_named_thread
<1>2. pb' \in [Thread -> Seq(Item)]  BY PopType DEF TypeInv, end_of_named_thread
<1>3. maxtime' \in [Thread -> Nat]
  BY <1>1 DEF TypeInv, TypeOK, end_of_named_thread, Later
<1>. QED
  BY <1>1, <1>2, <1>3
  DEF TypeInv, TypeOK, GroupHasParent, SleeperIsThread, BreakLevel, IsBlocked,
      end_of_named_thread, threadVars, chanVars, ctlVars

LEMMA EndListType == ASSUME TypeInv, end_of_block \/ end_of_tokens PROVE TypeInv'
<1>1. fuel' = fuel /\ Pop(cur)
      /\ UNCHANGED <<rtl, threadVars, timeVars, loop_count, eff, chanVars, ctlVars>>
  BY TokenCur DEF TypeInv, end_of_block, end_of_tokens
<1>2. pb' \in [Thread -> Seq(Item)]  BY <1>1, PopType DEF TypeInv
<1>. QED
  BY <1>1, <1>2
  DEF TypeInv, TypeOK, GroupHasParent, SleeperIsThread, BreakLevel, IsBlocked,
      threadVars, timeVars, chanVars, ctlVars

LEMMA TimeType == ASSUME TypeInv, do_pitch \/ do_reg PROVE TypeInv'
<1>1. fuel' \in 0..Fuel /\ cur \in Thread
  BY CommandFuel DEF TypeInv, do_pitch, do_reg
<1>2. reg_t' \in [Thread -> Nat] /\ maxtime' \in [Thread -> Nat]
  <2>1. CASE do_pitch
    <3>1. reg_t[cur] + 1 \in Nat /\ Later(maxtime[cur], reg_t[cur] + 1) \in Nat
      BY <1>1 DEF TypeInv, TypeOK, Later
    <3>2. \/ reg_t' = [reg_t EXCEPT ![cur] = reg_t[cur] + 1] /\ UNCHANGED maxtime
          \/ /\ maxtime' = [maxtime EXCEPT ![cur] = Later(maxtime[cur], reg_t[cur] + 1)]
             /\ UNCHANGED reg_t
      BY <2>1 DEF do_pitch
    <3>. QED  BY <3>1, <3>2 DEF TypeInv, TypeOK
  <2>2. CASE do_reg
    <3>1. 0..MaxTime \subseteq Nat  BY BoundAssumption
    <3>2. PICK t \in 0..MaxTime : reg_t' = [reg_t EXCEPT ![cur] = t]
      BY <2>2 DEF do_reg
    <3>3. t \in Nat /\ UNCHANGED maxtime  BY <2>2, <3>1 DEF do_reg
    <3>. QED  BY <1>1, <3>2, <3>3 DEF TypeInv, TypeOK
  <2>. QED  BY <2>1, <2>2
<1>3. UNCHANGED <<rtl, threadVars, stackVars, eff, chanVars, ctlVars>>
  BY DEF do_pitch, do_reg
<1>. QED
  BY <1>1, <1>2, <1>3
  DEF TypeInv, TypeOK, GroupHasParent, SleeperIsThread, BreakLevel, IsBlocked,
      threadVars, stackVars, chanVars, ctlVars

LEMMA AttachType == ASSUME TypeInv, attach_effector PROVE TypeInv'
<1>1. fuel' \in 0..Fuel /\ cur \in Thread
  BY CommandFuel DEF TypeInv, attach_effector
<1>2. eff' \in [Thread -> Channel \cup {NoChannel}]
  BY <1>1 DEF TypeInv, TypeOK, attach_effector
<1>. QED
  BY <1>1, <1>2
  DEF TypeInv, TypeOK, GroupHasParent, SleeperIsThread, BreakLevel, IsBlocked,
      attach_effector, threadVars, timeVars, stackVars, chanVars, ctlVars

LEMMA RotateType ==
  ASSUME TypeOK, rtl # <<>>, rotate_thread
  PROVE  rtl' \in Seq(Thread)
BY HeadTailProperties DEF TypeOK, rotate_thread

LEMMA SyncType == ASSUME TypeInv, do_sync \/ end_sync PROVE TypeInv'
<1>1. fuel' \in 0..Fuel /\ cur \in Thread /\ rtl # <<>> /\ sync
  BY CommandFuel, TokenCur DEF TypeInv, TypeOK, do_sync, end_sync, Command
<1>2. rtl' \in Seq(Thread)
  BY <1>1, RotateType DEF TypeInv, TypeOK, sync
<1>3. reg_t' \in [Thread -> Nat]
  BY <1>1 DEF TypeInv, TypeOK, sync, Later
<1>4. pb' \in [Thread -> Seq(Item)]
  <2>1. CASE do_sync
    <3>1. <<Mark("ESYNC")>> \in Seq(Item) /\ pb[cur] \in Seq(Item)
      BY <1>1, MarkItem DEF TypeInv, TypeOK
    <3>2. <<Mark("ESYNC")>> \o pb[cur] \in Seq(Item)  BY <3>1, ConcatProperties
    <3>. QED  BY <1>1, <2>1, <3>2 DEF TypeInv, TypeOK, do_sync
  <2>2. CASE end_sync
    BY <2>2, PopType DEF TypeInv, TypeOK, end_sync
  <2>. QED  BY <2>1, <2>2
<1>. QED
  BY <1>1, <1>2, <1>3, <1>4
  DEF TypeInv, TypeOK, GroupHasParent, SleeperIsThread, BreakLevel, IsBlocked,
      sync, threadVars, chanVars, ctlVars

-----------------------------------------------------------------------------
(* Channels.                                                               *)

LEMMA ChannelNameType ==
  ASSUME TypeOK, NEW cs \in Seq(Channel), get_channel_name(cs)
  PROVE  all_chnls' \in Seq(Channel)
<1>. DEFINE S == ToSet(cs) \ ToSet(all_chnls)
<1>1. S \subseteq Channel  BY ElementsInSet
<1>2. PICK new \in SetToSeqs(S) : all_chnls' = new \o all_chnls
  BY DEF get_channel_name
<1>3. IsFiniteSet(S)  BY <1>1, ChannelAssumption, FS_Subset
<1>. HIDE DEF S
<1>4. new \in Seq(S)  BY <1>2, <1>3, OrderSeq
<1>5. new \in Seq(Channel)  BY <1>1, <1>4, SeqMonotonic
<1>. QED  BY <1>2, <1>5, ConcatProperties DEF TypeOK

LEMMA ForgetSeq ==
  ASSUME NEW gone \in SUBSET Thread, NEW msgs \in Seq(Message)
  PROVE  /\ Forget(gone, msgs) \in Seq(Message)
         /\ Len(Forget(gone, msgs)) = Len(msgs)
         /\ \A i \in 1..Len(msgs) : Forget(gone, msgs)[i] =
              [msgs[i] EXCEPT !.received_by = @ \ gone]
<1>1. Len(msgs) \in Nat /\ DOMAIN msgs = 1..Len(msgs)  BY LenProperties
<1>2. ASSUME NEW i \in 1..Len(msgs)
      PROVE  [msgs[i] EXCEPT !.received_by = @ \ gone] \in Message
  <2>1. msgs[i] \in Message  BY ElementOfSeq
  <2>. QED  BY <2>1 DEF Message
<1>3. Forget(gone, msgs) \in [1..Len(msgs) -> Message]
  BY <1>1, <1>2 DEF Forget
<1>4. Forget(gone, msgs) \in Seq(Message)  BY <1>1, <1>3, SeqDef
<1>5. Len(Forget(gone, msgs)) = Len(msgs)  BY <1>1, <1>3, <1>4, LenProperties
<1>. QED  BY <1>1, <1>4, <1>5 DEF Forget

(* The threads that a signal wakes.                                        *)
LEMMA WokenThreads ==
  ASSUME TypeInv, NEW c \in Channel, NEW order \in WakeOrders(c)
  PROVE  /\ [i \in DOMAIN order |-> ws[c][order[i]].sleep_thd] \in Seq(Thread)
         /\ Len(order) \in Nat
<1>. DEFINE S == {w \in ToSet(wtop[c]) : IsBlocked(c, w)}
            woken == [i \in DOMAIN order |-> ws[c][order[i]].sleep_thd]
<1>1. S \subseteq Thread
  <2>1. wtop[c] \in Seq(Thread)  BY DEF TypeInv, TypeOK
  <2>. QED  BY <2>1, ElementsInSet
<1>2. IsFiniteSet(S)  BY <1>1, ThreadAssumption, FS_Subset
<1>3. order \in SetToSeqs(S)  BY DEF WakeOrders
<1>4. \A w \in S : IsBlocked(c, w)  OBVIOUS
<1>. HIDE DEF S
<1>5. order \in Seq(S) /\ Len(order) \in Nat  BY <1>2, <1>3, OrderSeq
<1>6. DOMAIN order = 1..Len(order) /\ \A i \in 1..Len(order) : order[i] \in S
  BY <1>5, LenProperties, ElementOfSeq
<1>7. \A i \in 1..Len(order) : ws[c][order[i]].sleep_thd \in Thread
  BY <1>1, <1>4, <1>6 DEF TypeInv, SleeperIsThread
<1>8. woken \in [1..Len(order) -> Thread]  BY <1>6, <1>7
<1>9. woken \in Seq(Thread)  BY <1>5, <1>8, SeqDef
<1>. QED  BY <1>5, <1>9

LEMMA SendType ==
  ASSUME TypeInv, NEW c \in Channel, NEW time \in Nat, NEW obj \in BOOLEAN,
         NEW gone \in SUBSET Thread, Send(c, time, obj, gone)
  PROVE  /\ mtop' \in [Channel -> Seq(Message)]
         /\ rtl' \in Seq(Thread)
         /\ total_blocked' \in Int
         /\ ws' \in [Channel -> [Thread -> Status]]
         /\ all_chnls' \in Seq(Channel)
         /\ SleeperIsThread'
<1>. DEFINE msg == [time |-> time, obj |-> obj, received_by |-> {}]
<1>1. PICK p \in 1..(Len(mtop[c]) + 1), order \in WakeOrders(c) :
        /\ mtop' = [d \in Channel |-> Forget(gone,
                      IF d # c THEN mtop[d] ELSE InsertAt(mtop[c], p, msg))]
        /\ rtl' = rtl \o [i \in DOMAIN order |-> ws[c][order[i]].sleep_thd]
        /\ total_blocked' = total_blocked - Len(order)
        /\ ws' = [d \in Channel |-> [w \in Thread |->
                   IF w \in gone THEN NoStatus
                   ELSE LET woken == WokenBy(c, d, w) IN
                        [status |-> IF woken THEN "Executing" ELSE ws[d][w].status,
                         sleep_thd |-> IF woken THEN NoThread ELSE ws[d][w].sleep_thd,
                         last |-> IF d = c /\ ws[d][w].last >= p
                                  THEN ws[d][w].last + 1 ELSE ws[d][w].last]]]
        /\ get_channel_name(<<c>>)
  BY DEF Send
<1>2. mtop' \in [Channel -> Seq(Message)]
  <2>1. msg \in Message /\ mtop[c] \in Seq(Message)
    BY DEF TypeInv, TypeOK, Message
  <2>. HIDE DEF msg
  <2>2. InsertAt(mtop[c], p, msg) \in Seq(Message)  BY <2>1, InsertAtSeq
  <2>3. \A d \in Channel :
          Forget(gone, IF d # c THEN mtop[d] ELSE InsertAt(mtop[c], p, msg)) \in Seq(Message)
    BY <2>2, ForgetSeq DEF TypeInv, TypeOK
  <2>. QED  BY <1>1, <2>3
<1>3. rtl' \in Seq(Thread) /\ total_blocked' \in Int
  <2>. DEFINE woken == [i \in DOMAIN order |-> ws[c][order[i]].sleep_thd]
  <2>1. woken \in Seq(Thread) /\ Len(order) \in Nat  BY WokenThreads
  <2>2. rtl' = rtl \o woken /\ total_blocked' = total_blocked - Len(order)  BY <1>1
  <2>. HIDE DEF woken
  <2>. QED  BY <2>1, <2>2, ConcatProperties DEF TypeInv, TypeOK
<1>4. all_chnls' \in Seq(Channel)
  <2>1. <<c>> \in Seq(Channel) /\ get_channel_name(<<c>>)  BY <1>1
  <2>. QED  BY <2>1, ChannelNameType DEF TypeInv
<1>5. ASSUME NEW d \in Channel, NEW w \in Thread
      PROVE  ws'[d][w] \in Status /\ (IsBlocked(d, w)' => ws'[d][w].sleep_thd \in Thread)
  <2>1. ws[d][w] \in Status  BY DEF TypeInv, TypeOK
  <2>2. CASE w \in gone
    BY <1>1, <2>2 DEF NoStatus, Status, IsBlocked
  <2>3. CASE w \notin gone /\ WokenBy(c, d, w)
    BY <1>1, <2>1, <2>3 DEF Status, IsBlocked
  <2>4. CASE w \notin gone /\ ~WokenBy(c, d, w)
    <3>1. /\ ws'[d][w].status = ws[d][w].status
          /\ ws'[d][w].sleep_thd = ws[d][w].sleep_thd
          /\ ws'[d][w] \in Status
      BY <1>1, <2>1, <2>4 DEF Status
    <3>. QED  BY <3>1 DEF TypeInv, SleeperIsThread, IsBlocked
  <2>. QED  BY <2>2, <2>3, <2>4
<1>6. ws' \in [Channel -> [Thread -> Status]]  BY <1>1, <1>5
<1>7. SleeperIsThread'  BY <1>5 DEF SleeperIsThread
<1>. QED  BY <1>2, <1>3, <1>4, <1>6, <1>7

LEMMA SignalType == ASSUME TypeInv, do_signal PROVE TypeInv'
<1>1. fuel' \in 0..Fuel /\ cur \in Thread
  BY CommandFuel DEF TypeInv, do_signal
<1>2. PICK c \in Channel, obj \in Loaded : Send(c, reg_t[cur], obj, {})
  BY DEF do_signal
<1>3. reg_t[cur] \in Nat /\ obj \in BOOLEAN /\ {} \in SUBSET Thread
  <2>1. Loaded \subseteq BOOLEAN  BY ProgramAssumption
  <2>2. reg_t[cur] \in Nat  BY <1>1 DEF TypeInv, TypeOK
  <2>. QED  BY <2>1, <2>2, Zenon
<1>4. /\ mtop' \in [Channel -> Seq(Message)] /\ rtl' \in Seq(Thread)
      /\ total_blocked' \in Int /\ ws' \in [Channel -> [Thread -> Status]]
      /\ all_chnls' \in Seq(Channel) /\ SleeperIsThread'
  BY <1>2, <1>3, SendType
<1>. QED
  BY <1>1, <1>4
  DEF TypeInv, TypeOK, GroupHasParent, BreakLevel, do_signal, threadVars,
      timeVars, stackVars, ctlVars


LEMMA OneStatusType ==
  ASSUME TypeInv, NEW c \in Channel, NEW w \in Thread, NEW st \in Status,
         st.status \in {"Idle", "Executing"} \/ st.sleep_thd \in Thread,
         ws' = [ws EXCEPT ![c][w] = st]
  PROVE  ws' \in [Channel -> [Thread -> Status]] /\ SleeperIsThread'
<1>1. ws' \in [Channel -> [Thread -> Status]]  BY DEF TypeInv, TypeOK
<1>2. ASSUME NEW d \in Channel, NEW v \in Thread, IsBlocked(d, v)'
      PROVE  ws'[d][v].sleep_thd \in Thread
  <2>1. CASE d = c /\ v = w
    <3>1. ws'[d][v] = st  BY <2>1 DEF TypeInv, TypeOK
    <3>. QED  BY <1>2, <3>1 DEF IsBlocked
  <2>2. CASE ~(d = c /\ v = w)
    <3>1. ws'[d][v] = ws[d][v]  BY <2>2 DEF TypeInv, TypeOK
    <3>. QED  BY <1>2, <3>1 DEF TypeInv, SleeperIsThread, IsBlocked
  <2>. QED  BY <2>1, <2>2
<1>3. SleeperIsThread'  BY <1>2 DEF SleeperIsThread
<1>. QED  BY <1>1, <1>3

LEMMA WaitType == ASSUME TypeInv, do_wait PROVE TypeInv'
<1>1. fuel' \in 0..Fuel /\ cur \in Thread /\ phase = "running"
  BY CommandFuel DEF TypeInv, do_wait
<1>2. rtl # <<>>  BY DEF do_wait, Command
<1>3. PICK c \in Channel, w \in Thread, b \in Bind :
       IF FoundUnused(c, w) THEN Halt("crash")
       ELSE /\ get_channel_name(<<c>>)
            /\ flags' = [flags EXCEPT ![w] = @ \cup {"WAITEX"}]
            /\ wtop' = IF HasStatus(c, w) THEN wtop
                       ELSE [wtop EXCEPT ![c] = <<w>> \o @]
            /\ Push(<<Ewait(c, w, b)>>)
            /\ IF HasNext(c, w)
               THEN /\ ws' = [ws EXCEPT ![c][w] = [@ EXCEPT !.status = "Executing"]]
                    /\ rotate_thread
                    /\ UNCHANGED <<total_blocked, phase>>
               ELSE /\ ws' = [ws EXCEPT ![c][w] = [@ EXCEPT !.status = "WaitBlocked",
                                                             !.sleep_thd = cur]]
                    /\ total_blocked' = total_blocked + 1
                    /\ rtl' = Tail(rtl)
                    /\ phase' = IF Tail(rtl) = <<>> THEN "blocked" ELSE phase
            /\ UNCHANGED <<live, parent, named, nchild, timeVars, loop_count,
                           eff, mtop, del, level, undefs>>
  BY DEF do_wait
<1>4. CASE FoundUnused(c, w)  BY <1>1, <1>3, <1>4, HaltType
<1>5. CASE ~FoundUnused(c, w)
  <2>1. all_chnls' \in Seq(Channel)
    <3>1. <<c>> \in Seq(Channel) /\ get_channel_name(<<c>>)  BY <1>3, <1>5
    <3>. QED  BY <3>1, ChannelNameType DEF TypeInv
  <2>2. /\ flags' \in [Thread -> SUBSET Flag]
        /\ \A h \in Thread : "SFLAG" \in flags'[h] => "SFLAG" \in flags[h]
    <3>1. flags' = [flags EXCEPT ![w] = @ \cup {"WAITEX"}]  BY <1>3, <1>5
    <3>. QED  BY <3>1 DEF TypeInv, TypeOK, Flag
  <2>3. wtop' \in [Channel -> Seq(Thread)]
    <3>1. wtop' = IF HasStatus(c, w) THEN wtop ELSE [wtop EXCEPT ![c] = <<w>> \o @]
      BY <1>3, <1>5
    <3>2. <<w>> \in Seq(Thread) /\ wtop[c] \in Seq(Thread)  BY DEF TypeInv, TypeOK
    <3>3. <<w>> \o wtop[c] \in Seq(Thread)  BY <3>2, ConcatProperties
    <3>. QED  BY <3>1, <3>3 DEF TypeInv, TypeOK
  <2>4. pb' \in [Thread -> Seq(Item)]
    <3>1. b \in BOOLEAN
      <4>1. Bind \subseteq BOOLEAN  BY ProgramAssumption
      <4>. QED  BY <4>1, Zenon
    <3>2. Ewait(c, w, b) \in Item  BY <3>1 DEF Ewait, Item
    <3>3. <<Ewait(c, w, b)>> \in Seq(Item)  BY <3>2
    <3>4. Push(<<Ewait(c, w, b)>>)  BY <1>3, <1>5
    <3>. QED  BY <3>3, <3>4, PushType DEF TypeInv
  <2>5. rtl' \in Seq(Thread) /\ total_blocked' \in Int /\ phase' \in {phase, "blocked"}
    <3>1. \/ rotate_thread /\ UNCHANGED <<total_blocked, phase>>
          \/ /\ total_blocked' = total_blocked + 1 /\ rtl' = Tail(rtl)
             /\ phase' = IF Tail(rtl) = <<>> THEN "blocked" ELSE phase
      BY <1>3, <1>5
    <3>2. rtl' \in Seq(Thread)  BY <1>2, <3>1, RotateType, Running DEF TypeInv
    <3>3. total_blocked' \in Int  BY <3>1 DEF TypeInv, TypeOK
    <3>4. phase' \in {phase, "blocked"}  BY <3>1
    <3>. QED  BY <3>2, <3>3, <3>4
  <2>6. ws' \in [Channel -> [Thread -> Status]] /\ SleeperIsThread'
    <3>1. \/ ws' = [ws EXCEPT ![c][w] = [ws[c][w] EXCEPT !.status = "Executing"]]
          \/ ws' = [ws EXCEPT ![c][w] = [ws[c][w] EXCEPT !.status = "WaitBlocked",
                                                         !.sleep_thd = cur]]
      BY <1>3, <1>5
    <3>2. ws[c][w] \in Status  BY DEF TypeInv, TypeOK
    <3>3. CASE ws' = [ws EXCEPT ![c][w] = [ws[c][w] EXCEPT !.status = "Executing"]]
      <4>. DEFINE st == [ws[c][w] EXCEPT !.status = "Executing"]
      <4>1. st \in Status /\ st.status = "Executing"  BY <3>2 DEF Status
      <4>2. ws' = [ws EXCEPT ![c][w] = st]  BY <3>3
      <4>. HIDE DEF st
      <4>. QED  BY <4>1, <4>2, OneStatusType
    <3>4. CASE ws' = [ws EXCEPT ![c][w] = [ws[c][w] EXCEPT !.status = "WaitBlocked",
                                                           !.sleep_thd = cur]]
      <4>. DEFINE st == [ws[c][w] EXCEPT !.status = "WaitBlocked", !.sleep_thd = cur]
      <4>1. st \in Status /\ st.sleep_thd \in Thread  BY <1>1, <3>2 DEF Status
      <4>2. ws' = [ws EXCEPT ![c][w] = st]  BY <3>4
      <4>. HIDE DEF st
      <4>. QED  BY <4>1, <4>2, OneStatusType
    <3>. QED  BY <3>1, <3>3, <3>4
  <2>7. UNCHANGED <<live, parent, named, nchild, timeVars, loop_count, eff, mtop, del,
                    level, undefs>>
    BY <1>3, <1>5
  <2>. QED
    BY <1>1, <2>1, <2>2, <2>3, <2>4, <2>5, <2>6, <2>7
    DEF TypeInv, TypeOK, GroupHasParent, BreakLevel, timeVars, Phase
<1>. QED  BY <1>4, <1>5

LEMMA NextMessage ==
  ASSUME TypeOK, NEW c \in Channel, NEW w \in Thread, HasNext(c, w)
  PROVE  /\ ws[c][w].last + 1 \in 1..Len(mtop[c])
         /\ Next_(c, w) = mtop[c][ws[c][w].last + 1]
         /\ Next_(c, w) \in Message
<1>1. ws[c][w].last \in Nat /\ mtop[c] \in Seq(Message)  BY DEF TypeOK, Status
<1>2. Len(mtop[c]) \in Nat  BY <1>1, LenProperties
<1>3. ws[c][w].last + 1 \in 1..Len(mtop[c])  BY <1>1, <1>2 DEF HasNext
<1>. QED  BY <1>1, <1>3, ElementOfSeq DEF Next_

LEMMA ReceiveType ==
  ASSUME TypeInv, cur \in Thread, NEW c \in Channel, NEW w \in Thread, HasNext(c, w),
         NEW status, status \in {"Idle", ws[c][w].status}, Receive(c, w, status)
  PROVE  /\ reg_t' \in [Thread -> Nat]
         /\ mtop' \in [Channel -> Seq(Message)]
         /\ ws' \in [Channel -> [Thread -> Status]]
         /\ SleeperIsThread'
<1>. DEFINE n == ws[c][w].last + 1
            msg == Marked(Next_(c, w), w)
            st == Received(ws[c][w], status)
<1>1. n \in 1..Len(mtop[c]) /\ mtop[c][n] \in Message /\ Next_(c, w) \in Message
  BY NextMessage DEF TypeInv
<1>2. reg_t' \in [Thread -> Nat]
  <2>1. reg_t' = [reg_t EXCEPT ![cur] = Later(@, Next_(c, w).time)]
    BY DEF Receive, Take
  <2>2. Next_(c, w).time \in Nat  BY <1>1 DEF Message
  <2>. QED  BY <2>1, <2>2 DEF TypeInv, TypeOK, Later
<1>3. mtop' \in [Channel -> Seq(Message)]
  <2>1. msg \in Message  BY <1>1 DEF Message, Marked
  <2>2. mtop' = [mtop EXCEPT ![c] = [mtop[c] EXCEPT ![n] = msg]]
    BY DEF Receive, Take
  <2>3. mtop[c] \in Seq(Message)  BY DEF TypeInv, TypeOK
  <2>. HIDE DEF n, msg
  <2>4. [mtop[c] EXCEPT ![n] = msg] \in Seq(Message)
    BY <1>1, <2>1, <2>3, ExceptSeq
  <2>. QED  BY <2>2, <2>4 DEF TypeInv, TypeOK
<1>4. ws' \in [Channel -> [Thread -> Status]] /\ SleeperIsThread'
  <2>1. ws[c][w] \in Status  BY DEF TypeInv, TypeOK
  <2>5. ws[c][w].last + 1 \in Nat  BY <2>1 DEF Status
  <2>2. /\ st \in Status /\ st.status = status
        /\ st.sleep_thd = ws[c][w].sleep_thd
    <3>1. status \in {"Idle", "Executing", "WaitBlocked", "AltBlocked"}
      BY <2>1 DEF Status
    <3>. QED  BY <2>1, <2>5, <3>1 DEF Status, Received
  <2>3. st.status \in {"Idle", "Executing"} \/ st.sleep_thd \in Thread
    <3>1. CASE IsBlocked(c, w)
      <4>1. ws[c][w].sleep_thd \in Thread  BY <3>1 DEF TypeInv, SleeperIsThread
      <4>. QED  BY <2>2, <4>1
    <3>2. CASE ~IsBlocked(c, w)  BY <2>1, <2>2, <3>2 DEF Status, IsBlocked
    <3>. QED  BY <3>1, <3>2
  <2>4. ws' = [ws EXCEPT ![c][w] = st]  BY DEF Receive
  <2>. HIDE DEF st
  <2>. QED  BY <2>2, <2>3, <2>4, OneStatusType
<1>. QED  BY <1>2, <1>3, <1>4

LEMMA EndWaitType == ASSUME TypeInv, end_wait PROVE TypeInv'
<1>1. cur \in Thread /\ fuel' = fuel /\ Top(cur) = "EWAIT"
  BY TokenCur DEF TypeInv, end_wait, Token
<1>2. Head(pb[cur]) \in Item /\ Head(pb[cur]).type = "EWAIT"
  BY <1>1, TopItem DEF TypeInv
<1>. DEFINE c == Head(pb[cur]).chnl
            w == Head(pb[cur]).wait_thd
<1>3. c \in Channel /\ w \in Thread  BY <1>2 DEF Item
<1>4. fuel' \in 0..Fuel  BY <1>1 DEF TypeInv, TypeOK
<1>5. CASE \E how \in {"error", "crash"} : Halt(how)  BY <1>4, <1>5, HaltType
<1>6. CASE ~\E how \in {"error", "crash"} : Halt(how)
  <2>1. /\ HasNext(c, w) /\ Receive(c, w, "Idle") /\ Pop(cur)
        /\ UNCHANGED <<rtl, threadVars, maxtime, loop_count, eff, all_chnls,
                       wtop, total_blocked, ctlVars>>
    BY <1>6 DEF end_wait
  <2>. HIDE DEF c, w
  <2>2. pb' \in [Thread -> Seq(Item)]  BY <2>1, PopType DEF TypeInv
  <2>3. /\ reg_t' \in [Thread -> Nat] /\ mtop' \in [Channel -> Seq(Message)]
        /\ ws' \in [Channel -> [Thread -> Status]] /\ SleeperIsThread'
    BY <1>1, <1>3, <2>1, ReceiveType
  <2>. QED
    BY <1>4, <2>1, <2>2, <2>3
    DEF TypeInv, TypeOK, GroupHasParent, BreakLevel, threadVars, ctlVars
<1>. QED  BY <1>5, <1>6

LEMMA GuardsType ==
  ASSUME TypeInv, NEW gs, NEW u,
         NEW status \in {"Idle", "Executing", "WaitBlocked", "AltBlocked"},
         NEW sleeper \in Thread \cup {NoThread},
         status \in {"Idle", "Executing"} \/ sleeper \in Thread,
         ws' = SetGuards(gs, u, status, sleeper)
  PROVE  ws' \in [Channel -> [Thread -> Status]] /\ SleeperIsThread'
<1>1. ASSUME NEW c \in Channel, NEW w \in Thread
      PROVE  ws'[c][w] \in Status /\ (IsBlocked(c, w)' => ws'[c][w].sleep_thd \in Thread)
  <2>1. ws[c][w] \in Status  BY DEF TypeInv, TypeOK
  <2>2. CASE ws'[c][w] = ws[c][w]
    BY <2>1, <2>2 DEF TypeInv, SleeperIsThread, IsBlocked
  <2>3. CASE ws'[c][w] = [ws[c][w] EXCEPT !.status = status, !.sleep_thd = sleeper]
    BY <2>1, <2>3 DEF Status, IsBlocked
  <2>. QED  BY <2>2, <2>3 DEF SetGuards
<1>2. ws' \in [Channel -> [Thread -> Status]]  BY <1>1 DEF SetGuards
<1>. QED  BY <1>1, <1>2 DEF SleeperIsThread

LEMMA BlockType ==
  ASSUME TypeInv, rtl # <<>>, NEW gs, NEW w, Block(gs, w)
  PROVE  /\ ws' \in [Channel -> [Thread -> Status]] /\ SleeperIsThread'
         /\ rtl' \in Seq(Thread) /\ total_blocked' \in Int
         /\ phase' \in {phase, "blocked"}
<1>1. cur \in Thread /\ Tail(rtl) \in Seq(Thread)  BY Running DEF TypeInv
<1>2. ws' = SetGuards(gs, w, "AltBlocked", cur)  BY DEF Block
<1>3. ws' \in [Channel -> [Thread -> Status]] /\ SleeperIsThread'
  BY <1>1, <1>2, GuardsType
<1>. QED  BY <1>1, <1>3 DEF Block, TypeInv, TypeOK

LEMMA GuardChannelSeq ==
  ASSUME NEW gs \in AltGuards
  PROVE  /\ [i \in DOMAIN gs |-> gs[i].chnl] \in Seq(Channel)
         /\ gs \in Seq([chnl : Channel \cup {Freed}, bind : BOOLEAN])
<1>1. gs \in Seq(Guard)  BY ProgramAssumption
<1>2. Guard \subseteq [chnl : Channel \cup {Freed}, bind : BOOLEAN]  BY DEF Guard
<1>3. gs \in Seq([chnl : Channel \cup {Freed}, bind : BOOLEAN])
  BY <1>1, <1>2, SeqMonotonic
<1>4. DOMAIN gs = 1..Len(gs) /\ Len(gs) \in Nat /\ \A i \in 1..Len(gs) : gs[i] \in Guard
  BY <1>1, LenProperties, ElementOfSeq
<1>5. [i \in DOMAIN gs |-> gs[i].chnl] \in [1..Len(gs) -> Channel]
  BY <1>4 DEF Guard
<1>. QED  BY <1>3, <1>4, <1>5, SeqDef

LEMMA AltType == ASSUME TypeInv, do_alt PROVE TypeInv'
<1>1. fuel' \in 0..Fuel /\ cur \in Thread /\ phase = "running"
  BY CommandFuel DEF TypeInv, do_alt
<1>2. rtl # <<>>  BY DEF do_alt, Command
<1>3. CASE Halt("crash")  BY <1>1, <1>3, HaltType
<1>4. CASE ~Halt("crash")
  <2>1. PICK gs \in AltGuards, w \in Thread, d \in Default :
          /\ get_channel_name([i \in DOMAIN gs |-> gs[i].chnl])
          /\ flags' = [flags EXCEPT ![w] = @ \cup {"WAITEX"}]
          /\ wtop' = [c \in Channel |->
                       IF c \in ToSet([i \in DOMAIN gs |-> gs[i].chnl]) /\ ~HasStatus(c, w)
                       THEN <<w>> \o wtop[c] ELSE wtop[c]]
          /\ Push(<<Ealt(gs, w, d)>>)
          /\ loop_count' = [loop_count EXCEPT ![cur] = @ + 1]
          /\ \/ /\ ws' = SetGuards(gs, w, "Executing", NoThread)
                /\ rotate_thread
                /\ UNCHANGED <<total_blocked, phase>>
             \/ Block(gs, w)
          /\ UNCHANGED <<live, parent, named, nchild, timeVars, eff, mtop, del, level, undefs>>
    BY <1>4, ZenonT(30) DEF do_alt
  <2>2. all_chnls' \in Seq(Channel)
    <3>. DEFINE chnls == [i \in DOMAIN gs |-> gs[i].chnl]
    <3>1. chnls \in Seq(Channel)  BY GuardChannelSeq
    <3>2. get_channel_name(chnls)  BY <2>1
    <3>. HIDE DEF chnls
    <3>. QED  BY <3>1, <3>2, ChannelNameType DEF TypeInv
  <2>3. /\ flags' \in [Thread -> SUBSET Flag]
        /\ \A h \in Thread : "SFLAG" \in flags'[h] => "SFLAG" \in flags[h]
    <3>1. flags' = [flags EXCEPT ![w] = @ \cup {"WAITEX"}]  BY <2>1
    <3>. QED  BY <3>1 DEF TypeInv, TypeOK, Flag
  <2>4. wtop' \in [Channel -> Seq(Thread)]
    <3>1. ASSUME NEW c \in Channel  PROVE <<w>> \o wtop[c] \in Seq(Thread)
      <4>1. <<w>> \in Seq(Thread) /\ wtop[c] \in Seq(Thread)  BY DEF TypeInv, TypeOK
      <4>. QED  BY <4>1, ConcatProperties
    <3>2. \A c \in Channel : wtop'[c] \in {<<w>> \o wtop[c], wtop[c]}  BY <2>1
    <3>3. wtop' = [c \in Channel |-> wtop'[c]]  BY <2>1
    <3>. QED  BY <3>1, <3>2, <3>3, ZenonT(30) DEF TypeInv, TypeOK
  <2>5. pb' \in [Thread -> Seq(Item)]
    <3>1. d \in BOOLEAN
      <4>1. Default \subseteq BOOLEAN  BY ProgramAssumption
      <4>. QED  BY <4>1, Zenon
    <3>2. Ealt(gs, w, d) \in Item  BY <3>1, GuardChannelSeq DEF Ealt, Item
    <3>3. <<Ealt(gs, w, d)>> \in Seq(Item)  BY <3>2
    <3>4. Push(<<Ealt(gs, w, d)>>)  BY <2>1
    <3>. QED  BY <3>3, <3>4, PushType DEF TypeInv
  <2>6. loop_count' \in [Thread -> Int]
    <3>1. loop_count' = [loop_count EXCEPT ![cur] = @ + 1]  BY <2>1
    <3>. QED  BY <1>1, <3>1 DEF TypeInv, TypeOK
  <2>7. /\ ws' \in [Channel -> [Thread -> Status]] /\ SleeperIsThread'
        /\ rtl' \in Seq(Thread) /\ total_blocked' \in Int
        /\ phase' \in {phase, "blocked"}
    <3>1. CASE Block(gs, w)  BY <1>2, <3>1, BlockType
    <3>2. CASE /\ ws' = SetGuards(gs, w, "Executing", NoThread)
               /\ rotate_thread /\ UNCHANGED <<total_blocked, phase>>
      <4>1. ws' \in [Channel -> [Thread -> Status]] /\ SleeperIsThread'
        BY <3>2, GuardsType
      <4>. QED  BY <1>2, <3>2, <4>1, RotateType DEF TypeInv, TypeOK
    <3>. QED  BY <2>1, <3>1, <3>2
  <2>8. UNCHANGED <<live, parent, named, nchild, timeVars, eff, mtop, del, level, undefs>>
    BY <2>1
  <2>. QED
    BY <1>1, <2>2, <2>3, <2>4, <2>5, <2>6, <2>7, <2>8
    DEF TypeInv, TypeOK, GroupHasParent, BreakLevel, timeVars, Phase
<1>. QED  BY <1>3, <1>4

LEMMA EndAltType == ASSUME TypeInv, end_alt PROVE TypeInv'
<1>1. cur \in Thread /\ fuel' = fuel /\ rtl # <<>> /\ phase = "running"
      /\ Top(cur) = "EALT"
  BY TokenCur DEF TypeInv, end_alt, Token
<1>2. Head(pb[cur]) \in Item /\ Head(pb[cur]).type = "EALT"
  BY <1>1, TopItem DEF TypeInv
<1>. DEFINE item == Head(pb[cur])
            gs == item.guards
            w == item.wait_thd
            d == item.default
<1>3. w \in Thread /\ gs \in Seq([chnl : Channel \cup {Freed}, bind : BOOLEAN])
  BY <1>2 DEF Item
<1>4. fuel' \in 0..Fuel  BY <1>1 DEF TypeInv, TypeOK
<1>5. <<Mark("BODY")>> \in Seq(Item)  BY MarkItem
<1>6. CASE \E how \in {"error", "crash"} : Halt(how)  BY <1>4, <1>6, HaltType
<1>7. CASE ~\E how \in {"error", "crash"} : Halt(how)
  <2>1. /\ Freed \notin GuardChannels(item)
        /\ \/ \E i \in DOMAIN gs :
                /\ IsEarliest(gs, w, i)
                /\ Receive(gs[i].chnl, w, ws[gs[i].chnl][w].status)
                /\ Push(<<Mark("BODY")>>)
                /\ rotate_thread
                /\ UNCHANGED <<threadVars, maxtime, loop_count, eff,
                               all_chnls, wtop, total_blocked, ctlVars>>
           \/ /\ Push(<<Mark("BODY")>>)
              /\ rotate_thread
              /\ UNCHANGED <<threadVars, timeVars, loop_count, eff, chanVars, ctlVars>>
           \/ /\ Block(gs, w)
              /\ UNCHANGED <<threadVars, timeVars, stackVars, eff, all_chnls,
                             mtop, wtop, del, level, undefs>>
    BY <1>7, Zenon DEF end_alt
  <2>. HIDE DEF gs, w
  <2>2. CASE \E i \in DOMAIN gs :
                /\ IsEarliest(gs, w, i)
                /\ Receive(gs[i].chnl, w, ws[gs[i].chnl][w].status)
                /\ Push(<<Mark("BODY")>>)
                /\ rotate_thread
                /\ UNCHANGED <<threadVars, maxtime, loop_count, eff,
                               all_chnls, wtop, total_blocked, ctlVars>>
    <3>1. PICK i \in DOMAIN gs :
                /\ IsEarliest(gs, w, i)
                /\ Receive(gs[i].chnl, w, ws[gs[i].chnl][w].status)
                /\ Push(<<Mark("BODY")>>)
                /\ rotate_thread
                /\ UNCHANGED <<threadVars, maxtime, loop_count, eff,
                               all_chnls, wtop, total_blocked, ctlVars>>
      BY <2>2
    <3>2. gs[i].chnl \in Channel
      <4>1. gs[i] \in [chnl : Channel \cup {Freed}, bind : BOOLEAN]
        BY <1>3, ElementOfSeq, LenProperties
      <4>2. gs[i].chnl # Freed  BY <2>1 DEF GuardChannels, gs
      <4>. QED  BY <4>1, <4>2
    <3>. DEFINE c == gs[i].chnl
                status == ws[c][w].status
    <3>3. HasNext(c, w) /\ Receive(c, w, status) /\ c \in Channel
          /\ status \in {"Idle", ws[c][w].status}
      BY <3>1, <3>2 DEF IsEarliest
    <3>. HIDE DEF c, status
    <3>4. /\ reg_t' \in [Thread -> Nat] /\ mtop' \in [Channel -> Seq(Message)]
          /\ ws' \in [Channel -> [Thread -> Status]] /\ SleeperIsThread'
      BY <1>1, <1>3, <3>3, ReceiveType
    <3>5. pb' \in [Thread -> Seq(Item)]  BY <1>5, <3>1, PushType DEF TypeInv
    <3>6. rtl' \in Seq(Thread)  BY <1>1, <3>1, RotateType DEF TypeInv
    <3>. QED
      BY <1>4, <3>1, <3>4, <3>5, <3>6
      DEF TypeInv, TypeOK, GroupHasParent, BreakLevel, threadVars, ctlVars
  <2>3. CASE /\ Push(<<Mark("BODY")>>)
             /\ rotate_thread
             /\ UNCHANGED <<threadVars, timeVars, loop_count, eff, chanVars, ctlVars>>
    <3>1. pb' \in [Thread -> Seq(Item)]  BY <1>5, <2>3, PushType DEF TypeInv
    <3>2. rtl' \in Seq(Thread)  BY <1>1, <2>3, RotateType DEF TypeInv
    <3>. QED
      BY <1>4, <2>3, <3>1, <3>2
      DEF TypeInv, TypeOK, GroupHasParent, BreakLevel, SleeperIsThread, IsBlocked,
          threadVars, timeVars, chanVars, ctlVars
  <2>4. CASE /\ Block(gs, w)
             /\ UNCHANGED <<threadVars, timeVars, stackVars, eff, all_chnls,
                            mtop, wtop, del, level, undefs>>
    <3>1. /\ ws' \in [Channel -> [Thread -> Status]] /\ SleeperIsThread'
          /\ rtl' \in Seq(Thread) /\ total_blocked' \in Int
          /\ phase' \in {phase, "blocked"}
      BY <1>1, <2>4, BlockType
    <3>. QED
      BY <1>1, <1>4, <2>4, <3>1
      DEF TypeInv, TypeOK, GroupHasParent, BreakLevel, threadVars, timeVars, stackVars, Phase
  <2>. QED  BY <2>1, <2>2, <2>3, <2>4
<1>. QED  BY <1>6, <1>7

(* Leaving an alt loop, by break or by the end of a dead lock.             *)
LEMMA LeaveAltType ==
  ASSUME TypeInv, NEW h \in Thread, leave_alt(h)
  PROVE  /\ pb' \in [Thread -> Seq(Item)] /\ loop_count' \in [Thread -> Int]
         /\ ws' \in [Channel -> [Thread -> Status]] /\ SleeperIsThread'
<1>1. pb' \in [Thread -> Seq(Item)]  BY PopType DEF TypeInv, leave_alt
<1>2. loop_count' \in [Thread -> Int]  BY DEF TypeInv, TypeOK, leave_alt
<1>3. ws' = SetGuards(Head(pb[h]).guards, Head(pb[h]).wait_thd, "Idle", NoThread)
  BY DEF leave_alt
<1>. QED  BY <1>1, <1>2, <1>3, GuardsType

LEMMA EofType == ASSUME TypeInv, do_eof PROVE TypeInv'
<1>1. cur \in Thread /\ Tail(rtl) \in Seq(Thread)
  BY Running DEF TypeInv, do_eof
<1>2. del' \in Thread \cup {NoThread}  BY <1>1 DEF do_eof
<1>3. UNCHANGED <<threadVars, stackVars, eff, chanVars, phase, level, undefs, fuel>>
  BY DEF do_eof
<1>4. rtl' \in Seq(Thread) /\ reg_t' \in [Thread -> Nat] /\ maxtime' \in [Thread -> Nat]
  <2>1. CASE Returns(cur)
    <3>. DEFINE p == parent[cur]
                t == IF "PFLAG" \in flags[cur] THEN maxtime[cur] ELSE reg_t[cur]
    <3>1. /\ rtl' = <<p>> \o Tail(rtl)
          /\ \/ reg_t' = [reg_t EXCEPT ![p] = t] /\ UNCHANGED maxtime
             \/ maxtime' = [maxtime EXCEPT ![p] = Later(maxtime[p], t)] /\ UNCHANGED reg_t
      BY <2>1 DEF do_eof
    <3>2. p \in Thread  BY <1>1, <2>1 DEF Returns, TypeInv, GroupHasParent
    <3>3. t \in Nat /\ maxtime[p] \in Nat  BY <1>1, <3>2 DEF TypeInv, TypeOK
    <3>. HIDE DEF p, t
    <3>4. <<p>> \in Seq(Thread)  BY <3>2
    <3>5. rtl' \in Seq(Thread)  BY <1>1, <3>1, <3>4, ConcatProperties
    <3>. QED  BY <3>1, <3>3, <3>5 DEF TypeInv, TypeOK, Later
  <2>2. CASE ~Returns(cur)
    BY <1>1, <2>2 DEF TypeInv, TypeOK, do_eof, timeVars
  <2>. QED  BY <2>1, <2>2
<1>. QED
  BY <1>2, <1>3, <1>4
  DEF TypeInv, TypeOK, GroupHasParent, SleeperIsThread, IsBlocked, BreakLevel,
      threadVars, stackVars, chanVars

LEMMA PostponeType == ASSUME TypeInv, postpone_delete PROVE TypeInv'
<1>1. del \in Thread  BY DEF TypeInv, TypeOK, postpone_delete
<1>2. /\ flags' \in [Thread -> SUBSET Flag]
      /\ \A h \in Thread : "SFLAG" \in flags'[h] => "SFLAG" \in flags[h]
  BY <1>1 DEF TypeInv, TypeOK, postpone_delete, Flag
<1>. QED
  BY <1>2
  DEF TypeInv, TypeOK, GroupHasParent, SleeperIsThread, IsBlocked, BreakLevel,
      postpone_delete, timeVars, stackVars, chanVars

LEMMA DeleteThreadType == ASSUME TypeInv, delete_thread PROVE TypeInv'
<1>. DEFINE p == parent[del]
            gone == IF phase = "cleanup" \/ "WAITEX" \notin flags[del] THEN {} ELSE {del}
<1>1. del \in Thread  BY DEF TypeInv, TypeOK, delete_thread
<1>2. gone \in SUBSET Thread  BY <1>1
<1>3. /\ \/ /\ eff[del] = NoChannel
            /\ ws' = [c \in Channel |-> [w \in Thread |->
                       IF w \in gone THEN NoStatus ELSE ws[c][w]]]
            /\ mtop' = [c \in Channel |-> Forget(gone, mtop[c])]
            /\ UNCHANGED <<rtl, total_blocked, all_chnls>>
         \/ /\ eff[del] # NoChannel
            /\ \E obj \in Loaded : Send(eff[del], Later(reg_t[del], maxtime[del]), obj, gone)
      /\ wtop' = [c \in Channel |-> IF gone = {} THEN wtop[c] ELSE Unlink(wtop[c], del)]
  BY DEF delete_thread
<1>. HIDE DEF gone
<1>4. /\ mtop' \in [Channel -> Seq(Message)] /\ rtl' \in Seq(Thread)
      /\ total_blocked' \in Int /\ ws' \in [Channel -> [Thread -> Status]]
      /\ all_chnls' \in Seq(Channel) /\ SleeperIsThread'
  <2>1. CASE /\ ws' = [c \in Channel |-> [w \in Thread |->
                        IF w \in gone THEN NoStatus ELSE ws[c][w]]]
             /\ mtop' = [c \in Channel |-> Forget(gone, mtop[c])]
             /\ UNCHANGED <<rtl, total_blocked, all_chnls>>
    <3>1. mtop' \in [Channel -> Seq(Message)]
      <4>1. \A c \in Channel : Forget(gone, mtop[c]) \in Seq(Message)
        BY <1>2, ForgetSeq DEF TypeInv, TypeOK
      <4>. QED  BY <2>1, <4>1
    <3>2. ws' \in [Channel -> [Thread -> Status]]
      BY <2>1 DEF TypeInv, TypeOK, NoStatus, Status
    <3>3. SleeperIsThread'
      BY <2>1 DEF TypeInv, SleeperIsThread, IsBlocked, NoStatus
    <3>. QED  BY <2>1, <3>1, <3>2, <3>3 DEF TypeInv, TypeOK
  <2>2. CASE /\ eff[del] # NoChannel
             /\ \E obj \in Loaded : Send(eff[del], Later(reg_t[del], maxtime[del]), obj, gone)
    <3>1. PICK obj \in Loaded : Send(eff[del], Later(reg_t[del], maxtime[del]), obj, gone)
      BY <2>2
    <3>2. obj \in BOOLEAN
      <4>1. Loaded \subseteq BOOLEAN  BY ProgramAssumption
      <4>. QED  BY <4>1, Zenon
    <3>3. eff[del] \in Channel /\ Later(reg_t[del], maxtime[del]) \in Nat
      BY <1>1, <2>2 DEF TypeInv, TypeOK, Later
    <3>. QED  BY <1>2, <3>1, <3>2, <3>3, SendType
  <2>. QED  BY <1>3, <2>1, <2>2
<1>5. wtop' \in [Channel -> Seq(Thread)]
  <2>1. \A c \in Channel : wtop[c] \in Seq(Thread) /\ Unlink(wtop[c], del) \in Seq(Thread)
    BY UnlinkSeq DEF TypeInv, TypeOK
  <2>. QED  BY <1>3, <2>1
<1>6. /\ live' = live \ {del} /\ named' = named \ {del}
      /\ parent' = [parent EXCEPT ![del] = NoThread]
      /\ flags' = [flags EXCEPT ![del] = {}]
      /\ nchild' = [g \in Thread |-> IF g = p THEN nchild[g] - 1 ELSE nchild[g]]
      /\ reg_t' = [reg_t EXCEPT ![del] = 0]
      /\ maxtime' = [maxtime EXCEPT ![del] = 0]
      /\ pb' = [pb EXCEPT ![del] = <<>>]
      /\ loop_count' = [loop_count EXCEPT ![del] = 0]
      /\ eff' = [eff EXCEPT ![del] = NoChannel]
      /\ del' \in {p, NoThread} /\ UNCHANGED <<phase, level, undefs, fuel>>
  BY DEF delete_thread
<1>7. p \in Thread \cup {NoThread}  BY <1>1 DEF TypeInv, TypeOK
<1>. HIDE DEF p
<1>8. /\ parent' \in [Thread -> Thread \cup {NoThread}] /\ nchild' \in [Thread -> Int]
      /\ flags' \in [Thread -> SUBSET Flag] /\ pb' \in [Thread -> Seq(Item)]
  <2>1. /\ parent' = [parent EXCEPT ![del] = NoThread]
        /\ nchild' = [g \in Thread |-> IF g = p THEN nchild[g] - 1 ELSE nchild[g]]
    BY <1>6
  <2>2. parent' \in [Thread -> Thread \cup {NoThread}] /\ nchild' \in [Thread -> Int]
    <3>1. parent \in [Thread -> Thread \cup {NoThread}] /\ nchild \in [Thread -> Int]
      BY DEF TypeInv, TypeOK
    <3>2. parent' \in [Thread -> Thread \cup {NoThread}]  BY <2>1, <3>1
    <3>. QED  BY <2>1, <3>1, <3>2
  <2>3. flags' = [flags EXCEPT ![del] = {}] /\ pb' = [pb EXCEPT ![del] = <<>>]
    BY <1>6
  <2>4. flags' \in [Thread -> SUBSET Flag]  BY <2>3 DEF TypeInv, TypeOK
  <2>5. <<>> \in Seq(Item) /\ pb \in [Thread -> Seq(Item)]
    BY EmptySeq DEF TypeInv, TypeOK
  <2>6. pb' \in [Thread -> Seq(Item)]  BY <2>3, <2>5
  <2>. QED  BY <2>2, <2>4, <2>6
<1>9. /\ reg_t' \in [Thread -> Nat] /\ maxtime' \in [Thread -> Nat]
      /\ loop_count' \in [Thread -> Int] /\ eff' \in [Thread -> Channel \cup {NoChannel}]
  <2>1. reg_t' = [reg_t EXCEPT ![del] = 0] /\ maxtime' = [maxtime EXCEPT ![del] = 0]
    BY <1>6
  <2>2. reg_t' \in [Thread -> Nat] /\ maxtime' \in [Thread -> Nat]
    BY <2>1 DEF TypeInv, TypeOK
  <2>3. loop_count' = [loop_count EXCEPT ![del] = 0] /\ eff' = [eff EXCEPT ![del] = NoChannel]
    BY <1>6
  <2>4. loop_count' \in [Thread -> Int] /\ eff' \in [Thread -> Channel \cup {NoChannel}]
    <3>1. loop_count \in [Thread -> Int] /\ eff \in [Thread -> Channel \cup {NoChannel}]
      BY DEF TypeInv, TypeOK
    <3>2. eff' \in [Thread -> Channel \cup {NoChannel}]  BY <2>3, <3>1
    <3>. QED  BY <2>3, <3>1, <3>2
  <2>. QED  BY <2>2, <2>4
<1>10. GroupHasParent' /\ BreakLevel'
  BY <1>1, <1>6 DEF TypeInv, TypeOK, GroupHasParent, BreakLevel
<1>. QED
  BY <1>4, <1>5, <1>6, <1>7, <1>8, <1>9, <1>10, ZenonT(30) DEF TypeInv, TypeOK

LEMMA DestroyType == ASSUME TypeInv, destroy_channel PROVE TypeInv'
<1>1. fuel' \in 0..Fuel /\ phase = "running"
  BY CommandFuel DEF TypeInv, destroy_channel
<1>2. CASE Halt("error")  BY <1>1, <1>2, HaltType
<1>3. CASE ~Halt("error")
  <2>1. PICK c \in ToSet(all_chnls) :
          /\ all_chnls' = Unlink(all_chnls, c)
          /\ mtop' = [mtop EXCEPT ![c] = <<>>]
          /\ wtop' = [wtop EXCEPT ![c] = <<>>]
          /\ ws' = [ws EXCEPT ![c] = [w \in Thread |-> NoStatus]]
          /\ pb' = [h \in Thread |-> [i \in DOMAIN pb[h] |->
                     IF pb[h][i].type = "EALT"
                     THEN [pb[h][i] EXCEPT !.guards = [k \in DOMAIN @ |->
                            IF @[k].chnl = c THEN [@[k] EXCEPT !.chnl = Freed] ELSE @[k]]]
                     ELSE pb[h][i]]]
          /\ UNCHANGED <<rtl, threadVars, timeVars, loop_count, eff,
                         total_blocked, ctlVars>>
    BY <1>3, Zenon DEF destroy_channel
  <2>2. all_chnls' \in Seq(Channel)  BY <2>1, UnlinkSeq DEF TypeInv, TypeOK
  <2>3. mtop' \in [Channel -> Seq(Message)] /\ wtop' \in [Channel -> Seq(Thread)]
    <3>1. mtop' = [mtop EXCEPT ![c] = <<>>] /\ wtop' = [wtop EXCEPT ![c] = <<>>]
      BY <2>1
    <3>2. <<>> \in Seq(Message) /\ <<>> \in Seq(Thread)  BY EmptySeq
    <3>3. mtop \in [Channel -> Seq(Message)] /\ wtop \in [Channel -> Seq(Thread)]
      BY DEF TypeInv, TypeOK
    <3>. QED  BY <3>1, <3>2, <3>3
  <2>4. ws' \in [Channel -> [Thread -> Status]] /\ SleeperIsThread'
    <3>1. ws' = [ws EXCEPT ![c] = [w \in Thread |-> NoStatus]]  BY <2>1
    <3>2. NoStatus \in Status /\ NoStatus.status = "Idle"  BY DEF NoStatus, Status
    <3>3. ws' \in [Channel -> [Thread -> Status]]
      BY <3>1, <3>2 DEF TypeInv, TypeOK
    <3>4. ASSUME NEW d \in Channel, NEW w \in Thread, IsBlocked(d, w)'
          PROVE  ws'[d][w].sleep_thd \in Thread
      <4>1. ws'[d][w] = NoStatus \/ ws'[d][w] = ws[d][w]
        BY <3>1 DEF TypeInv, TypeOK
      <4>. QED  BY <3>2, <3>4, <4>1 DEF TypeInv, SleeperIsThread, IsBlocked
    <3>. QED  BY <3>3, <3>4 DEF SleeperIsThread
  <2>5. pb' \in [Thread -> Seq(Item)]
    <3>. DEFINE G == [chnl : Channel \cup {Freed}, bind : BOOLEAN]
                free(e) == IF e.chnl = c THEN [e EXCEPT !.chnl = Freed] ELSE e
                gs(item) == [k \in DOMAIN item.guards |-> free(item.guards[k])]
                New(item) == IF item.type = "EALT" THEN [item EXCEPT !.guards = gs(item)]
                             ELSE item
    <3>1. pb' = [h \in Thread |-> [i \in DOMAIN pb[h] |-> New(pb[h][i])]]  BY <2>1
    <3>2. ASSUME NEW item \in Item  PROVE New(item) \in Item
      <4>1. CASE item.type = "EALT"
        <5>1. item.guards \in Seq(G)  BY <4>1 DEF Item
        <5>2. \A e \in G : free(e) \in G  OBVIOUS
        <5>. HIDE DEF free, G
        <5>3. /\ DOMAIN item.guards = 1..Len(item.guards) /\ Len(item.guards) \in Nat
              /\ \A k \in 1..Len(item.guards) : item.guards[k] \in G
          BY <5>1, LenProperties, ElementOfSeq
        <5>4. gs(item) \in [1..Len(item.guards) -> G]  BY <5>2, <5>3
        <5>5. gs(item) \in Seq(G)  BY <5>3, <5>4, SeqDef
        <5>. HIDE DEF gs
        <5>6. [item EXCEPT !.guards = gs(item)] \in
                [type : {"EALT"}, guards : Seq(G), wait_thd : Thread, default : BOOLEAN]
          BY <4>1, <5>5 DEF Item, G
        <5>7. [item EXCEPT !.guards = gs(item)] \in Item  BY <5>6 DEF Item, G
        <5>. QED  BY <4>1, <5>7
      <4>2. CASE item.type # "EALT"  BY <4>2
      <4>. QED  BY <4>1, <4>2
    <3>. HIDE DEF New
    <3>3. ASSUME NEW h \in Thread
          PROVE  [i \in DOMAIN pb[h] |-> New(pb[h][i])] \in Seq(Item)
      <4>1. /\ DOMAIN pb[h] = 1..Len(pb[h]) /\ Len(pb[h]) \in Nat
            /\ \A i \in 1..Len(pb[h]) : pb[h][i] \in Item
        BY LenProperties, ElementOfSeq DEF TypeInv, TypeOK
      <4>2. [i \in DOMAIN pb[h] |-> New(pb[h][i])] \in [1..Len(pb[h]) -> Item]
        BY <3>2, <4>1
      <4>. QED  BY <4>1, <4>2, SeqDef
    <3>. QED  BY <3>1, <3>3
  <2>6. UNCHANGED <<rtl, threadVars, timeVars, loop_count, eff, total_blocked, ctlVars>>
    BY <2>1
  <2>. QED
    BY <1>1, <2>2, <2>3, <2>4, <2>5, <2>6
    DEF TypeInv, TypeOK, GroupHasParent, BreakLevel, threadVars, timeVars, ctlVars
<1>. QED  BY <1>2, <1>3

-----------------------------------------------------------------------------
(* break, undef and the end of the program.                                *)

LEMMA BreakType == ASSUME TypeInv, do_break PROVE TypeInv'
<1>1. fuel' \in 0..Fuel /\ phase = "running"
  BY CommandFuel DEF TypeInv, do_break
<1>2. CASE Halt("error")  BY <1>1, <1>2, HaltType
<1>3. CASE ~Halt("error")
  <2>1. PICK n \in 0..loop_count[cur] :
          /\ level' = n
          /\ phase' = BreakPhase(n)
          /\ UNCHANGED <<rtl, threadVars, timeVars, stackVars, eff, chanVars, del, undefs>>
    BY <1>3 DEF do_break
  <2>2. level' \in Nat /\ phase' \in Phase /\ BreakLevel'
    BY <2>1 DEF BreakPhase, Phase, BreakLevel
  <2>. QED
    BY <1>1, <2>1, <2>2
    DEF TypeInv, TypeOK, GroupHasParent, SleeperIsThread, IsBlocked,
        threadVars, timeVars, stackVars, chanVars
<1>. QED  BY <1>2, <1>3

LEMMA SkipType == ASSUME TypeInv, skip_token PROVE TypeInv'
<1>1. pb' \in [Thread -> Seq(Item)]  BY PopType DEF TypeInv, skip_token
<1>. QED
  BY <1>1
  DEF TypeInv, TypeOK, GroupHasParent, SleeperIsThread, BreakLevel, IsBlocked,
      skip_token, threadVars, timeVars, chanVars, ctlVars

LEMMA BreakAltType == ASSUME TypeInv, break_alt PROVE TypeInv'
<1>1. cur \in Thread  BY Running DEF TypeInv, break_alt
<1>2. /\ pb' \in [Thread -> Seq(Item)] /\ loop_count' \in [Thread -> Int]
      /\ ws' \in [Channel -> [Thread -> Status]] /\ SleeperIsThread'
  BY <1>1, LeaveAltType DEF break_alt
<1>3. level' \in Nat /\ phase' \in Phase /\ BreakLevel'
  <2>1. level \in Nat /\ level > 0 /\ phase \in Phase
    BY DEF TypeInv, TypeOK, BreakLevel, break_alt
  <2>2. level' = level - 1 /\ phase' = IF level = 1 THEN "running" ELSE phase
    BY DEF break_alt
  <2>. QED  BY <2>1, <2>2 DEF Phase, BreakLevel
<1>. QED
  BY <1>2, <1>3
  DEF TypeInv, TypeOK, GroupHasParent, break_alt, threadVars, timeVars

LEMMA UndefType == ASSUME TypeInv, do_undef PROVE TypeInv'
<1>1. fuel' \in 0..Fuel  BY CommandFuel DEF TypeInv, do_undef
<1>2. CASE Halt("error")  BY <1>1, <1>2, HaltType
<1>3. CASE ~Halt("error")
  <2>1. /\ undefs' \subseteq named
        /\ phase' = "undef"
        /\ UNCHANGED <<rtl, threadVars, timeVars, stackVars, eff, chanVars, del, level>>
    BY <1>3 DEF do_undef
  <2>. QED
    BY <1>1, <2>1
    DEF TypeInv, TypeOK, GroupHasParent, SleeperIsThread, BreakLevel, IsBlocked,
        Phase, threadVars, timeVars, stackVars, chanVars
<1>. QED  BY <1>2, <1>3

LEMMA DictType == ASSUME TypeInv, delete_dict PROVE TypeInv'
<1>1. PICK h \in undefs :
        /\ undefs' = undefs \ {h} /\ named' = named \ {h}
        /\ del' = IF Top(h) = "EOF" THEN h ELSE NoThread
        /\ phase' = IF undefs = {h} THEN "running" ELSE phase
  BY DEF delete_dict
<1>2. del' \in Thread \cup {NoThread} /\ phase' \in Phase /\ BreakLevel'
  BY <1>1 DEF TypeInv, TypeOK, Phase, BreakLevel, delete_dict
<1>. QED
  BY <1>1, <1>2
  DEF TypeInv, TypeOK, GroupHasParent, SleeperIsThread, IsBlocked,
      delete_dict, timeVars, stackVars, chanVars

LEMMA CleanupType ==
  ASSUME TypeInv, begin_cleanup \/ cleanup_idle_threads
  PROVE  TypeInv'
<1>1. del' \in Thread \cup {NoThread}
  BY DEF TypeInv, TypeOK, begin_cleanup, cleanup_idle_threads
<1>2. phase' \in Phase /\ BreakLevel'
  BY DEF TypeInv, TypeOK, Phase, BreakLevel, begin_cleanup, cleanup_idle_threads
<1>3. UNCHANGED <<rtl, threadVars, timeVars, stackVars, eff, chanVars, level, undefs, fuel>>
  BY DEF begin_cleanup, cleanup_idle_threads
<1>. QED
  BY <1>1, <1>2, <1>3
  DEF TypeInv, TypeOK, GroupHasParent, SleeperIsThread, IsBlocked,
      threadVars, timeVars, stackVars, chanVars

LEMMA DeadLockType == ASSUME TypeInv, check_dead_lock PROVE TypeInv'
<1>1. fuel' = fuel /\ phase # "break"  BY DEF check_dead_lock
<1>2. CASE Halt("error")  BY <1>1, <1>2, HaltType DEF TypeInv, TypeOK
<1>3. CASE \E c \in Channel, w \in Thread :
             /\ FirstBlocked(c, w)
             /\ rtl' = <<ws[c][w].sleep_thd>> \o rtl
             /\ total_blocked' = total_blocked - 1
             /\ leave_alt(ws[c][w].sleep_thd)
             /\ UNCHANGED <<threadVars, timeVars, eff, all_chnls, mtop, wtop, ctlVars>>
  <2>1. PICK c \in Channel, w \in Thread :
             /\ FirstBlocked(c, w)
             /\ rtl' = <<ws[c][w].sleep_thd>> \o rtl
             /\ total_blocked' = total_blocked - 1
             /\ leave_alt(ws[c][w].sleep_thd)
             /\ UNCHANGED <<threadVars, timeVars, eff, all_chnls, mtop, wtop, ctlVars>>
    BY <1>3
  <2>. DEFINE h == ws[c][w].sleep_thd
  <2>2. IsBlocked(c, w)  BY <2>1 DEF FirstBlocked
  <2>3. h \in Thread  BY <2>2 DEF TypeInv, SleeperIsThread
  <2>4. leave_alt(h) /\ rtl' = <<h>> \o rtl  BY <2>1
  <2>. HIDE DEF h
  <2>5. /\ pb' \in [Thread -> Seq(Item)] /\ loop_count' \in [Thread -> Int]
        /\ ws' \in [Channel -> [Thread -> Status]] /\ SleeperIsThread'
    BY <2>3, <2>4, LeaveAltType
  <2>6. rtl' \in Seq(Thread)
    <3>1. <<h>> \in Seq(Thread) /\ rtl \in Seq(Thread)  BY <2>3 DEF TypeInv, TypeOK
    <3>. QED  BY <2>4, <3>1, ConcatProperties
  <2>7. total_blocked' \in Int  BY <2>1 DEF TypeInv, TypeOK
  <2>8. UNCHANGED <<threadVars, timeVars, eff, all_chnls, mtop, wtop, ctlVars>>
    BY <2>1
  <2>. QED
    BY <1>1, <2>5, <2>6, <2>7, <2>8
    DEF TypeInv, TypeOK, GroupHasParent, BreakLevel, threadVars, timeVars, ctlVars
<1>4. CASE /\ phase' \in {"running", "done", "crash"}
           /\ UNCHANGED <<rtl, threadVars, timeVars, stackVars, eff, chanVars, del,
                          level, undefs>>
  BY <1>1, <1>4
  DEF TypeInv, TypeOK, GroupHasParent, SleeperIsThread, BreakLevel, IsBlocked,
      Phase, threadVars, timeVars, stackVars, chanVars
<1>. QED  BY <1>2, <1>3, <1>4 DEF check_dead_lock

LEMMA StutterType == ASSUME TypeInv, UNCHANGED vars PROVE TypeInv'
BY DEF TypeInv, TypeOK, GroupHasParent, SleeperIsThread, BreakLevel, IsBlocked,
       vars, threadVars, timeVars, stackVars, chanVars, ctlVars

LEMMA TypeStep == ASSUME TypeInv, [Next]_vars PROVE TypeInv'
<1>1. CASE do_lbrace \/ do_lbracket
  <2>1. rtl # <<>> /\ fuel' \in 0..Fuel
    BY <1>1, CommandFuel DEF TypeInv, do_lbrace, do_lbracket, Command
  <2>2. {} \in SUBSET Flag /\ {"PFLAG"} \in SUBSET Flag  BY DEF Flag
  <2>. QED  BY <1>1, <2>1, <2>2, GroupType DEF do_lbrace, do_lbracket
<1>2. CASE terminated \/ UNCHANGED vars  BY <1>2, StutterType DEF terminated
<1>3. CASE \/ do_defthread \/ do_thread \/ begin_of_named_thread
           \/ end_of_named_thread \/ end_of_block \/ end_of_tokens
           \/ do_pitch \/ do_reg \/ attach_effector \/ do_sync \/ end_sync
  BY <1>3, DefthreadType, ThreadType, BeginNamedType, EndNamedType, EndListType,
     TimeType, AttachType, SyncType
<1>4. CASE \/ do_signal \/ do_wait \/ end_wait \/ do_alt \/ end_alt
           \/ destroy_channel \/ do_eof \/ postpone_delete \/ delete_thread
  BY <1>4, SignalType, WaitType, EndWaitType, AltType, EndAltType, DestroyType,
     EofType, PostponeType, DeleteThreadType
<1>5. CASE \/ do_break \/ skip_token \/ break_alt \/ do_undef \/ delete_dict
           \/ begin_cleanup \/ cleanup_idle_threads \/ check_dead_lock
  BY <1>5, BreakType, SkipType, BreakAltType, UndefType, DictType, CleanupType,
     DeadLockType
<1>. QED  BY <1>1, <1>2, <1>3, <1>4, <1>5 DEF Next

(* The variables always hold values of the C types they stand for, a group *)
(* has a parent to return its time to (do_eof), whoever is blocked can be  *)
(* woken (do_signal, check_dead_lock), and break never counts below zero.  *)
THEOREM TypeInvariant == Spec => []TypeInv
<1>. QED  BY TypeInit, TypeStep, PTL DEF Spec

(* Every variable holds a value of the C type it stands for, in every      *)
(* program and for every set of threads and channels.                      *)
THEOREM TypeCorrect == Spec => []TypeOK
<1>1. TypeInv => TypeOK  BY DEF TypeInv
<1>. QED  BY <1>1, TypeInvariant, PTL

-----------------------------------------------------------------------------
(* What the channels promise: no wake-up is lost, messages stay in time    *)
(* order, and none is received twice.                                      *)
(*                                                                         *)
(* The invariant.  MessageOrder and ReceivedOnce speak of the WaitStatus   *)
(* structures that exist; they are inductive when they hold of every       *)
(* receiver, for which a thread that is not in wtop has received nothing   *)
(* (a deleted thread that is allocated again starts from nothing, because  *)
(* delete_thread removes its WaitStatus from every channel).               *)
Ordered ==
  \A c \in Channel : \A i, j \in 1..Len(mtop[c]) :
    i < j => mtop[c][i].time <= mtop[c][j].time
LastReceived ==
  \A c \in Channel, w \in Thread : ws[c][w].last # 0 =>
    /\ ws[c][w].last \in 1..Len(mtop[c])
    /\ w \in mtop[c][ws[c][w].last].received_by
RestUnreceived ==
  \A c \in Channel, w \in Thread : \A i \in 1..Len(mtop[c]) :
    i > ws[c][w].last => w \notin mtop[c][i].received_by

MessageInv == Ordered /\ LastReceived /\ RestUnreceived
ChannelInv == MessageInv /\ NoLostWakeup

LEMMA ConsElements ==
  ASSUME NEW S, NEW s \in Seq(S), NEW e \in S
  PROVE  ToSet(<<e>> \o s) = {e} \cup ToSet(s)
<1>1. Len(s) \in Nat /\ DOMAIN s = 1..Len(s)  BY LenProperties
<1>2. <<e>> \in Seq(S) /\ Len(<<e>>) = 1 /\ <<e>>[1] = e  OBVIOUS
<1>3. /\ <<e>> \o s \in Seq(S) /\ Len(<<e>> \o s) = Len(s) + 1
      /\ \A i \in 1..(Len(s) + 1) :
           (<<e>> \o s)[i] = IF i <= 1 THEN <<e>>[i] ELSE s[i - 1]
  BY <1>1, <1>2, ConcatProperties
<1>. DEFINE es == <<e>> \o s
<1>4. DOMAIN es = 1..(Len(s) + 1)  BY <1>3, LenProperties
<1>5. es[1] = e /\ \A i \in 2..(Len(s) + 1) : es[i] = s[i - 1]  BY <1>1, <1>2, <1>3
<1>. HIDE DEF es
<1>6. ASSUME NEW i \in DOMAIN es  PROVE es[i] \in {e} \cup ToSet(s)
  <2>1. CASE i = 1  BY <1>5, <2>1
  <2>2. CASE i # 1
    <3>1. i \in 2..(Len(s) + 1) /\ i - 1 \in DOMAIN s  BY <1>1, <1>4, <1>6, <2>2
    <3>. QED  BY <1>5, <3>1 DEF ToSet
  <2>. QED  BY <2>1, <2>2
<1>7. ASSUME NEW i \in DOMAIN s  PROVE s[i] \in ToSet(es)
  <2>1. i + 1 \in 2..(Len(s) + 1) /\ (i + 1) - 1 = i  BY <1>1
  <2>2. i + 1 \in DOMAIN es /\ es[i + 1] = s[i]  BY <1>1, <1>4, <1>5, <2>1
  <2>. QED  BY <2>2 DEF ToSet
<1>8. e \in ToSet(es)  BY <1>1, <1>4, <1>5 DEF ToSet
<1>9. ToSet(es) = {e} \cup ToSet(s)  BY <1>6, <1>7, <1>8 DEF ToSet
<1>. QED  BY <1>9 DEF es

LEMMA UnlinkElements ==
  ASSUME NEW S, NEW s \in Seq(S), NEW e
  PROVE  ToSet(Unlink(s, e)) \subseteq ToSet(s)
<1>1. s \in Seq(ToSet(s))
  <2>1. DOMAIN s = 1..Len(s) /\ Len(s) \in Nat  BY LenProperties
  <2>2. s \in [1..Len(s) -> ToSet(s)]  BY <2>1 DEF ToSet
  <2>. QED  BY <2>1, <2>2, SeqDef
<1>. DEFINE T == ToSet(s)
<1>2. s \in Seq(T)  BY <1>1
<1>. HIDE DEF T
<1>3. Unlink(s, e) \in Seq(T)  BY <1>2, UnlinkSeq
<1>4. ToSet(Unlink(s, e)) \subseteq T  BY <1>3, ElementsInSet
<1>. QED  BY <1>4 DEF T

LEMMA ChannelInit == Init => ChannelInv
<1>. SUFFICES ASSUME Init PROVE ChannelInv  OBVIOUS
<1>1. \A c \in Channel : Len(mtop[c]) = 0 /\ ToSet(wtop[c]) = {}
  BY EmptySeq DEF Init, ToSet
<1>2. \A c \in Channel, w \in Thread : ws[c][w].last = 0  BY DEF Init, NoStatus
<1>3. MessageInv  BY <1>1, <1>2 DEF MessageInv, Ordered, LastReceived, RestUnreceived
<1>4. NoLostWakeup  BY <1>1 DEF NoLostWakeup
<1>. QED  BY <1>3, <1>4 DEF ChannelInv

(* Steps that touch no channel, and steps that touch only the status.      *)
LEMMA StatusFrame ==
  ASSUME MessageInv, mtop' = mtop,
         \A c \in Channel, w \in Thread : ws'[c][w].last = ws[c][w].last
  PROVE  MessageInv'
BY DEF MessageInv, Ordered, LastReceived, RestUnreceived

LEMMA ChannelFrame ==
  ASSUME ChannelInv, UNCHANGED <<mtop, wtop, ws>>
  PROVE  ChannelInv'
BY DEF ChannelInv, MessageInv, Ordered, LastReceived, RestUnreceived, NoLostWakeup,
       IsBlocked, HasNext

-----------------------------------------------------------------------------
(* What do_signal does to the messages and to the receivers.               *)
LEMMA ForgetFields ==
  ASSUME NEW gone \in SUBSET Thread, NEW msgs \in Seq(Message)
  PROVE  /\ Len(Forget(gone, msgs)) = Len(msgs)
         /\ \A i \in 1..Len(msgs) :
              /\ Forget(gone, msgs)[i].time = msgs[i].time
              /\ Forget(gone, msgs)[i].received_by = msgs[i].received_by \ gone
<1>1. /\ Len(Forget(gone, msgs)) = Len(msgs)
      /\ \A i \in 1..Len(msgs) : Forget(gone, msgs)[i] =
           [msgs[i] EXCEPT !.received_by = @ \ gone]
  BY ForgetSeq
<1>2. \A i \in 1..Len(msgs) : msgs[i] \in Message  BY ElementOfSeq
<1>. QED  BY <1>1, <1>2 DEF Message

(* A deleted thread leaves the other receivers as they were.               *)
Forgotten(d, gone) ==
  /\ Len(mtop'[d]) = Len(mtop[d])
  /\ \A i \in 1..Len(mtop[d]) :
       /\ mtop'[d][i].time = mtop[d][i].time
       /\ mtop'[d][i].received_by = mtop[d][i].received_by \ gone

Inserted(c, time, p, gone) ==
  /\ Len(mtop'[c]) = Len(mtop[c]) + 1
  /\ \A i \in 1..(Len(mtop[c]) + 1) :
       /\ mtop'[c][i].time = IF i < p THEN mtop[c][i].time
                             ELSE IF i = p THEN time ELSE mtop[c][i - 1].time
       /\ mtop'[c][i].received_by =
            IF i < p THEN mtop[c][i].received_by \ gone
            ELSE IF i = p THEN {} ELSE mtop[c][i - 1].received_by \ gone

(* The message is at p in c, and every lastmsg is still the same message.  *)
Sent(c, time, p, gone) ==
  /\ InsertsAt(c, time, p)
  /\ Inserted(c, time, p, gone)
  /\ \A d \in Channel \ {c} : Forgotten(d, gone)
  /\ \A d \in Channel, w \in Thread : ws'[d][w].last =
       IF w \in gone THEN 0
       ELSE IF d = c /\ ws[d][w].last >= p THEN ws[d][w].last + 1
       ELSE ws[d][w].last

LEMMA SendEffect ==
  ASSUME TypeInv, NEW c \in Channel, NEW time \in Nat, NEW obj \in BOOLEAN,
         NEW gone \in SUBSET Thread, Send(c, time, obj, gone)
  PROVE  \E p \in 1..(Len(mtop[c]) + 1) : Sent(c, time, p, gone)
<1>. DEFINE msg == [time |-> time, obj |-> obj, received_by |-> {}]
<1>1. PICK p \in 1..(Len(mtop[c]) + 1) :
        /\ InsertsAt(c, time, p)
        /\ mtop' = [d \in Channel |-> Forget(gone,
                      IF d # c THEN mtop[d] ELSE InsertAt(mtop[c], p, msg))]
        /\ ws' = [d \in Channel |-> [w \in Thread |->
                   IF w \in gone THEN NoStatus
                   ELSE LET woken == WokenBy(c, d, w) IN
                        [status |-> IF woken THEN "Executing" ELSE ws[d][w].status,
                         sleep_thd |-> IF woken THEN NoThread ELSE ws[d][w].sleep_thd,
                         last |-> IF d = c /\ ws[d][w].last >= p
                                  THEN ws[d][w].last + 1 ELSE ws[d][w].last]]]
  BY DEF Send
<1>2. \A d \in Channel : mtop[d] \in Seq(Message)  BY DEF TypeInv, TypeOK
<1>3. msg \in Message /\ msg.time = time /\ msg.received_by = {}  BY DEF Message
<1>. HIDE DEF msg
<1>. DEFINE new == InsertAt(mtop[c], p, msg)
            old == mtop[c]
<1>4. /\ new \in Seq(Message) /\ Len(new) = Len(mtop[c]) + 1
      /\ \A i \in 1..(Len(mtop[c]) + 1) : new[i] =
           IF i < p THEN mtop[c][i] ELSE IF i = p THEN msg ELSE mtop[c][i - 1]
  <2>1. old \in Seq(Message) /\ p \in 1..(Len(old) + 1)  BY <1>2
  <2>. HIDE DEF old
  <2>2. /\ InsertAt(old, p, msg) \in Seq(Message)
        /\ Len(InsertAt(old, p, msg)) = Len(old) + 1
        /\ \A i \in 1..(Len(old) + 1) : InsertAt(old, p, msg)[i] =
             IF i < p THEN old[i] ELSE IF i = p THEN msg ELSE old[i - 1]
    BY <1>3, <2>1, InsertAtSeq
  <2>. QED  BY <2>2 DEF old
<1>5. mtop'[c] = Forget(gone, new)  BY <1>1
<1>. HIDE DEF new
<1>6. Inserted(c, time, p, gone)
  <2>1. /\ Len(mtop'[c]) = Len(mtop[c]) + 1
        /\ \A i \in 1..(Len(mtop[c]) + 1) :
             /\ mtop'[c][i].time = new[i].time
             /\ mtop'[c][i].received_by = new[i].received_by \ gone
    <3>1. new \in Seq(Message)  BY <1>4
    <3>2. /\ Len(Forget(gone, new)) = Len(new)
          /\ \A i \in 1..Len(new) :
               /\ Forget(gone, new)[i].time = new[i].time
               /\ Forget(gone, new)[i].received_by = new[i].received_by \ gone
      BY <3>1, ForgetFields
    <3>. QED  BY <1>4, <1>5, <3>2
  <2>. QED  BY <1>3, <1>4, <2>1 DEF Inserted
<1>7. ASSUME NEW d \in Channel \ {c}  PROVE Forgotten(d, gone)
  <2>1. mtop'[d] = Forget(gone, mtop[d])  BY <1>1
  <2>. DEFINE msgs == mtop[d]
  <2>2. msgs \in Seq(Message)  BY <1>2
  <2>. HIDE DEF msgs
  <2>3. /\ Len(Forget(gone, msgs)) = Len(msgs)
        /\ \A i \in 1..Len(msgs) :
             /\ Forget(gone, msgs)[i].time = msgs[i].time
             /\ Forget(gone, msgs)[i].received_by = msgs[i].received_by \ gone
    BY <2>2, ForgetFields
  <2>. QED  BY <2>1, <2>3 DEF Forgotten, msgs
<1>8. ASSUME NEW d \in Channel, NEW w \in Thread
      PROVE  ws'[d][w].last =
               IF w \in gone THEN 0
               ELSE IF d = c /\ ws[d][w].last >= p THEN ws[d][w].last + 1
               ELSE ws[d][w].last
  BY <1>1 DEF NoStatus
<1>9. Sent(c, time, p, gone)  BY <1>1, <1>6, <1>7, <1>8 DEF Sent
<1>. QED  BY <1>9

LEMMA SendMessages ==
  ASSUME TypeInv, MessageInv, NEW c \in Channel, NEW time \in Nat, NEW obj \in BOOLEAN,
         NEW gone \in SUBSET Thread, Send(c, time, obj, gone)
  PROVE  MessageInv'
<1>0. PICK p \in 1..(Len(mtop[c]) + 1) : Sent(c, time, p, gone)  BY SendEffect
<1>1. /\ InsertsAt(c, time, p)
      /\ Inserted(c, time, p, gone)
      /\ \A d \in Channel \ {c} : Forgotten(d, gone)
      /\ \A d \in Channel, w \in Thread : ws'[d][w].last =
           IF w \in gone THEN 0
           ELSE IF d = c /\ ws[d][w].last >= p THEN ws[d][w].last + 1
           ELSE ws[d][w].last
  BY <1>0 DEF Sent
<1>2. \A d \in Channel :
        /\ Len(mtop[d]) \in Nat
        /\ \A i \in 1..Len(mtop[d]) : mtop[d][i].time \in Nat
        /\ \A w \in Thread : ws[d][w].last \in Nat
  <2>1. ASSUME NEW d \in Channel  PROVE /\ Len(mtop[d]) \in Nat
                                        /\ \A i \in 1..Len(mtop[d]) : mtop[d][i].time \in Nat
    <3>1. mtop[d] \in Seq(Message)  BY DEF TypeInv, TypeOK
    <3>2. \A i \in 1..Len(mtop[d]) : mtop[d][i] \in Message  BY <3>1, ElementOfSeq
    <3>. QED  BY <3>1, <3>2, LenProperties DEF Message
  <2>2. \A d \in Channel, w \in Thread : ws[d][w].last \in Nat
    BY DEF TypeInv, TypeOK, Status
  <2>. QED  BY <2>1, <2>2
<1>3. ASSUME NEW d \in Channel, NEW i \in 1..Len(mtop'[d]), NEW j \in 1..Len(mtop'[d]), i < j
      PROVE  mtop'[d][i].time <= mtop'[d][j].time
  <2>1. CASE d # c
    BY <1>1, <1>2, <1>3, <2>1 DEF Forgotten, MessageInv, Ordered
  <2>2. CASE d = c
    <3>1. \A k \in 1..Len(mtop[c]) : IF k < p THEN mtop[c][k].time <= time
                                     ELSE mtop[c][k].time > time
      <4>1. \A k \in 1..(p - 1) : mtop[c][k].time <= time  BY <1>1 DEF InsertsAt
      <4>2. p <= Len(mtop[c]) => mtop[c][p].time > time  BY <1>1 DEF InsertsAt
      <4>3. \A k \in 1..Len(mtop[c]) : p < k => mtop[c][p].time <= mtop[c][k].time
        BY <1>2 DEF MessageInv, Ordered
      <4>. QED  BY <1>2, <4>1, <4>2, <4>3, SMTT(30)
    <3>2. \A k, l \in 1..Len(mtop[c]) : k < l => mtop[c][k].time <= mtop[c][l].time
      BY DEF MessageInv, Ordered
    <3>3. /\ i \in 1..(Len(mtop[c]) + 1) /\ j \in 1..(Len(mtop[c]) + 1)
          /\ \A k \in 1..(Len(mtop[c]) + 1) : mtop'[c][k].time =
               IF k < p THEN mtop[c][k].time ELSE IF k = p THEN time ELSE mtop[c][k - 1].time
      BY <1>1, <2>2 DEF Inserted
    <3>4. CASE j < p  BY <1>2, <1>3, <2>2, <3>2, <3>3, <3>4, SMTT(30)
    <3>5. CASE j = p  BY <1>2, <1>3, <2>2, <3>1, <3>3, <3>5, SMTT(30)
    <3>6. CASE j > p
      <4>1. j - 1 \in 1..Len(mtop[c]) /\ mtop'[c][j].time = mtop[c][j - 1].time
            /\ mtop[c][j - 1].time > time /\ mtop[c][j - 1].time \in Nat
        BY <1>2, <3>1, <3>3, <3>6, SMTT(30)
      <4>2. CASE i < p
        <5>1. mtop'[c][i].time = mtop[c][i].time /\ mtop[c][i].time <= time
              /\ mtop[c][i].time \in Nat
          BY <1>2, <3>1, <3>3, <4>2
        <5>. QED  BY <2>2, <4>1, <5>1, SMTT(30)
      <4>3. CASE i = p  BY <2>2, <3>3, <4>1, <4>3
      <4>4. CASE i > p
        <5>1. i - 1 \in 1..Len(mtop[c]) /\ i - 1 < j - 1
              /\ mtop'[c][i].time = mtop[c][i - 1].time
          BY <1>2, <1>3, <3>3, <4>4
        <5>. QED  BY <2>2, <3>2, <4>1, <5>1
      <4>. QED  BY <3>3, <4>2, <4>3, <4>4
    <3>. QED  BY <3>3, <3>4, <3>5, <3>6
  <2>. QED  BY <2>1, <2>2
<1>4. ASSUME NEW d \in Channel, NEW w \in Thread, ws'[d][w].last # 0
      PROVE  /\ ws'[d][w].last \in 1..Len(mtop'[d])
             /\ w \in mtop'[d][ws'[d][w].last].received_by
  <2>1. w \notin gone /\ ws[d][w].last # 0  BY <1>1, <1>2, <1>4
  <2>2. /\ ws[d][w].last \in 1..Len(mtop[d])
        /\ w \in mtop[d][ws[d][w].last].received_by
    BY <2>1 DEF MessageInv, LastReceived
  <2>. DEFINE n == ws[d][w].last
  <2>3. CASE d # c  BY <1>1, <1>2, <2>1, <2>2, <2>3 DEF Forgotten
  <2>4. CASE d = c
    <3>1. /\ Len(mtop'[c]) = Len(mtop[c]) + 1
          /\ \A i \in 1..(Len(mtop[c]) + 1) : mtop'[c][i].received_by =
               IF i < p THEN mtop[c][i].received_by \ gone
               ELSE IF i = p THEN {} ELSE mtop[c][i - 1].received_by \ gone
      BY <1>1 DEF Inserted
    <3>2. n \in 1..Len(mtop[c]) /\ w \in mtop[c][n].received_by \ gone
      BY <2>1, <2>2, <2>4
    <3>3. ws'[d][w].last = IF n >= p THEN n + 1 ELSE n  BY <1>1, <2>1, <2>4
    <3>. HIDE DEF n
    <3>4. CASE n >= p
      <4>1. n + 1 \in 1..(Len(mtop[c]) + 1) /\ ~(n + 1 < p) /\ n + 1 # p /\ (n + 1) - 1 = n
        BY <1>2, <3>2, <3>4
      <4>2. mtop'[c][n + 1].received_by = mtop[c][n].received_by \ gone
        BY <3>1, <4>1
      <4>. QED  BY <2>4, <3>1, <3>2, <3>3, <3>4, <4>1, <4>2
    <3>5. CASE ~(n >= p)
      <4>1. n \in 1..(Len(mtop[c]) + 1) /\ n < p  BY <1>2, <3>2, <3>5
      <4>2. mtop'[c][n].received_by = mtop[c][n].received_by \ gone  BY <3>1, <4>1
      <4>. QED  BY <2>4, <3>1, <3>2, <3>3, <3>5, <4>1, <4>2
    <3>. QED  BY <3>4, <3>5
  <2>. QED  BY <2>3, <2>4
<1>5. ASSUME NEW d \in Channel, NEW w \in Thread, NEW i \in 1..Len(mtop'[d]),
             i > ws'[d][w].last
      PROVE  w \notin mtop'[d][i].received_by
  <2>1. \A k \in 1..Len(mtop[d]) : k > ws[d][w].last => w \notin mtop[d][k].received_by
    BY DEF MessageInv, RestUnreceived
  <2>. DEFINE n == ws[d][w].last
  <2>2. CASE d # c
    <3>1. i \in 1..Len(mtop[d]) /\ mtop'[d][i].received_by = mtop[d][i].received_by \ gone
      BY <1>1, <2>2 DEF Forgotten
    <3>2. w \in gone \/ ws'[d][w].last = n  BY <1>1, <2>2
    <3>3. w \in gone \/ w \notin mtop[d][i].received_by  BY <1>5, <2>1, <3>1, <3>2
    <3>. QED  BY <3>1, <3>3
  <2>3. CASE d = c
    <3>1. /\ i \in 1..(Len(mtop[c]) + 1)
          /\ mtop'[c][i].received_by =
               IF i < p THEN mtop[c][i].received_by \ gone
               ELSE IF i = p THEN {} ELSE mtop[c][i - 1].received_by \ gone
      BY <1>1, <2>3 DEF Inserted
    <3>2. w \in gone \/ ws'[d][w].last = IF n >= p THEN n + 1 ELSE n
      BY <1>1, <2>3
    <3>3. n \in Nat  BY <1>2
    <3>4. \A k \in 1..Len(mtop[c]) : k > n => w \notin mtop[c][k].received_by
      BY <2>1, <2>3
    <3>. HIDE DEF n
    <3>5. CASE i < p
      <4>1. i \in 1..Len(mtop[c])  BY <1>2, <3>1, <3>5
      <4>2. w \in gone \/ i > n  BY <1>5, <3>1, <3>2, <3>3, <3>5
      <4>. QED  BY <2>3, <3>1, <3>4, <3>5, <4>1, <4>2
    <3>6. CASE i = p  BY <2>3, <3>1, <3>6
    <3>7. CASE i > p
      <4>1. i - 1 \in 1..Len(mtop[c])  BY <1>2, <3>1, <3>7
      <4>2. w \in gone \/ i - 1 > n  BY <1>5, <3>1, <3>2, <3>3, <3>7
      <4>3. mtop'[c][i].received_by = mtop[c][i - 1].received_by \ gone
        BY <3>1, <3>7
      <4>. QED  BY <2>3, <3>4, <4>1, <4>2, <4>3
    <3>. QED  BY <3>1, <3>5, <3>6, <3>7
  <2>. QED  BY <2>2, <2>3
<1>6. Ordered'  BY <1>3 DEF Ordered
<1>7. LastReceived'  BY <1>4 DEF LastReceived
<1>8. RestUnreceived'  BY <1>5 DEF RestUnreceived
<1>. QED  BY <1>6, <1>7, <1>8 DEF MessageInv

(* Whoever a signal does not wake sleeps on other channels only.           *)
LEMMA SendWakes ==
  ASSUME TypeInv, NoLostWakeup, NEW c \in Channel, NEW time \in Nat, NEW obj \in BOOLEAN,
         NEW gone \in SUBSET Thread, Send(c, time, obj, gone),
         \A d \in Channel : ToSet(wtop'[d]) \subseteq ToSet(wtop[d])
  PROVE  NoLostWakeup'
<1>0. PICK p \in 1..(Len(mtop[c]) + 1) : Sent(c, time, p, gone)  BY SendEffect
<1>1. /\ InsertsAt(c, time, p)
      /\ Inserted(c, time, p, gone)
      /\ \A d \in Channel \ {c} : Forgotten(d, gone)
      /\ \A d \in Channel, w \in Thread : ws'[d][w].last =
           IF w \in gone THEN 0
           ELSE IF d = c /\ ws[d][w].last >= p THEN ws[d][w].last + 1
           ELSE ws[d][w].last
  BY <1>0 DEF Sent
<1>2. \A d \in Channel, w \in Thread : ws'[d][w].status =
        IF w \in gone THEN "Idle"
        ELSE IF WokenBy(c, d, w) THEN "Executing" ELSE ws[d][w].status
  BY DEF Send, NoStatus
<1>3. ASSUME NEW d \in Channel, NEW w \in ToSet(wtop'[d]), IsBlocked(d, w)'
      PROVE  ~HasNext(d, w)'
  <2>1. w \in ToSet(wtop[d]) /\ w \in Thread
    <3>1. wtop[d] \in Seq(Thread)  BY DEF TypeInv, TypeOK
    <3>. QED  BY <3>1, ElementsInSet
  <2>2. w \notin gone /\ ~WokenBy(c, d, w) /\ IsBlocked(d, w)
    BY <1>2, <1>3, <2>1 DEF IsBlocked
  <2>3. d # c  BY <2>1, <2>2 DEF WokenBy, HasStatus
  <2>4. ~HasNext(d, w)  BY <2>1, <2>2 DEF NoLostWakeup
  <2>. QED  BY <1>1, <2>1, <2>2, <2>3, <2>4 DEF Forgotten, HasNext
<1>. QED  BY <1>3 DEF NoLostWakeup

LEMMA SendChannel ==
  ASSUME TypeInv, ChannelInv, NEW c \in Channel, NEW time \in Nat, NEW obj \in BOOLEAN,
         NEW gone \in SUBSET Thread, Send(c, time, obj, gone),
         \A d \in Channel : ToSet(wtop'[d]) \subseteq ToSet(wtop[d])
  PROVE  ChannelInv'
BY SendMessages, SendWakes DEF ChannelInv

-----------------------------------------------------------------------------
(* Receiving a message.                                                    *)
LEMMA ReceiveEffect ==
  ASSUME TypeInv, NEW c \in Channel, NEW w \in Thread, HasNext(c, w), NEW status,
         Receive(c, w, status)
  PROVE  LET n == ws[c][w].last + 1 IN
         /\ n \in 1..Len(mtop[c])
         /\ \A d \in Channel :
              /\ Len(mtop'[d]) = Len(mtop[d])
              /\ \A i \in 1..Len(mtop[d]) :
                   /\ mtop'[d][i].time = mtop[d][i].time
                   /\ mtop'[d][i].received_by = mtop[d][i].received_by \cup
                        (IF d = c /\ i = n THEN {w} ELSE {})
         /\ \A d \in Channel, v \in Thread :
              IF d = c /\ v = w THEN ws'[d][v].last = n /\ ws'[d][v].status = status
              ELSE ws'[d][v] = ws[d][v]
<1>. DEFINE n == ws[c][w].last + 1
            msg == Marked(Next_(c, w), w)
            st == Received(ws[c][w], status)
<1>1. n \in 1..Len(mtop[c]) /\ Next_(c, w) = mtop[c][n] /\ Next_(c, w) \in Message
  BY NextMessage DEF TypeInv
<1>2. mtop' = [mtop EXCEPT ![c] = [mtop[c] EXCEPT ![n] = msg]]  BY DEF Receive, Take
<1>3. ws' = [ws EXCEPT ![c][w] = st]  BY DEF Receive
<1>4. msg \in Message /\ msg.time = mtop[c][n].time
      /\ msg.received_by = mtop[c][n].received_by \cup {w}
  BY <1>1 DEF Message, Marked
<1>5. st.last = n /\ st.status = status
  <2>1. ws[c][w] \in Status  BY DEF TypeInv, TypeOK
  <2>. QED  BY <2>1 DEF Status, Received
<1>. HIDE DEF n, msg, st
<1>6. ASSUME NEW d \in Channel, NEW v \in Thread
      PROVE  IF d = c /\ v = w THEN ws'[d][v] = st ELSE ws'[d][v] = ws[d][v]
  BY <1>3 DEF TypeInv, TypeOK
<1>7. ASSUME NEW d \in Channel
      PROVE  /\ Len(mtop'[d]) = Len(mtop[d])
             /\ \A i \in 1..Len(mtop[d]) :
                  mtop'[d][i] = IF d = c /\ i = n THEN msg ELSE mtop[d][i]
  <2>1. mtop[d] \in Seq(Message) /\ mtop \in [Channel -> Seq(Message)]
    BY DEF TypeInv, TypeOK
  <2>2. CASE d # c  BY <1>2, <2>1, <2>2
  <2>3. CASE d = c
    <3>. DEFINE msgs == mtop[c]
    <3>1. msgs \in Seq(Message) /\ n \in 1..Len(msgs)  BY <1>1, <2>1, <2>3
    <3>2. mtop'[c] = [msgs EXCEPT ![n] = msg]  BY <1>2, <2>1
    <3>. HIDE DEF msgs
    <3>3. /\ Len([msgs EXCEPT ![n] = msg]) = Len(msgs)
          /\ \A i \in 1..Len(msgs) :
               [msgs EXCEPT ![n] = msg][i] = IF i = n THEN msg ELSE msgs[i]
      BY <1>4, <3>1, ExceptSeq
    <3>. QED  BY <2>3, <3>2, <3>3 DEF msgs
  <2>. QED  BY <2>2, <2>3
<1>8. ASSUME NEW d \in Channel, NEW i \in 1..Len(mtop[d])
      PROVE  /\ mtop'[d][i].time = mtop[d][i].time
             /\ mtop'[d][i].received_by = mtop[d][i].received_by \cup
                  (IF d = c /\ i = n THEN {w} ELSE {})
  <2>1. CASE d = c /\ i = n  BY <1>4, <1>7, <2>1
  <2>2. CASE ~(d = c /\ i = n)  BY <1>7, <2>2
  <2>. QED  BY <2>1, <2>2
<1>. QED  BY <1>1, <1>5, <1>6, <1>7, <1>8 DEF n

LEMMA ReceiveChannel ==
  ASSUME TypeInv, ChannelInv, NEW c \in Channel, NEW w \in Thread, HasNext(c, w),
         NEW status, Receive(c, w, status), wtop' = wtop,
         status \in {"Idle", ws[c][w].status}
  PROVE  ChannelInv'
<1>. DEFINE n == ws[c][w].last + 1
<1>1. /\ n \in 1..Len(mtop[c])
      /\ \A d \in Channel :
           /\ Len(mtop'[d]) = Len(mtop[d])
           /\ \A i \in 1..Len(mtop[d]) :
                /\ mtop'[d][i].time = mtop[d][i].time
                /\ mtop'[d][i].received_by = mtop[d][i].received_by \cup
                     (IF d = c /\ i = n THEN {w} ELSE {})
      /\ \A d \in Channel, v \in Thread :
           IF d = c /\ v = w THEN ws'[d][v].last = n /\ ws'[d][v].status = status
           ELSE ws'[d][v] = ws[d][v]
  BY ReceiveEffect
<1>2. \A d \in Channel : Len(mtop[d]) \in Nat /\ \A v \in Thread : ws[d][v].last \in Nat
  <2>1. \A d \in Channel : Len(mtop[d]) \in Nat
    BY LenProperties DEF TypeInv, TypeOK
  <2>2. \A d \in Channel, v \in Thread : ws[d][v].last \in Nat
    BY DEF TypeInv, TypeOK, Status
  <2>. QED  BY <2>1, <2>2
<1>3. ws[c][w].last = n - 1  BY <1>2
<1>4. n \in Nat  BY <1>2
<1>. HIDE DEF n
<1>5. Ordered'  BY <1>1 DEF ChannelInv, MessageInv, Ordered
<1>6. ASSUME NEW d \in Channel, NEW v \in Thread, ws'[d][v].last # 0
      PROVE  /\ ws'[d][v].last \in 1..Len(mtop'[d])
             /\ v \in mtop'[d][ws'[d][v].last].received_by
  <2>1. CASE d = c /\ v = w  BY <1>1, <2>1
  <2>2. CASE ~(d = c /\ v = w)
    <3>1. ws'[d][v] = ws[d][v]  BY <1>1, <2>2
    <3>2. ws[d][v].last \in 1..Len(mtop[d]) /\ v \in mtop[d][ws[d][v].last].received_by
      BY <1>6, <3>1 DEF ChannelInv, MessageInv, LastReceived
    <3>. QED  BY <1>1, <3>1, <3>2
  <2>. QED  BY <2>1, <2>2
<1>7. ASSUME NEW d \in Channel, NEW v \in Thread, NEW i \in 1..Len(mtop'[d]),
             i > ws'[d][v].last
      PROVE  v \notin mtop'[d][i].received_by
  <2>1. i \in 1..Len(mtop[d]) /\ i > ws[d][v].last /\ (d = c /\ i = n => v # w)
    <3>1. CASE d = c /\ v = w  BY <1>1, <1>2, <1>3, <1>4, <1>7, <3>1
    <3>2. CASE ~(d = c /\ v = w)  BY <1>1, <1>7, <3>2
    <3>. QED  BY <3>1, <3>2
  <2>2. v \notin mtop[d][i].received_by
    BY <2>1 DEF ChannelInv, MessageInv, RestUnreceived
  <2>. QED  BY <1>1, <2>1, <2>2
<1>8. ASSUME NEW d \in Channel, NEW v \in ToSet(wtop'[d]), IsBlocked(d, v)'
      PROVE  ~HasNext(d, v)'
  <2>1. v \in ToSet(wtop[d]) /\ v \in Thread
    <3>1. wtop[d] \in Seq(Thread)  BY DEF TypeInv, TypeOK
    <3>. QED  BY <3>1, ElementsInSet
  <2>2. IsBlocked(d, v)  BY <1>1, <1>8, <2>1 DEF IsBlocked
  <2>3. ~HasNext(d, v)  BY <2>1, <2>2 DEF ChannelInv, NoLostWakeup
  <2>4. ~(d = c /\ v = w)  BY <2>3
  <2>. QED  BY <1>1, <2>1, <2>3, <2>4 DEF HasNext
<1>9. MessageInv'
  BY <1>5, <1>6, <1>7 DEF MessageInv, LastReceived, RestUnreceived
<1>. QED  BY <1>8, <1>9 DEF ChannelInv, NoLostWakeup

-----------------------------------------------------------------------------
(* The steps that touch a channel.                                         *)

LEMMA SignalChannel == ASSUME TypeInv, ChannelInv, do_signal PROVE ChannelInv'
<1>1. cur \in Thread  BY CommandFuel DEF TypeInv, do_signal
<1>2. PICK c \in Channel, obj \in Loaded : Send(c, reg_t[cur], obj, {})
  BY DEF do_signal
<1>3. reg_t[cur] \in Nat /\ obj \in BOOLEAN /\ {} \in SUBSET Thread
  <2>1. Loaded \subseteq BOOLEAN  BY ProgramAssumption
  <2>2. reg_t[cur] \in Nat  BY <1>1 DEF TypeInv, TypeOK
  <2>. QED  BY <2>1, <2>2, Zenon
<1>4. wtop' = wtop  BY DEF do_signal
<1>. QED  BY <1>2, <1>3, <1>4, SendChannel

(* A receiver that goes to sleep has looked for a message before.          *)
LEMMA StatusChannel ==
  ASSUME TypeInv, ChannelInv, mtop' = mtop,
         \A c \in Channel, w \in Thread : ws'[c][w].last = ws[c][w].last,
         \A c \in Channel, w \in Thread : w \in ToSet(wtop'[c]) /\ IsBlocked(c, w)' =>
           ~HasNext(c, w) \/ (w \in ToSet(wtop[c]) /\ IsBlocked(c, w)),
         wtop' \in [Channel -> Seq(Thread)]
  PROVE  ChannelInv'
<1>1. MessageInv'  BY StatusFrame DEF ChannelInv
<1>2. ASSUME NEW c \in Channel, NEW w \in ToSet(wtop'[c]), IsBlocked(c, w)'
      PROVE  ~HasNext(c, w)'
  <2>1. w \in Thread
    <3>1. wtop'[c] \in Seq(Thread)  OBVIOUS
    <3>. QED  BY <3>1, ElementsInSet
  <2>2. ~HasNext(c, w)  BY <1>2, <2>1 DEF ChannelInv, NoLostWakeup
  <2>. QED  BY <2>1, <2>2 DEF HasNext
<1>. QED  BY <1>1, <1>2 DEF ChannelInv, NoLostWakeup

LEMMA WaitChannel == ASSUME TypeInv, TypeInv', ChannelInv, do_wait PROVE ChannelInv'
<1>1. CASE Halt("crash")  BY <1>1, ChannelFrame DEF Halt, chanVars
<1>2. CASE ~Halt("crash")
  <2>1. PICK c \in Channel, w \in Thread :
          /\ wtop' = IF HasStatus(c, w) THEN wtop ELSE [wtop EXCEPT ![c] = <<w>> \o @]
          /\ \/ ws' = [ws EXCEPT ![c][w] = [@ EXCEPT !.status = "Executing"]]
             \/ /\ ~HasNext(c, w)
                /\ ws' = [ws EXCEPT ![c][w] = [@ EXCEPT !.status = "WaitBlocked",
                                                        !.sleep_thd = cur]]
          /\ mtop' = mtop
    BY <1>2, Zenon DEF do_wait
  <2>2. ASSUME NEW d \in Channel, NEW v \in Thread
        PROVE  /\ ws'[d][v].last = ws[d][v].last
               /\ ~(d = c /\ v = w) => ws'[d][v] = ws[d][v]
               /\ d = c /\ v = w => ws'[d][v].status = "Executing" \/ ~HasNext(c, w)
    <3>0. ws \in [Channel -> [Thread -> Status]]  BY DEF TypeInv, TypeOK
    <3>1. ws[c][w] \in Status  BY <3>0
    <3>2. CASE ws' = [ws EXCEPT ![c][w] = [@ EXCEPT !.status = "Executing"]]
      BY <3>0, <3>1, <3>2 DEF Status
    <3>3. CASE /\ ~HasNext(c, w)
               /\ ws' = [ws EXCEPT ![c][w] = [@ EXCEPT !.status = "WaitBlocked",
                                                       !.sleep_thd = cur]]
      BY <3>0, <3>1, <3>3 DEF Status
    <3>. QED  BY <2>1, <3>2, <3>3
  <2>3. ASSUME NEW d \in Channel, NEW v \in Thread,
               v \in ToSet(wtop'[d]), IsBlocked(d, v)'
        PROVE  ~HasNext(d, v) \/ (v \in ToSet(wtop[d]) /\ IsBlocked(d, v))
    <3>1. CASE d = c /\ v = w  BY <2>2, <2>3, <3>1 DEF IsBlocked
    <3>2. CASE ~(d = c /\ v = w)
      <4>1. IsBlocked(d, v)  BY <2>2, <2>3, <3>2 DEF IsBlocked
      <4>2. v \in ToSet(wtop[d])
        <5>1. wtop[c] \in Seq(Thread) /\ wtop \in [Channel -> Seq(Thread)]
          BY DEF TypeInv, TypeOK
        <5>2. wtop'[d] = wtop[d] \/ (d = c /\ wtop'[d] = <<w>> \o wtop[c])
          BY <2>1, <5>1
        <5>3. ToSet(<<w>> \o wtop[c]) = {w} \cup ToSet(wtop[c])
          BY <5>1, ConsElements
        <5>. QED  BY <2>3, <3>2, <5>2, <5>3
      <4>. QED  BY <4>1, <4>2
    <3>. QED  BY <3>1, <3>2
  <2>4. wtop' \in [Channel -> Seq(Thread)]  BY DEF TypeInv, TypeOK
  <2>. QED  BY <2>1, <2>2, <2>3, <2>4, StatusChannel
<1>. QED  BY <1>1, <1>2

LEMMA EndWaitChannel == ASSUME TypeInv, ChannelInv, end_wait PROVE ChannelInv'
<1>1. cur \in Thread /\ Top(cur) = "EWAIT"
  BY TokenCur DEF TypeInv, end_wait, Token
<1>2. Head(pb[cur]) \in Item /\ Head(pb[cur]).type = "EWAIT"
  BY <1>1, TopItem DEF TypeInv
<1>. DEFINE c == Head(pb[cur]).chnl
            w == Head(pb[cur]).wait_thd
<1>3. c \in Channel /\ w \in Thread  BY <1>2 DEF Item
<1>4. CASE \E how \in {"error", "crash"} : Halt(how)
  BY <1>4, ChannelFrame DEF Halt, chanVars
<1>5. CASE ~\E how \in {"error", "crash"} : Halt(how)
  <2>1. HasNext(c, w) /\ Receive(c, w, "Idle") /\ wtop' = wtop
    BY <1>5 DEF end_wait
  <2>. HIDE DEF c, w
  <2>. QED  BY <1>3, <2>1, ReceiveChannel
<1>. QED  BY <1>4, <1>5

(* The same for every guard of an alt.                                     *)
LEMMA GuardsEffect ==
  ASSUME TypeInv, NEW gs, NEW u, NEW status, NEW sleeper,
         ws' = SetGuards(gs, u, status, sleeper)
  PROVE  \A d \in Channel, v \in Thread :
           /\ ws'[d][v].last = ws[d][v].last
           /\ IF v = u /\ \E i \in DOMAIN gs : gs[i].chnl = d
              THEN ws'[d][v].status = status ELSE ws'[d][v].status = ws[d][v].status
<1>1. ASSUME NEW d \in Channel, NEW v \in Thread
      PROVE  /\ ws'[d][v].last = ws[d][v].last
             /\ IF v = u /\ \E i \in DOMAIN gs : gs[i].chnl = d
                THEN ws'[d][v].status = status ELSE ws'[d][v].status = ws[d][v].status
  <2>1. ws[d][v] \in Status  BY DEF TypeInv, TypeOK
  <2>. QED  BY <2>1 DEF SetGuards, Status
<1>. QED  BY <1>1

LEMMA GuardsChannel ==
  ASSUME TypeInv, TypeInv', ChannelInv, NEW gs, NEW u, NEW status, NEW sleeper,
         ws' = SetGuards(gs, u, status, sleeper), mtop' = mtop,
         status \in {"Idle", "Executing"} \/ ~MessageReady(gs, u),
         \A d \in Channel, v \in Thread : v \in ToSet(wtop'[d]) =>
           v \in ToSet(wtop[d]) \/ (v = u /\ \E i \in DOMAIN gs : gs[i].chnl = d)
  PROVE  ChannelInv'
<1>1. \A d \in Channel, v \in Thread :
        /\ ws'[d][v].last = ws[d][v].last
        /\ IF v = u /\ \E i \in DOMAIN gs : gs[i].chnl = d
           THEN ws'[d][v].status = status ELSE ws'[d][v].status = ws[d][v].status
  BY GuardsEffect
<1>2. ASSUME NEW d \in Channel, NEW v \in Thread,
             v \in ToSet(wtop'[d]), IsBlocked(d, v)'
      PROVE  ~HasNext(d, v) \/ (v \in ToSet(wtop[d]) /\ IsBlocked(d, v))
  <2>1. CASE v = u /\ \E i \in DOMAIN gs : gs[i].chnl = d
    BY <1>1, <1>2, <2>1 DEF IsBlocked, MessageReady
  <2>2. CASE ~(v = u /\ \E i \in DOMAIN gs : gs[i].chnl = d)
    BY <1>1, <1>2, <2>2 DEF IsBlocked
  <2>. QED  BY <2>1, <2>2
<1>3. wtop' \in [Channel -> Seq(Thread)]  BY DEF TypeInv, TypeOK
<1>. QED  BY <1>1, <1>2, <1>3, StatusChannel

LEMMA AltChannel == ASSUME TypeInv, TypeInv', ChannelInv, do_alt PROVE ChannelInv'
<1>1. CASE Halt("crash")  BY <1>1, ChannelFrame DEF Halt, chanVars
<1>2. CASE ~Halt("crash")
  <2>1. PICK gs \in AltGuards, w \in Thread, d \in Default :
          /\ wtop' = [c \in Channel |->
                       IF c \in ToSet([i \in DOMAIN gs |-> gs[i].chnl]) /\ ~HasStatus(c, w)
                       THEN <<w>> \o wtop[c] ELSE wtop[c]]
          /\ \/ ws' = SetGuards(gs, w, "Executing", NoThread)
             \/ ~MessageReady(gs, w) /\ Block(gs, w)
          /\ mtop' = mtop
    BY <1>2, ZenonT(30) DEF do_alt
  <2>2. PICK status, sleeper :
          /\ ws' = SetGuards(gs, w, status, sleeper)
          /\ status \in {"Idle", "Executing"} \/ ~MessageReady(gs, w)
    BY <2>1 DEF Block
  <2>3. ASSUME NEW c \in Channel, NEW v \in Thread, v \in ToSet(wtop'[c])
        PROVE  v \in ToSet(wtop[c]) \/ (v = w /\ \E i \in DOMAIN gs : gs[i].chnl = c)
    <3>. DEFINE chnls == [i \in DOMAIN gs |-> gs[i].chnl]
    <3>1. wtop'[c] = wtop[c] \/ (c \in ToSet(chnls) /\ wtop'[c] = <<w>> \o wtop[c])
      BY <2>1
    <3>2. c \in ToSet(chnls) => \E i \in DOMAIN gs : gs[i].chnl = c  BY DEF ToSet
    <3>3. wtop[c] \in Seq(Thread)  BY DEF TypeInv, TypeOK
    <3>4. ToSet(<<w>> \o wtop[c]) = {w} \cup ToSet(wtop[c])  BY <3>3, ConsElements
    <3>. HIDE DEF chnls
    <3>. QED  BY <2>3, <3>1, <3>2, <3>4
  <2>. QED  BY <2>1, <2>2, <2>3, GuardsChannel
<1>. QED  BY <1>1, <1>2

LEMMA EndAltChannel == ASSUME TypeInv, TypeInv', ChannelInv, end_alt PROVE ChannelInv'
<1>1. cur \in Thread /\ Top(cur) = "EALT"
  BY TokenCur DEF TypeInv, end_alt, Token
<1>2. Head(pb[cur]) \in Item /\ Head(pb[cur]).type = "EALT"
  BY <1>1, TopItem DEF TypeInv
<1>. DEFINE gs == Head(pb[cur]).guards
            w == Head(pb[cur]).wait_thd
<1>3. w \in Thread /\ gs \in Seq([chnl : Channel \cup {Freed}, bind : BOOLEAN])
  BY <1>2 DEF Item
<1>4. CASE \E how \in {"error", "crash"} : Halt(how)
  BY <1>4, ChannelFrame DEF Halt, chanVars
<1>5. CASE ~\E how \in {"error", "crash"} : Halt(how)
  <2>1. /\ Freed \notin GuardChannels(Head(pb[cur]))
        /\ \/ \E i \in DOMAIN gs :
                /\ IsEarliest(gs, w, i)
                /\ Receive(gs[i].chnl, w, ws[gs[i].chnl][w].status)
                /\ wtop' = wtop
           \/ UNCHANGED chanVars
           \/ ~MessageReady(gs, w) /\ Block(gs, w) /\ wtop' = wtop /\ mtop' = mtop
    BY <1>5, Zenon DEF end_alt
  <2>2. \A i \in DOMAIN gs : gs[i].chnl \in Channel
    <3>1. ASSUME NEW i \in DOMAIN gs  PROVE gs[i].chnl \in Channel
      <4>1. gs[i] \in [chnl : Channel \cup {Freed}, bind : BOOLEAN]
        BY <1>3, ElementOfSeq, LenProperties
      <4>2. gs[i].chnl # Freed  BY <2>1 DEF GuardChannels
      <4>. QED  BY <4>1, <4>2
    <3>. QED  BY <3>1
  <2>. HIDE DEF gs, w
  <2>3. CASE \E i \in DOMAIN gs :
                /\ IsEarliest(gs, w, i)
                /\ Receive(gs[i].chnl, w, ws[gs[i].chnl][w].status)
                /\ wtop' = wtop
    <3>1. PICK i \in DOMAIN gs :
                /\ IsEarliest(gs, w, i)
                /\ Receive(gs[i].chnl, w, ws[gs[i].chnl][w].status)
                /\ wtop' = wtop
      BY <2>3
    <3>. DEFINE c == gs[i].chnl
                status == ws[c][w].status
    <3>2. HasNext(c, w) /\ Receive(c, w, status) /\ c \in Channel
          /\ status \in {"Idle", ws[c][w].status} /\ wtop' = wtop
      BY <2>2, <3>1 DEF IsEarliest
    <3>. HIDE DEF c, status
    <3>. QED  BY <1>3, <3>2, ReceiveChannel
  <2>4. CASE UNCHANGED chanVars  BY <2>4, ChannelFrame DEF chanVars
  <2>5. CASE ~MessageReady(gs, w) /\ Block(gs, w) /\ wtop' = wtop /\ mtop' = mtop
    <3>1. ws' = SetGuards(gs, w, "AltBlocked", cur)  BY <2>5 DEF Block
    <3>2. \A d \in Channel, v \in Thread : v \in ToSet(wtop'[d]) => v \in ToSet(wtop[d])
      BY <2>5
    <3>. QED  BY <2>5, <3>1, <3>2, GuardsChannel
  <2>. QED  BY <2>1, <2>3, <2>4, <2>5
<1>. QED  BY <1>4, <1>5

LEMMA LeaveAltChannel ==
  ASSUME TypeInv, TypeInv', ChannelInv, NEW h, leave_alt(h), UNCHANGED <<mtop, wtop>>
  PROVE  ChannelInv'
<1>1. ws' = SetGuards(Head(pb[h]).guards, Head(pb[h]).wait_thd, "Idle", NoThread)
  BY DEF leave_alt
<1>2. \A d \in Channel, v \in Thread : v \in ToSet(wtop'[d]) => v \in ToSet(wtop[d])
  OBVIOUS
<1>. QED  BY <1>1, <1>2, GuardsChannel

LEMMA DeadLockChannel ==
  ASSUME TypeInv, TypeInv', ChannelInv, check_dead_lock
  PROVE  ChannelInv'
<1>1. CASE UNCHANGED <<mtop, wtop, ws>>  BY <1>1, ChannelFrame
<1>2. CASE \E c \in Channel, w \in Thread :
             leave_alt(ws[c][w].sleep_thd) /\ UNCHANGED <<mtop, wtop>>
  BY <1>2, LeaveAltChannel
<1>. QED  BY <1>1, <1>2 DEF check_dead_lock, Halt, chanVars

LEMMA DestroyChannel == ASSUME TypeInv, ChannelInv, destroy_channel PROVE ChannelInv'
<1>1. CASE Halt("error")  BY <1>1, ChannelFrame DEF Halt, chanVars
<1>2. CASE ~Halt("error")
  <2>1. PICK c \in ToSet(all_chnls) :
          /\ mtop' = [mtop EXCEPT ![c] = <<>>]
          /\ wtop' = [wtop EXCEPT ![c] = <<>>]
          /\ ws' = [ws EXCEPT ![c] = [w \in Thread |-> NoStatus]]
    BY <1>2, Zenon DEF destroy_channel
  <2>2. ASSUME NEW d \in Channel
        PROVE  \/ mtop'[d] = mtop[d] /\ wtop'[d] = wtop[d] /\ ws'[d] = ws[d]
               \/ mtop'[d] = <<>> /\ wtop'[d] = <<>> /\ ws'[d] = [w \in Thread |-> NoStatus]
    <3>1. mtop'[d] = IF d = c THEN <<>> ELSE mtop[d]  BY <2>1 DEF TypeInv, TypeOK
    <3>2. wtop'[d] = IF d = c THEN <<>> ELSE wtop[d]  BY <2>1 DEF TypeInv, TypeOK
    <3>3. ws'[d] = IF d = c THEN [w \in Thread |-> NoStatus] ELSE ws[d]
      BY <2>1 DEF TypeInv, TypeOK
    <3>. QED  BY <3>1, <3>2, <3>3
  <2>3. ASSUME NEW d \in Channel, mtop'[d] = <<>>, wtop'[d] = <<>>,
               ws'[d] = [w \in Thread |-> NoStatus]
        PROVE  /\ Len(mtop'[d]) = 0 /\ ToSet(wtop'[d]) = {}
               /\ \A w \in Thread : ws'[d][w].last = 0
    BY <2>3, EmptySeq DEF NoStatus, ToSet
  <2>4. Ordered'  BY <2>2, <2>3 DEF ChannelInv, MessageInv, Ordered
  <2>5. LastReceived'  BY <2>2, <2>3 DEF ChannelInv, MessageInv, LastReceived
  <2>6. RestUnreceived'  BY <2>2, <2>3 DEF ChannelInv, MessageInv, RestUnreceived
  <2>7. NoLostWakeup'
    BY <2>2, <2>3 DEF ChannelInv, NoLostWakeup, IsBlocked, HasNext
  <2>. QED  BY <2>4, <2>5, <2>6, <2>7 DEF ChannelInv, MessageInv
<1>. QED  BY <1>1, <1>2

(* delete_thread forgets a receiver, and may signal for its effector.      *)
LEMMA ForgetChannel ==
  ASSUME TypeInv, ChannelInv, NEW gone \in SUBSET Thread,
         ws' = [c \in Channel |-> [w \in Thread |->
                 IF w \in gone THEN NoStatus ELSE ws[c][w]]],
         mtop' = [c \in Channel |-> Forget(gone, mtop[c])],
         \A d \in Channel : ToSet(wtop'[d]) \subseteq ToSet(wtop[d])
  PROVE  ChannelInv'
<1>1. ASSUME NEW d \in Channel  PROVE Forgotten(d, gone)
  <2>. DEFINE msgs == mtop[d]
  <2>1. msgs \in Seq(Message)  BY DEF TypeInv, TypeOK
  <2>2. mtop'[d] = Forget(gone, msgs)  OBVIOUS
  <2>. HIDE DEF msgs
  <2>3. /\ Len(Forget(gone, msgs)) = Len(msgs)
        /\ \A i \in 1..Len(msgs) :
             /\ Forget(gone, msgs)[i].time = msgs[i].time
             /\ Forget(gone, msgs)[i].received_by = msgs[i].received_by \ gone
    BY <2>1, ForgetFields
  <2>. QED  BY <2>2, <2>3 DEF Forgotten, msgs
<1>2. \A d \in Channel, w \in Thread :
        ws'[d][w] = IF w \in gone THEN NoStatus ELSE ws[d][w]
  OBVIOUS
<1>3. NoStatus.status = "Idle" /\ NoStatus.last = 0  BY DEF NoStatus
<1>4. Ordered'
  <2>1. ASSUME NEW d \in Channel, NEW i \in 1..Len(mtop'[d]), NEW j \in 1..Len(mtop'[d]),
               i < j
        PROVE  mtop'[d][i].time <= mtop'[d][j].time
    <3>1. /\ i \in 1..Len(mtop[d]) /\ mtop'[d][i].time = mtop[d][i].time
          /\ j \in 1..Len(mtop[d]) /\ mtop'[d][j].time = mtop[d][j].time
      BY <1>1 DEF Forgotten
    <3>2. mtop[d][i].time <= mtop[d][j].time
      BY <2>1, <3>1 DEF ChannelInv, MessageInv, Ordered
    <3>. QED  BY <3>1, <3>2
  <2>. QED  BY <2>1 DEF Ordered
<1>5. LastReceived'
  BY <1>1, <1>2, <1>3 DEF ChannelInv, MessageInv, LastReceived, Forgotten
<1>6. RestUnreceived'
  <2>1. ASSUME NEW d \in Channel, NEW w \in Thread, NEW i \in 1..Len(mtop'[d]),
               i > ws'[d][w].last
        PROVE  w \notin mtop'[d][i].received_by
    <3>1. i \in 1..Len(mtop[d]) /\ mtop'[d][i].received_by = mtop[d][i].received_by \ gone
      BY <1>1 DEF Forgotten
    <3>2. w \notin gone => w \notin mtop[d][i].received_by
      BY <1>2, <2>1, <3>1 DEF ChannelInv, MessageInv, RestUnreceived
    <3>. QED  BY <3>1, <3>2
  <2>. QED  BY <2>1 DEF RestUnreceived
<1>7. ASSUME NEW d \in Channel, NEW w \in ToSet(wtop'[d]), IsBlocked(d, w)'
      PROVE  ~HasNext(d, w)'
  <2>1. w \in ToSet(wtop[d]) /\ w \in Thread
    <3>1. wtop[d] \in Seq(Thread)  BY DEF TypeInv, TypeOK
    <3>. QED  BY <3>1, ElementsInSet
  <2>2. ws'[d][w] = ws[d][w]  BY <1>2, <1>3, <1>7, <2>1 DEF IsBlocked
  <2>3. IsBlocked(d, w)  BY <1>7, <2>2 DEF IsBlocked
  <2>4. ~HasNext(d, w)  BY <2>1, <2>3 DEF ChannelInv, NoLostWakeup
  <2>. QED  BY <1>1, <2>2, <2>4 DEF Forgotten, HasNext
<1>. QED  BY <1>4, <1>5, <1>6, <1>7 DEF ChannelInv, MessageInv, NoLostWakeup

LEMMA DeleteThreadChannel ==
  ASSUME TypeInv, ChannelInv, delete_thread
  PROVE  ChannelInv'
<1>. DEFINE gone == IF phase = "cleanup" \/ "WAITEX" \notin flags[del] THEN {} ELSE {del}
<1>1. del \in Thread  BY DEF TypeInv, TypeOK, delete_thread
<1>2. gone \in SUBSET Thread  BY <1>1
<1>3. /\ \/ /\ ws' = [c \in Channel |-> [w \in Thread |->
                       IF w \in gone THEN NoStatus ELSE ws[c][w]]]
            /\ mtop' = [c \in Channel |-> Forget(gone, mtop[c])]
         \/ /\ eff[del] # NoChannel
            /\ \E obj \in Loaded : Send(eff[del], Later(reg_t[del], maxtime[del]), obj, gone)
      /\ wtop' = [c \in Channel |-> IF gone = {} THEN wtop[c] ELSE Unlink(wtop[c], del)]
  BY DEF delete_thread
<1>. HIDE DEF gone
<1>4. ASSUME NEW d \in Channel  PROVE ToSet(wtop'[d]) \subseteq ToSet(wtop[d])
  <2>1. wtop[d] \in Seq(Thread)  BY DEF TypeInv, TypeOK
  <2>2. ToSet(Unlink(wtop[d], del)) \subseteq ToSet(wtop[d])  BY <2>1, UnlinkElements
  <2>3. wtop'[d] \in {wtop[d], Unlink(wtop[d], del)}  BY <1>3
  <2>. QED  BY <2>2, <2>3
<1>5. CASE /\ ws' = [c \in Channel |-> [w \in Thread |->
                      IF w \in gone THEN NoStatus ELSE ws[c][w]]]
           /\ mtop' = [c \in Channel |-> Forget(gone, mtop[c])]
  BY <1>2, <1>4, <1>5, ForgetChannel
<1>6. CASE /\ eff[del] # NoChannel
           /\ \E obj \in Loaded : Send(eff[del], Later(reg_t[del], maxtime[del]), obj, gone)
  <2>1. PICK obj \in Loaded : Send(eff[del], Later(reg_t[del], maxtime[del]), obj, gone)
    BY <1>6
  <2>2. obj \in BOOLEAN
    <3>1. Loaded \subseteq BOOLEAN  BY ProgramAssumption
    <3>. QED  BY <3>1, Zenon
  <2>3. eff[del] \in Channel /\ Later(reg_t[del], maxtime[del]) \in Nat
    BY <1>1, <1>6 DEF TypeInv, TypeOK, Later
  <2>. QED  BY <1>2, <1>4, <2>1, <2>2, <2>3, SendChannel
<1>. QED  BY <1>3, <1>5, <1>6

-----------------------------------------------------------------------------
(* The theorems.                                                           *)

LEMMA ChannelStep ==
  ASSUME TypeInv, TypeInv', ChannelInv, [Next]_vars
  PROVE  ChannelInv'
<1>1. CASE \/ do_signal \/ do_wait \/ end_wait \/ do_alt \/ end_alt
           \/ destroy_channel \/ delete_thread \/ check_dead_lock
  BY <1>1, SignalChannel, WaitChannel, EndWaitChannel, AltChannel, EndAltChannel,
     DestroyChannel, DeleteThreadChannel, DeadLockChannel
<1>2. CASE break_alt
  BY <1>2, LeaveAltChannel DEF break_alt
<1>3. CASE \/ do_defthread \/ do_lbrace \/ do_lbracket \/ do_thread
           \/ begin_of_named_thread \/ end_of_named_thread \/ end_of_block
           \/ end_of_tokens \/ do_pitch \/ do_reg \/ attach_effector
  <2>1. UNCHANGED chanVars
    BY <1>3
    DEF do_defthread, do_lbrace, do_lbracket, group, do_thread, begin_of_named_thread,
        end_of_named_thread, end_of_block, end_of_tokens, do_pitch, do_reg, attach_effector
  <2>. QED  BY <2>1, ChannelFrame DEF chanVars
<1>4. CASE \/ do_sync \/ end_sync \/ do_eof \/ postpone_delete \/ do_break
           \/ skip_token \/ do_undef \/ delete_dict \/ begin_cleanup
           \/ cleanup_idle_threads \/ terminated \/ UNCHANGED vars
  <2>1. UNCHANGED chanVars
    BY <1>4
    DEF do_sync, end_sync, sync, do_eof, postpone_delete, do_break, Halt, skip_token,
        do_undef, delete_dict, begin_cleanup, cleanup_idle_threads, terminated, vars
  <2>. QED  BY <2>1, ChannelFrame DEF chanVars
<1>. QED  BY <1>1, <1>2, <1>3, <1>4 DEF Next

(* What every step of Threads preserves of the channels: the conjunction   *)
(* of the three facts about messages, for all receivers, and of            *)
(* NoLostWakeup.  It is inductive relative to TypeInv.                     *)
THEOREM ChannelInvariant == Spec => []ChannelInv
<1>1. Init => TypeInv /\ ChannelInv  BY TypeInit, ChannelInit
<1>2. TypeInv /\ ChannelInv /\ [Next]_vars => TypeInv' /\ ChannelInv'
  BY TypeStep, ChannelStep
<1>3. Spec => [](TypeInv /\ ChannelInv)  BY <1>1, <1>2, PTL DEF Spec
<1>. QED  BY <1>3, PTL

(* No lost wake-up: in every program, a thread sleeps in wait or alt only  *)
(* while every channel it watches has no message for it.  do_signal wakes  *)
(* all sleepers of the channel, and do_wait, do_alt and end_alt put no one *)
(* to sleep before looking at every guard.                                 *)
THEOREM WakeUps == Spec => []NoLostWakeup
<1>1. ChannelInv => NoLostWakeup  BY DEF ChannelInv
<1>. QED  BY <1>1, ChannelInvariant, PTL

LEMMA ReceiverThreads ==
  ASSUME TypeInv, NEW c \in Channel
  PROVE  ToSet(wtop[c]) \subseteq Thread /\ DOMAIN mtop[c] = 1..Len(mtop[c])
<1>1. wtop[c] \in Seq(Thread) /\ mtop[c] \in Seq(Message)  BY DEF TypeInv, TypeOK
<1>. QED  BY <1>1, ElementsInSet, LenProperties

(* The messages of every channel are in time order whatever the order they *)
(* are sent in, and lastmsg points to a message of the channel that the    *)
(* receiver has received, or is NULL.                                      *)
THEOREM MessagesInOrder == Spec => []MessageOrder
<1>1. TypeInv /\ ChannelInv => MessageOrder
  BY ReceiverThreads
  DEF ChannelInv, MessageInv, Ordered, LastReceived, MessageOrder
<1>. QED  BY <1>1, TypeInvariant, ChannelInvariant, PTL

(* No thread receives a message twice, although messages are inserted      *)
(* before and after the one it received last.                              *)
THEOREM NoMessageTwice == Spec => []ReceivedOnce
<1>1. TypeInv /\ ChannelInv => ReceivedOnce
  BY ReceiverThreads DEF ChannelInv, MessageInv, RestUnreceived, ReceivedOnce
<1>. QED  BY <1>1, TypeInvariant, ChannelInvariant, PTL

-----------------------------------------------------------------------------
(* The tree of threads, the ready list and who sleeps.                     *)

(* The invariant.  That the count of children is right needs that threads  *)
(* are created and deleted by threads that are there, hence that the ready *)
(* list has no freed thread, hence that neither a sleeper nor a parent     *)
(* that waits for its group is ever deleted.  What tells the threads apart *)
(* is the element on top of the stack: a thread that sleeps in wait or alt *)
(* has the EWAIT or EALT of that, a thread that waits for its group the    *)
(* tokens behind the group, a thread that is deleted nothing but EOF.      *)

(* The stack of a thread: EOF at the bottom only; below EALT are the       *)
(* tokens behind the alt.                                                  *)
WellFormed(s) ==
  /\ s # <<>>
  /\ \A i \in 1..Len(s) :
       /\ s[i].type = "EOF" <=> i = Len(s)
       /\ s[i].type = "EALT" => s[i+1].type = "BODY"

(* The token by which a thread resumes that sleeps on receiver w of c.     *)
Refers(item, c, w, status) ==
  \/ /\ status = "WaitBlocked"
     /\ item.type = "EWAIT" /\ item.chnl = c /\ item.wait_thd = w
  \/ /\ status = "AltBlocked"
     /\ item.type = "EALT" /\ c \in GuardChannels(item) /\ item.wait_thd = w

Shape ==
  \A h \in live : parent[h] \in live \/ (h = Root /\ parent[h] = NoThread)
Count ==
  \A h \in live : nchild[h] = Cardinality({k \in live : parent[k] = h})
Stacks == \A h \in live : WellFormed(pb[h])
Sleepers ==
  \A c \in Channel, w \in Thread : IsBlocked(c, w) =>
    /\ ws[c][w].sleep_thd \in live \ Ready
    /\ Refers(pb[ws[c][w].sleep_thd][1], c, w, ws[c][w].status)
(* Only the current thread may have reached its EOF.                       *)
Waking == {"undef", "cleanup", "deadlock", "blocked"}
AtEnd == \A h \in Ready : Top(h) = "EOF" => h = cur /\ phase \notin Waking
Listed == IsInjective(rtl) /\ Ready \subseteq live /\ AtEnd
Deleted ==
  del # NoThread =>
    /\ del \in live \ (Ready \cup undefs) /\ Top(del) = "EOF"
    /\ del \in named => nchild[del] = 0
Exits ==
  \A h \in live : Exiting(h) => Top(h) = "EOF" /\ h \notin Ready \cup named
Names ==
  /\ named \subseteq live /\ undefs \subseteq named
  /\ phase # "undef" => undefs = {}
  /\ \A h \in named : "SFLAG" \notin flags[h]
Groups ==
  \A k \in Thread : Suspending(k) =>
    /\ parent[k] \notin Ready /\ Top(parent[k]) = "BODY"
    /\ \A j \in Thread : Suspending(j) /\ parent[j] = parent[k] => j = k

TreeInv ==
  /\ Shape /\ Count /\ Stacks /\ Sleepers /\ Listed
  /\ Deleted /\ Exits /\ Names /\ Groups

-----------------------------------------------------------------------------
(* The ready list.  Each operation on it, as the set of its threads.       *)
LEMMA Places ==
  ASSUME NEW S, NEW s \in Seq(S)
  PROVE  /\ Len(s) \in Nat /\ DOMAIN s = 1..Len(s)
         /\ \A i \in 1..Len(s) : s[i] \in ToSet(s)
         /\ \A e \in ToSet(s) : \E i \in 1..Len(s) : s[i] = e
         /\ ToSet(s) \subseteq S
         /\ s # <<>> => Len(s) > 0
<1>1. Len(s) \in Nat /\ DOMAIN s = 1..Len(s)  BY LenProperties
<1>2. s # <<>> => Len(s) > 0  BY <1>1, EmptySeq
<1>. QED  BY <1>1, <1>2, ElementsInSet DEF ToSet

LEMMA TailReady ==
  ASSUME NEW S, NEW s \in Seq(S), s # <<>>, IsInjective(s)
  PROVE  /\ IsInjective(Tail(s)) /\ Head(s) \in ToSet(s)
         /\ ToSet(Tail(s)) = ToSet(s) \ {Head(s)}
<1>. DEFINE t == Tail(s)
<1>1. /\ t \in Seq(S) /\ Len(t) = Len(s) - 1
      /\ \A i \in 1..Len(t) : t[i] = s[i + 1]
  BY HeadTailProperties
<1>2. Head(s) = s[1]  OBVIOUS
<1>3. Len(s) \in Nat /\ Len(s) > 0 /\ DOMAIN s = 1..Len(s)  BY Places
<1>4. DOMAIN t = 1..Len(t)  BY <1>1, Places
<1>. HIDE DEF t
<1>5. \A i, j \in 1..Len(s) : s[i] = s[j] => i = j  BY <1>3 DEF IsInjective
<1>6. IsInjective(t)
  <2>1. ASSUME NEW i \in 1..Len(t), NEW j \in 1..Len(t), t[i] = t[j]  PROVE i = j
    <3>1. i + 1 \in 1..Len(s) /\ j + 1 \in 1..Len(s)  BY <1>1, <1>3
    <3>. QED  BY <1>1, <1>5, <2>1, <3>1
  <2>. QED  BY <1>4, <2>1 DEF IsInjective
<1>7. ASSUME NEW e \in ToSet(t)  PROVE e \in ToSet(s) \ {Head(s)}
  <2>1. PICK i \in 1..Len(t) : t[i] = e  BY <1>1, <1>7, Places
  <2>2. i + 1 \in 1..Len(s) /\ 1 \in 1..Len(s) /\ i + 1 # 1  BY <1>1, <1>3
  <2>3. s[i + 1] = e /\ s[i + 1] # s[1]  BY <1>1, <1>5, <2>1, <2>2
  <2>. QED  BY <1>2, <1>3, <2>2, <2>3 DEF ToSet
<1>8. ASSUME NEW e \in ToSet(s) \ {Head(s)}  PROVE e \in ToSet(t)
  <2>1. PICK i \in 1..Len(s) : s[i] = e  BY Places
  <2>2. i # 1  BY <1>2, <1>8, <2>1
  <2>3. i - 1 \in 1..Len(t) /\ (i - 1) + 1 = i  BY <1>1, <1>3, <2>2
  <2>. QED  BY <1>1, <1>4, <2>1, <2>3 DEF ToSet
<1>9. ToSet(t) = ToSet(s) \ {Head(s)}  BY <1>7, <1>8
<1>10. Head(s) \in ToSet(s)  BY <1>2, <1>3 DEF ToSet
<1>. QED  BY <1>6, <1>9, <1>10 DEF t

LEMMA ConcatReady ==
  ASSUME NEW S, NEW s \in Seq(S), NEW t \in Seq(S)
  PROVE  /\ ToSet(s \o t) = ToSet(s) \cup ToSet(t)
         /\ IsInjective(s) /\ IsInjective(t) /\ ToSet(s) \cap ToSet(t) = {}
              => IsInjective(s \o t)
         /\ s # <<>> => Head(s \o t) = Head(s)
<1>. DEFINE r == s \o t
<1>1. Len(s) \in Nat /\ DOMAIN s = 1..Len(s) /\ Len(t) \in Nat /\ DOMAIN t = 1..Len(t)
  BY Places
<1>2. /\ r \in Seq(S) /\ Len(r) = Len(s) + Len(t)
      /\ \A i \in 1..(Len(s) + Len(t)) : r[i] = IF i <= Len(s) THEN s[i] ELSE t[i - Len(s)]
  BY ConcatProperties
<1>3. DOMAIN r = 1..(Len(s) + Len(t))  BY <1>2, Places
<1>4. \A i \in 1..Len(s) : i \in DOMAIN r /\ r[i] = s[i]  BY <1>1, <1>2, <1>3
<1>5. \A i \in 1..Len(t) : Len(s) + i \in DOMAIN r /\ r[Len(s) + i] = t[i]
  <2>1. ASSUME NEW i \in 1..Len(t)
        PROVE  Len(s) + i \in DOMAIN r /\ r[Len(s) + i] = t[i]
    <3>1. Len(s) + i \in 1..(Len(s) + Len(t)) /\ ~(Len(s) + i <= Len(s))
          /\ (Len(s) + i) - Len(s) = i
      BY <1>1
    <3>. QED  BY <1>2, <1>3, <3>1
  <2>. QED  BY <2>1
<1>6. \A i \in DOMAIN r : i \in 1..Len(s) \/ \E k \in 1..Len(t) : i = Len(s) + k
  <2>1. ASSUME NEW i \in 1..(Len(s) + Len(t)), i \notin 1..Len(s)
        PROVE  \E k \in 1..Len(t) : i = Len(s) + k
    <3>1. i - Len(s) \in 1..Len(t) /\ i = Len(s) + (i - Len(s))  BY <1>1, <2>1
    <3>. QED  BY <3>1
  <2>. QED  BY <1>3, <2>1
<1>. HIDE DEF r
<1>7. ToSet(r) = ToSet(s) \cup ToSet(t)
  <2>1. ASSUME NEW e \in ToSet(r)  PROVE e \in ToSet(s) \cup ToSet(t)
    <3>1. PICK i \in DOMAIN r : e = r[i]  BY <2>1 DEF ToSet
    <3>2. CASE i \in 1..Len(s)  BY <1>1, <1>4, <3>1, <3>2 DEF ToSet
    <3>3. CASE \E k \in 1..Len(t) : i = Len(s) + k  BY <1>1, <1>5, <3>1, <3>3 DEF ToSet
    <3>. QED  BY <1>6, <3>2, <3>3
  <2>2. ToSet(s) \subseteq ToSet(r)  BY <1>1, <1>4 DEF ToSet
  <2>3. ToSet(t) \subseteq ToSet(r)
    <3>1. ASSUME NEW k \in 1..Len(t)  PROVE t[k] \in ToSet(r)
      BY <1>5 DEF ToSet
    <3>. QED  BY <1>1, <3>1 DEF ToSet
  <2>. QED  BY <2>1, <2>2, <2>3
<1>8. ASSUME IsInjective(s), IsInjective(t), ToSet(s) \cap ToSet(t) = {}
      PROVE  IsInjective(r)
  <2>1. \A i \in 1..Len(s), k \in 1..Len(t) : s[i] # t[k]
    BY <1>1, <1>8 DEF ToSet
  <2>2. ASSUME NEW i \in DOMAIN r, NEW j \in DOMAIN r, r[i] = r[j]  PROVE i = j
    <3>1. CASE i \in 1..Len(s) /\ j \in 1..Len(s)
      BY <1>1, <1>4, <1>8, <2>2, <3>1 DEF IsInjective
    <3>2. CASE i \in 1..Len(s) /\ j \notin 1..Len(s)
      <4>1. PICK k \in 1..Len(t) : j = Len(s) + k  BY <1>6, <3>2
      <4>. QED  BY <1>4, <1>5, <2>1, <2>2, <3>2, <4>1
    <3>3. CASE i \notin 1..Len(s) /\ j \in 1..Len(s)
      <4>1. PICK k \in 1..Len(t) : i = Len(s) + k  BY <1>6, <3>3
      <4>. QED  BY <1>4, <1>5, <2>1, <2>2, <3>3, <4>1
    <3>4. CASE i \notin 1..Len(s) /\ j \notin 1..Len(s)
      <4>1. PICK k \in 1..Len(t) : i = Len(s) + k  BY <1>6, <3>4
      <4>2. PICK l \in 1..Len(t) : j = Len(s) + l  BY <1>6, <3>4
      <4>3. t[k] = t[l]  BY <1>5, <2>2, <4>1, <4>2
      <4>4. k = l  BY <1>1, <1>8, <4>3 DEF IsInjective
      <4>. QED  BY <4>1, <4>2, <4>4
    <3>. QED  BY <3>1, <3>2, <3>3, <3>4
  <2>. QED  BY <2>2 DEF IsInjective
<1>9. ASSUME s # <<>>  PROVE Head(r) = Head(s)
  <2>1. 1 \in 1..Len(s)  BY <1>1, <1>9, Places
  <2>2. r[1] = s[1]  BY <1>4, <2>1
  <2>3. Head(r) = r[1] /\ Head(s) = s[1]  OBVIOUS
  <2>. QED  BY <2>2, <2>3
<1>. QED  BY <1>7, <1>8, <1>9 DEF r

LEMMA ConsReady ==
  ASSUME NEW S, NEW s \in Seq(S), NEW e \in S
  PROVE  /\ ToSet(<<e>> \o s) = {e} \cup ToSet(s)
         /\ IsInjective(s) /\ e \notin ToSet(s) => IsInjective(<<e>> \o s)
         /\ Head(<<e>> \o s) = e
<1>. DEFINE o == <<e>>
<1>1. o \in Seq(S) /\ o # <<>> /\ Head(o) = e /\ ToSet(o) = {e} /\ IsInjective(o)
  BY DEF ToSet, IsInjective
<1>. HIDE DEF o
<1>2. /\ ToSet(o \o s) = {e} \cup ToSet(s) /\ Head(o \o s) = e
      /\ IsInjective(s) /\ e \notin ToSet(s) => IsInjective(o \o s)
  BY <1>1, ConcatReady
<1>. QED  BY <1>2 DEF o

LEMMA RotateReady ==
  ASSUME NEW S, NEW s \in Seq(S), s # <<>>, IsInjective(s)
  PROVE  /\ IsInjective(Append(Tail(s), Head(s)))
         /\ ToSet(Append(Tail(s), Head(s))) = ToSet(s)
<1>. DEFINE o == <<Head(s)>>
            t == Tail(s)
<1>1. Head(s) \in S /\ t \in Seq(S)  BY HeadTailProperties
<1>2. Append(t, Head(s)) = t \o o  BY <1>1, AppendIsConcat
<1>3. o \in Seq(S) /\ ToSet(o) = {Head(s)} /\ IsInjective(o)
  BY <1>1 DEF ToSet, IsInjective
<1>4. IsInjective(t) /\ ToSet(t) = ToSet(s) \ {Head(s)} /\ Head(s) \in ToSet(s)
  BY TailReady
<1>. HIDE DEF o, t
<1>5. ToSet(t) \cap ToSet(o) = {} /\ ToSet(t) \cup ToSet(o) = ToSet(s)
  BY <1>3, <1>4
<1>6. o \in Seq(S) /\ IsInjective(t) /\ IsInjective(o)  BY <1>3, <1>4
<1>7. IsInjective(t \o o) /\ ToSet(t \o o) = ToSet(t) \cup ToSet(o)
  BY <1>1, <1>5, <1>6, ConcatReady
<1>. QED  BY <1>2, <1>5, <1>7 DEF t

-----------------------------------------------------------------------------
(* Threads that may be made ready or change the top of their stack: those  *)
(* that are not deleted, not exiting and no parent that waits for a group. *)
Awakable(h) == h \in live /\ h # del /\ ~Exiting(h) /\ ~Suspended(h)

LEMMA ReadyAwakable ==
  ASSUME TypeInv, TreeInv, NEW h \in Ready
  PROVE  Awakable(h)
<1>1. h \in live /\ h # NoThread
  BY ThreadAssumption DEF TreeInv, Listed, TypeInv, TypeOK
<1>2. h # del  BY <1>1 DEF TreeInv, Deleted
<1>3. ~Exiting(h)  BY <1>1 DEF TreeInv, Exits
<1>4. ~Suspended(h)  BY DEF TreeInv, Groups, Suspended
<1>. QED  BY <1>1, <1>2, <1>3, <1>4 DEF Awakable

LEMMA BusyAwakable ==
  ASSUME TypeInv, TreeInv, NEW h \in live, Top(h) \notin {"EOF", "BODY"}
  PROVE  Awakable(h)
<1>1. h # NoThread  BY ThreadAssumption DEF TypeInv, TypeOK
<1>2. h # del  BY <1>1 DEF TreeInv, Deleted
<1>3. ~Exiting(h)  BY <1>1 DEF TreeInv, Exits
<1>4. ~Suspended(h)  BY DEF TreeInv, Groups, Suspended
<1>. QED  BY <1>1, <1>2, <1>3, <1>4 DEF Awakable

LEMMA IdleAwakable ==
  ASSUME TypeInv, TreeInv, NEW h \in named, Top(h) = "EOF", del = NoThread
  PROVE  Awakable(h)
<1>1. h \in Thread /\ h # NoThread  BY ThreadAssumption DEF TypeInv, TypeOK
<1>2. h \in live /\ ~Exiting(h)  BY DEF TreeInv, Names, Exits
<1>3. ~Suspended(h)  BY DEF TreeInv, Groups, Suspended
<1>. QED  BY <1>1, <1>2, <1>3 DEF Awakable

LEMMA CurReady ==
  ASSUME TypeInv, TreeInv, rtl # <<>>
  PROVE  /\ cur \in Ready /\ cur \in live /\ cur \in Thread /\ Awakable(cur)
         /\ rtl \in Seq(Thread) /\ IsInjective(rtl) /\ Ready \subseteq live
<1>1. rtl \in Seq(Thread) /\ IsInjective(rtl) /\ Ready \subseteq live /\ live \subseteq Thread
  BY DEF TypeInv, TypeOK, TreeInv, Listed
<1>2. cur \in Ready  BY <1>1, TailReady DEF cur, Ready
<1>. QED  BY <1>1, <1>2, ReadyAwakable

(* Steps that create and delete no thread.  They run an awakable thread,   *)
(* put one to sleep or wake one.                                           *)
TreeFrame ==
  /\ UNCHANGED <<live, parent, named, nchild, undefs, del>>
  /\ \A h \in Thread : /\ "SFLAG" \in flags'[h] <=> "SFLAG" \in flags[h]
                       /\ "EXITING" \in flags'[h] <=> "EXITING" \in flags[h]

LEMMA StackStep ==
  ASSUME TypeInv, TypeInv', TreeInv, TreeFrame,
         Stacks', Sleepers', AtEnd', IsInjective(rtl'),
         \A h \in live : Top(h)' = Top(h) \/ Awakable(h),
         \A h \in Ready' : Awakable(h),
         phase' # "undef" => undefs = {}
  PROVE  TreeInv'
<1>1. live \subseteq Thread /\ named \subseteq Thread
      /\ parent \in [Thread -> Thread \cup {NoThread}]
  BY DEF TypeInv, TypeOK
<1>2. \A h \in Thread : /\ Exiting(h)' <=> Exiting(h)
                        /\ Suspending(h)' <=> Suspending(h)
  BY DEF TreeFrame, Exiting, Suspending
<1>3. Shape' /\ Count'  BY DEF TreeInv, Shape, Count, TreeFrame
<1>4. Listed'
  BY DEF Listed, Awakable, TreeFrame
<1>5. Deleted'
  <2>1. SUFFICES ASSUME del # NoThread  PROVE Deleted'
    BY DEF Deleted, TreeFrame
  <2>2. /\ del \in live \ (Ready \cup undefs) /\ Top(del) = "EOF"
        /\ del \in named => nchild[del] = 0
    BY <2>1 DEF TreeInv, Deleted
  <2>3. PICK h \in live : h = del  BY <2>2
  <2>4. ~Awakable(h)  BY <2>3 DEF Awakable
  <2>5. h \notin Ready' /\ Top(h)' = "EOF"  BY <2>2, <2>3, <2>4
  <2>6. live' = live /\ undefs' = undefs /\ named' = named /\ nchild' = nchild /\ del' = h
    BY <2>3 DEF TreeFrame
  <2>7. Top(del)' = "EOF"  BY <2>5, <2>6 DEF Top
  <2>. QED  BY <2>2, <2>3, <2>5, <2>6, <2>7 DEF Deleted
<1>6. Exits'
  <2>1. ASSUME NEW h \in live, Exiting(h)
        PROVE  Top(h)' = "EOF" /\ h \notin Ready' \cup named
    <3>1. ~Awakable(h)  BY <2>1 DEF Awakable
    <3>. QED  BY <2>1, <3>1 DEF TreeInv, Exits
  <2>. QED  BY <1>1, <1>2, <2>1 DEF Exits, TreeFrame
<1>7. Names'  BY <1>1 DEF TreeInv, Names, TreeFrame
<1>8. Groups'
  <2>1. parent' = parent  BY DEF TreeFrame
  <2>2. ASSUME NEW k \in Thread, Suspending(k)
        PROVE  /\ parent[k] \notin Ready' /\ Top(parent[k])' = "BODY"
               /\ \A j \in Thread : Suspending(j) /\ parent[j] = parent[k] => j = k
    <3>1. parent[k] \in live
      BY <2>2, ThreadAssumption DEF TypeInv, GroupHasParent, TreeInv, Shape, Suspending
    <3>2. PICK h \in live : h = parent[k]  BY <3>1
    <3>3. ~Awakable(h)  BY <2>2, <3>2 DEF Awakable, Suspended
    <3>4. /\ h \notin Ready /\ Top(h) = "BODY"
          /\ \A j \in Thread : Suspending(j) /\ parent[j] = h => j = k
      BY <2>2, <3>2 DEF TreeInv, Groups
    <3>5. h \notin Ready' /\ Top(h)' = "BODY"  BY <3>3, <3>4
    <3>6. Top(parent[k])' = "BODY"  BY <2>1, <3>2, <3>5 DEF Top
    <3>. QED  BY <3>2, <3>4, <3>5, <3>6
  <2>. QED  BY <1>2, <2>1, <2>2 DEF Groups
<1>. QED  BY <1>3, <1>4, <1>5, <1>6, <1>7, <1>8 DEF TreeInv

-----------------------------------------------------------------------------
(* Stacks.                                                                 *)
LEMMA PopWellFormed ==
  ASSUME NEW s \in Seq(Item), WellFormed(s), Head(s).type # "EOF"
  PROVE  /\ WellFormed(SubSeq(s, 2, Len(s)))
         /\ Head(s).type = "EALT" => Head(SubSeq(s, 2, Len(s))).type = "BODY"
<1>. DEFINE t == SubSeq(s, 2, Len(s))
<1>1. Len(s) \in Nat /\ s # <<>> /\ Len(s) > 0  BY Places DEF WellFormed
<1>2. Head(s) = s[1]  OBVIOUS
<1>3. Len(s) > 1  BY <1>1, <1>2 DEF WellFormed
<1>4. /\ t \in Seq(Item) /\ Len(t) = Len(s) - 1
      /\ \A i \in 1..(Len(s) - 1) : t[i] = s[i + 1]
  <2>1. \A i \in 2..Len(s) : s[i] \in Item  BY <1>1, ElementOfSeq
  <2>. QED  BY <1>1, <1>3, <2>1, SubSeqProperties
<1>. HIDE DEF t
<1>5. Head(t) = t[1]  OBVIOUS
<1>6. t # <<>> /\ Len(t) \in Nat  BY <1>1, <1>3, <1>4, EmptySeq
<1>7. ASSUME NEW i \in 1..Len(t)
      PROVE  /\ t[i].type = "EOF" <=> i = Len(t)
             /\ t[i].type = "EALT" => t[i+1].type = "BODY"
  <2>1. i + 1 \in 1..Len(s) /\ t[i] = s[i + 1] /\ (i = Len(t) <=> i + 1 = Len(s))
    BY <1>1, <1>4, <1>7
  <2>2. s[i + 1].type = "EOF" <=> i + 1 = Len(s)  BY <2>1 DEF WellFormed
  <2>3. ASSUME s[i + 1].type = "EALT"  PROVE t[i + 1].type = "BODY"
    <3>1. s[(i + 1) + 1].type = "BODY"  BY <2>1, <2>3 DEF WellFormed
    <3>2. i + 1 # Len(s)  BY <2>2, <2>3
    <3>3. i + 1 \in 1..(Len(s) - 1)  BY <1>1, <2>1, <3>2
    <3>. QED  BY <1>4, <3>1, <3>3
  <2>. QED  BY <2>1, <2>2, <2>3
<1>8. WellFormed(t)  BY <1>6, <1>7 DEF WellFormed
<1>9. ASSUME Head(s).type = "EALT"  PROVE Head(t).type = "BODY"
  <2>1. s[1 + 1].type = "BODY"  BY <1>1, <1>2, <1>9 DEF WellFormed
  <2>2. t[1] = s[1 + 1]  BY <1>1, <1>3, <1>4
  <2>. QED  BY <1>5, <2>1, <2>2
<1>. QED  BY <1>8, <1>9 DEF t

LEMMA PushWellFormed ==
  ASSUME NEW s \in Seq(Item), WellFormed(s), NEW e \in Item, e.type # "EOF",
         e.type = "EALT" => Head(s).type = "BODY"
  PROVE  /\ WellFormed(<<e>> \o s)
         /\ Head(<<e>> \o s) = e /\ (<<e>> \o s)[1] = e /\ <<e>> \o s # <<>>
<1>. DEFINE r == <<e>> \o s
<1>1. Len(s) \in Nat /\ Len(s) > 0  BY Places DEF WellFormed
<1>2. <<e>> \in Seq(Item) /\ Len(<<e>>) = 1 /\ <<e>>[1] = e  OBVIOUS
<1>3. /\ r \in Seq(Item) /\ Len(r) = Len(s) + 1
      /\ \A i \in 1..(Len(s) + 1) : r[i] = IF i <= 1 THEN <<e>>[i] ELSE s[i - 1]
  BY <1>1, <1>2, ConcatProperties
<1>4. r[1] = e /\ \A i \in 2..(Len(s) + 1) : r[i] = s[i - 1]  BY <1>1, <1>2, <1>3
<1>5. Head(r) = r[1] /\ Head(s) = s[1]  OBVIOUS
<1>. HIDE DEF r
<1>6. r # <<>>  BY <1>1, <1>3, EmptySeq
<1>7. ASSUME NEW i \in 1..Len(r)
      PROVE  /\ r[i].type = "EOF" <=> i = Len(r)
             /\ r[i].type = "EALT" => r[i+1].type = "BODY"
  <2>1. CASE i = 1
    <3>1. i + 1 \in 2..(Len(s) + 1) /\ (i + 1) - 1 = 1 /\ i # Len(r)  BY <1>1, <1>3, <2>1
    <3>. QED  BY <1>4, <1>5, <2>1, <3>1
  <2>2. CASE i # 1
    <3>1. i \in 2..(Len(s) + 1) /\ i - 1 \in 1..Len(s) /\ (i - 1) + 1 = i
          /\ (i = Len(r) <=> i - 1 = Len(s))
      BY <1>1, <1>3, <1>7, <2>2
    <3>2. r[i].type = "EOF" <=> i = Len(r)  BY <1>4, <3>1 DEF WellFormed
    <3>3. ASSUME r[i].type = "EALT"  PROVE r[i + 1].type = "BODY"
      <4>1. s[i].type = "BODY" /\ i # Len(r)
        BY <1>4, <3>1, <3>2, <3>3 DEF WellFormed
      <4>2. i + 1 \in 2..(Len(s) + 1) /\ (i + 1) - 1 = i  BY <1>1, <1>3, <3>1, <4>1
      <4>. QED  BY <1>4, <4>1, <4>2
    <3>. QED  BY <3>2, <3>3
  <2>. QED  BY <2>1, <2>2
<1>8. WellFormed(r)  BY <1>6, <1>7 DEF WellFormed
<1>. QED  BY <1>4, <1>5, <1>6, <1>8 DEF r

LEMMA TopOf ==
  ASSUME TypeInv, TreeInv, NEW h \in live
  PROVE  /\ pb[h] \in Seq(Item) /\ pb[h] # <<>> /\ WellFormed(pb[h])
         /\ Top(h) = Head(pb[h]).type /\ Head(pb[h]) = pb[h][1] /\ Head(pb[h]) \in Item
<1>1. pb[h] \in Seq(Item) /\ WellFormed(pb[h])  BY DEF TypeInv, TypeOK, TreeInv, Stacks
<1>2. pb[h] # <<>>  BY <1>1 DEF WellFormed
<1>3. Head(pb[h]) \in Item  BY <1>1, <1>2, HeadTailProperties
<1>. QED  BY <1>1, <1>2, <1>3 DEF Top

-----------------------------------------------------------------------------
(* Steps that change the stack of the current thread only.                 *)
StillBlocked ==
  \A c \in Channel, w \in Thread : IsBlocked(c, w)' =>
    /\ IsBlocked(c, w)
    /\ ws'[c][w].sleep_thd = ws[c][w].sleep_thd
    /\ ws'[c][w].status = ws[c][w].status

LEMMA SleepersKept ==
  ASSUME TypeInv, TreeInv, live' = live, StillBlocked, Ready' \subseteq Ready,
         \A h \in live \ Ready : pb'[h] = pb[h]
  PROVE  Sleepers'
<1>1. ASSUME NEW c \in Channel, NEW w \in Thread, IsBlocked(c, w)'
      PROVE  /\ ws'[c][w].sleep_thd \in live' \ Ready'
             /\ Refers(pb'[ws'[c][w].sleep_thd][1], c, w, ws'[c][w].status)
  <2>1. /\ IsBlocked(c, w)
        /\ ws'[c][w].sleep_thd = ws[c][w].sleep_thd
        /\ ws'[c][w].status = ws[c][w].status
    BY <1>1 DEF StillBlocked
  <2>2. /\ ws[c][w].sleep_thd \in live \ Ready
        /\ Refers(pb[ws[c][w].sleep_thd][1], c, w, ws[c][w].status)
    BY <2>1 DEF TreeInv, Sleepers
  <2>3. pb'[ws[c][w].sleep_thd] = pb[ws[c][w].sleep_thd]  BY <2>2
  <2>. QED  BY <2>1, <2>2, <2>3
<1>. QED  BY <1>1 DEF Sleepers

LEMMA CurStep ==
  ASSUME TypeInv, TypeInv', TreeInv, TreeFrame, rtl # <<>>,
         \A h \in live \ {cur} : pb'[h] = pb[h], WellFormed(pb'[cur]),
         IsInjective(rtl'), Ready' \subseteq Ready, AtEnd', Sleepers',
         phase' # "undef" => undefs = {}
  PROVE  TreeInv'
<1>1. PICK h \in live : h = cur /\ Awakable(h)  BY CurReady
<1>2. \A k \in live : Top(k)' = Top(k) \/ Awakable(k)
  BY <1>1 DEF Top
<1>3. \A k \in Ready' : Awakable(k)  BY ReadyAwakable
<1>4. Stacks'
  BY <1>1 DEF TreeInv, Stacks, TreeFrame
<1>. QED  BY <1>2, <1>3, <1>4, StackStep

(* The thread goes on with what is below the top of its stack.             *)
LEMMA PopStep ==
  ASSUME TypeInv, TypeInv', TreeInv, TreeFrame, rtl # <<>>, Top(cur) # "EOF", Pop(cur),
         rtl' = rtl, StillBlocked, phase' \notin Waking, undefs = {}
  PROVE  TreeInv'
<1>1. /\ cur \in Ready /\ cur \in live /\ cur \in Thread /\ rtl \in Seq(Thread)
      /\ IsInjective(rtl) /\ Ready \subseteq live
  BY CurReady
<1>2. pb' = [pb EXCEPT ![cur] = SubSeq(@, 2, Len(@))] /\ pb \in [Thread -> Seq(Item)]
      /\ live \subseteq Thread
  BY DEF Pop, TypeInv, TypeOK
<1>3. /\ \A h \in live \ {cur} : pb'[h] = pb[h]
      /\ pb'[cur] = SubSeq(pb[cur], 2, Len(pb[cur]))
  BY <1>1, <1>2
<1>4. WellFormed(pb'[cur])  BY <1>1, <1>3, TopOf, PopWellFormed
<1>5. Ready' = Ready /\ cur' = cur  BY DEF Ready, cur
<1>6. ASSUME NEW h \in Ready, h # cur  PROVE Top(h)' # "EOF"
  <2>1. pb'[h] = pb[h] /\ Top(h) # "EOF"  BY <1>1, <1>3, <1>6 DEF TreeInv, Listed, AtEnd
  <2>. QED  BY <2>1 DEF Top
<1>7. AtEnd'  BY <1>5, <1>6 DEF AtEnd
<1>8. Sleepers'
  <2>1. live' = live  BY DEF TreeFrame
  <2>. QED  BY <1>1, <1>3, <1>5, <2>1, SleepersKept
<1>. QED  BY <1>1, <1>3, <1>4, <1>5, <1>7, <1>8, CurStep

(* The other threads run before it goes on.                                *)
LEMMA RotateStep ==
  ASSUME TypeInv, TypeInv', TreeInv, TreeFrame, rtl # <<>>, rotate_thread,
         \A h \in live \ {cur} : pb'[h] = pb[h],
         WellFormed(pb'[cur]), Head(pb'[cur]).type # "EOF", StillBlocked, undefs = {}
  PROVE  TreeInv'
<1>1. /\ cur \in Ready /\ cur \in live /\ cur \in Thread /\ rtl \in Seq(Thread)
      /\ IsInjective(rtl) /\ Ready \subseteq live
  BY CurReady
<1>2. Ready' = Ready /\ IsInjective(rtl')  BY <1>1, RotateReady DEF Ready, rotate_thread
<1>3. ASSUME NEW h \in Ready  PROVE Top(h)' # "EOF"
  <2>1. CASE h = cur  BY <2>1 DEF Top
  <2>2. CASE h # cur
    <3>1. pb'[h] = pb[h] /\ Top(h) # "EOF"  BY <1>1, <2>2 DEF TreeInv, Listed, AtEnd
    <3>. QED  BY <3>1 DEF Top
  <2>. QED  BY <2>1, <2>2
<1>4. AtEnd'  BY <1>2, <1>3 DEF AtEnd
<1>5. Sleepers'
  <2>1. live' = live  BY DEF TreeFrame
  <2>. QED  BY <1>1, <1>2, <2>1, SleepersKept
<1>. QED  BY <1>2, <1>4, <1>5, CurStep

(* It sleeps on the receivers that now refer to the top of its stack.      *)
LEMMA BlockStep ==
  ASSUME TypeInv, TypeInv', TreeInv, TreeFrame, rtl # <<>>, rtl' = Tail(rtl),
         \A h \in live \ {cur} : pb'[h] = pb[h], WellFormed(pb'[cur]), undefs = {},
         \A c \in Channel, w \in Thread : IsBlocked(c, w)' =>
           \/ /\ IsBlocked(c, w)
              /\ ws'[c][w].sleep_thd = ws[c][w].sleep_thd
              /\ ws'[c][w].status = ws[c][w].status
           \/ /\ ws'[c][w].sleep_thd = cur
              /\ Refers(pb'[cur][1], c, w, ws'[c][w].status)
  PROVE  TreeInv'
<1>1. /\ cur \in Ready /\ cur \in live /\ cur \in Thread /\ rtl \in Seq(Thread)
      /\ IsInjective(rtl) /\ Ready \subseteq live
  BY CurReady
<1>2. Ready' = Ready \ {cur} /\ IsInjective(rtl')  BY <1>1, TailReady DEF Ready, cur
<1>3. ASSUME NEW h \in Ready'  PROVE Top(h)' # "EOF"
  <2>1. pb'[h] = pb[h] /\ Top(h) # "EOF"  BY <1>1, <1>2 DEF TreeInv, Listed, AtEnd
  <2>. QED  BY <2>1 DEF Top
<1>4. AtEnd'  BY <1>3 DEF AtEnd
<1>5. live' = live  BY DEF TreeFrame
<1>6. ASSUME NEW c \in Channel, NEW w \in Thread, IsBlocked(c, w)'
      PROVE  /\ ws'[c][w].sleep_thd \in live' \ Ready'
             /\ Refers(pb'[ws'[c][w].sleep_thd][1], c, w, ws'[c][w].status)
  <2>1. CASE /\ ws'[c][w].sleep_thd = cur
             /\ Refers(pb'[cur][1], c, w, ws'[c][w].status)
    BY <1>1, <1>2, <1>5, <2>1
  <2>2. CASE /\ IsBlocked(c, w)
             /\ ws'[c][w].sleep_thd = ws[c][w].sleep_thd
             /\ ws'[c][w].status = ws[c][w].status
    <3>1. /\ ws[c][w].sleep_thd \in live \ Ready
          /\ Refers(pb[ws[c][w].sleep_thd][1], c, w, ws[c][w].status)
      BY <2>2 DEF TreeInv, Sleepers
    <3>2. pb'[ws[c][w].sleep_thd] = pb[ws[c][w].sleep_thd]  BY <1>1, <3>1
    <3>. QED  BY <1>2, <1>5, <2>2, <3>1, <3>2
  <2>. QED  BY <1>6, <2>1, <2>2
<1>7. Sleepers'  BY <1>6 DEF Sleepers
<1>. QED  BY <1>2, <1>4, <1>7, CurStep

(* Steps that change neither the stacks nor the ready list.                *)
LEMMA QuietStep ==
  ASSUME TypeInv, TypeInv', TreeInv, TreeFrame, rtl' = rtl, pb' = pb, StillBlocked,
         \A h \in Ready : Top(h) = "EOF" => phase' \notin Waking,
         phase' # "undef" => undefs = {}
  PROVE  TreeInv'
<1>1. Ready' = Ready /\ cur' = cur /\ live' = live /\ IsInjective(rtl')
  BY DEF Ready, cur, TreeFrame, TreeInv, Listed
<1>2. \A h \in Thread : Top(h)' = Top(h)  BY DEF Top
<1>3. live \subseteq Thread /\ Ready \subseteq live
  BY DEF TypeInv, TypeOK, TreeInv, Listed
<1>4. Stacks'  BY <1>1 DEF TreeInv, Stacks
<1>5. Sleepers'  BY <1>1, SleepersKept
<1>6. AtEnd'  BY <1>1, <1>2, <1>3 DEF TreeInv, Listed, AtEnd
<1>7. \A h \in Ready' : Awakable(h)  BY <1>1, ReadyAwakable
<1>. QED  BY <1>1, <1>2, <1>3, <1>4, <1>5, <1>6, <1>7, StackStep

-----------------------------------------------------------------------------
(* The tree is kept by each action.                                        *)
LEMMA CommandTree ==
  ASSUME TypeInv, TreeInv, NEW name, Command(name)
  PROVE  /\ rtl # <<>> /\ Top(cur) = "BODY" /\ phase = "running" /\ del = NoThread
         /\ undefs = {} /\ \A h \in Ready : Top(h) # "EOF"
BY DEF Command, TreeInv, Names, Listed, AtEnd

LEMMA TokenTree ==
  ASSUME TypeInv, TreeInv, NEW type, Token(type)
  PROVE  /\ rtl # <<>> /\ Top(cur) = type /\ phase = "running" /\ del = NoThread
         /\ undefs = {}
BY DEF Token, TreeInv, Names

LEMMA SameStatus == ASSUME ws' = ws PROVE StillBlocked
BY DEF StillBlocked, IsBlocked

LEMMA HaltTree ==
  ASSUME TypeInv, TypeInv', TreeInv, NEW how \in {"error", "crash"}, Halt(how),
         phase # "undef"
  PROVE  TreeInv'
<1>1. StillBlocked  BY SameStatus DEF Halt, chanVars
<1>2. TreeFrame  BY DEF TreeFrame, Halt, threadVars
<1>3. rtl' = rtl /\ pb' = pb /\ phase' \notin Waking  BY DEF Halt, stackVars, Waking
<1>4. undefs = {}  BY DEF TreeInv, Names
<1>. QED  BY <1>1, <1>2, <1>3, <1>4, QuietStep

LEMMA QuietTree ==
  ASSUME TypeInv, TypeInv', TreeInv, do_pitch \/ do_reg \/ attach_effector
  PROVE  TreeInv'
<1>1. undefs = {} /\ \A h \in Ready : Top(h) # "EOF"
  BY CommandTree DEF do_pitch, do_reg, attach_effector
<1>2. UNCHANGED <<rtl, live, parent, named, flags, nchild, pb, ws, del, undefs, phase>>
  BY DEF do_pitch, do_reg, attach_effector, threadVars, stackVars, chanVars, ctlVars
<1>3. StillBlocked /\ TreeFrame  BY <1>2, SameStatus DEF TreeFrame
<1>. QED  BY <1>1, <1>2, <1>3, QuietStep

LEMMA StutterTree ==
  ASSUME TypeInv, TypeInv', TreeInv, UNCHANGED vars
  PROVE  TreeInv'
<1>1. UNCHANGED <<rtl, live, parent, named, flags, nchild, pb, ws, del, undefs, phase>>
  BY DEF vars, threadVars, stackVars, chanVars, ctlVars
<1>2. StillBlocked /\ TreeFrame  BY <1>1, SameStatus DEF TreeFrame
<1>3. /\ \A h \in Ready : Top(h) = "EOF" => phase' \notin Waking
      /\ phase' # "undef" => undefs = {}
  BY <1>1 DEF TreeInv, Listed, AtEnd, Names
<1>. QED  BY <1>1, <1>2, <1>3, QuietStep

LEMMA BreakTree ==
  ASSUME TypeInv, TypeInv', TreeInv, do_break
  PROVE  TreeInv'
<1>1. undefs = {} /\ phase = "running"  BY CommandTree DEF do_break
<1>2. CASE Halt("error")  BY <1>1, <1>2, HaltTree
<1>3. CASE ~Halt("error")
  <2>1. /\ UNCHANGED <<rtl, live, parent, named, flags, nchild, pb, ws, del, undefs>>
        /\ phase' \in {"break", "running"}
    BY <1>3 DEF do_break, threadVars, stackVars, chanVars, BreakPhase
  <2>2. StillBlocked /\ TreeFrame  BY <2>1, SameStatus DEF TreeFrame
  <2>. QED  BY <1>1, <2>1, <2>2, QuietStep DEF Waking
<1>. QED  BY <1>2, <1>3

LEMMA BeginCleanupTree ==
  ASSUME TypeInv, TypeInv', TreeInv, begin_cleanup
  PROVE  TreeInv'
<1>1. UNCHANGED <<rtl, live, parent, named, flags, nchild, pb, ws, del, undefs>>
      /\ phase = "running" /\ rtl = <<>>
  BY DEF begin_cleanup, threadVars, stackVars, chanVars
<1>2. StillBlocked /\ TreeFrame  BY <1>1, SameStatus DEF TreeFrame
<1>3. Ready = {}  BY <1>1 DEF Ready, ToSet
<1>4. undefs = {}  BY <1>1 DEF TreeInv, Names
<1>. QED  BY <1>1, <1>2, <1>3, <1>4, QuietStep

LEMMA PopTree ==
  ASSUME TypeInv, TypeInv', TreeInv,
         \/ begin_of_named_thread \/ end_of_named_thread \/ end_of_block
         \/ end_of_tokens \/ skip_token
  PROVE  TreeInv'
<1>1. /\ rtl # <<>> /\ Top(cur) # "EOF" /\ Pop(cur) /\ phase \in {"running", "break"}
      /\ UNCHANGED <<rtl, live, parent, named, nchild, ws, del, undefs, phase>>
  BY DEF begin_of_named_thread, end_of_named_thread, end_of_block, end_of_tokens,
         skip_token, Token, threadVars, chanVars, ctlVars
<1>2. undefs = {}  BY <1>1 DEF TreeInv, Names
<1>3. TreeFrame
  <2>1. CASE begin_of_named_thread
    <3>1. PICK f \in SUBSET {"CFLAG"} : flags' = [flags EXCEPT ![cur] = (@ \ {"CFLAG"}) \cup f]
      BY <2>1 DEF begin_of_named_thread
    <3>2. flags \in [Thread -> SUBSET Flag]  BY DEF TypeInv, TypeOK
    <3>. QED  BY <1>1, <3>1, <3>2 DEF TreeFrame
  <2>2. CASE ~begin_of_named_thread
    BY <2>2 DEF end_of_named_thread, end_of_block, end_of_tokens, skip_token, threadVars,
                ctlVars, TreeFrame
  <2>. QED  BY <2>1, <2>2
<1>. QED  BY <1>1, <1>2, <1>3, SameStatus, PopStep DEF Waking

LEMMA SyncTree ==
  ASSUME TypeInv, TypeInv', TreeInv, do_sync \/ end_sync
  PROVE  TreeInv'
<1>1. /\ rtl # <<>> /\ Top(cur) \in {"BODY", "ESYNC"} /\ phase = "running" /\ undefs = {}
      /\ do_sync => \A h \in Ready : Top(h) # "EOF"
  BY CommandTree, TokenTree DEF do_sync, end_sync
<1>2. UNCHANGED <<live, parent, named, flags, nchild, ws, del, undefs, phase>>
  BY DEF do_sync, end_sync, sync, threadVars, chanVars, ctlVars
<1>3. StillBlocked /\ TreeFrame  BY <1>2, SameStatus DEF TreeFrame
<1>4. cur \in live /\ live \subseteq Thread /\ pb \in [Thread -> Seq(Item)]
  BY <1>1, CurReady DEF TypeInv, TypeOK
<1>5. CASE HasReadyDescendant(cur)
  <2>1. rotate_thread  BY <1>5 DEF do_sync, end_sync, sync
  <2>2. CASE do_sync
    <3>1. pb' = [pb EXCEPT ![cur] = <<Mark("ESYNC")>> \o @]  BY <1>5, <2>2 DEF do_sync
    <3>2. /\ \A h \in live \ {cur} : pb'[h] = pb[h]
          /\ pb'[cur] = <<Mark("ESYNC")>> \o pb[cur]
      BY <1>4, <3>1
    <3>3. Mark("ESYNC") \in Item /\ Mark("ESYNC").type = "ESYNC"  BY MarkItem DEF Mark
    <3>4. WellFormed(pb'[cur]) /\ Head(pb'[cur]).type = "ESYNC"
      BY <1>4, <3>2, <3>3, TopOf, PushWellFormed
    <3>. QED  BY <1>1, <1>3, <2>1, <3>2, <3>4, RotateStep
  <2>3. CASE end_sync
    <3>1. pb' = pb /\ Top(cur) = "ESYNC"  BY <1>5, <2>3 DEF end_sync, Token
    <3>2. WellFormed(pb'[cur]) /\ Head(pb'[cur]).type # "EOF"  BY <1>4, <3>1, TopOf
    <3>. QED  BY <1>1, <1>3, <2>1, <3>1, <3>2, RotateStep
  <2>. QED  BY <2>2, <2>3
<1>6. CASE ~HasReadyDescendant(cur)
  <2>1. rtl' = rtl  BY <1>6 DEF do_sync, end_sync, sync
  <2>2. CASE do_sync
    <3>1. pb' = pb  BY <1>6, <2>2 DEF do_sync
    <3>. QED  BY <1>1, <1>2, <1>3, <2>1, <2>2, <3>1, QuietStep
  <2>3. CASE end_sync
    <3>1. Pop(cur)  BY <1>6, <2>3 DEF end_sync
    <3>. QED  BY <1>1, <1>2, <1>3, <2>1, <3>1, PopStep DEF Waking
  <2>. QED  BY <2>2, <2>3
<1>. QED  BY <1>5, <1>6

-----------------------------------------------------------------------------
(* wait and alt.                                                           *)
LEMMA ReceiveStill ==
  ASSUME TypeInv, NEW c \in Channel, NEW w \in Thread,
         NEW status \in {"Idle", ws[c][w].status}, Receive(c, w, status)
  PROVE  StillBlocked
<1>1. ws \in [Channel -> [Thread -> Status]]  BY DEF TypeInv, TypeOK
<1>2. ws' = [ws EXCEPT ![c][w] =
               [ws[c][w] EXCEPT !.status = status, !.last = ws[c][w].last + 1]]
  BY DEF Receive, Received
<1>3. ASSUME NEW d \in Channel, NEW v \in Thread, IsBlocked(d, v)'
      PROVE  /\ IsBlocked(d, v) /\ ws'[d][v].sleep_thd = ws[d][v].sleep_thd
             /\ ws'[d][v].status = ws[d][v].status
  <2>1. CASE d = c /\ v = w
    <3>1. ws[c][w] \in Status  BY <1>1
    <3>2. ws'[c][w] = [ws[c][w] EXCEPT !.status = status, !.last = ws[c][w].last + 1]
      BY <1>1, <1>2
    <3>3. ws'[c][w].status = status /\ ws'[c][w].sleep_thd = ws[c][w].sleep_thd
      BY <3>1, <3>2 DEF Status
    <3>. QED  BY <1>3, <2>1, <3>3 DEF IsBlocked
  <2>2. CASE ~(d = c /\ v = w)
    <3>1. ws'[d][v] = ws[d][v]  BY <1>1, <1>2, <2>2
    <3>. QED  BY <1>3, <3>1 DEF IsBlocked
  <2>. QED  BY <2>1, <2>2
<1>. QED  BY <1>3 DEF StillBlocked

LEMMA GuardsStill ==
  ASSUME TypeInv, NEW gs, NEW w, NEW status \in {"Idle", "Executing"}, NEW sleeper,
         ws' = SetGuards(gs, w, status, sleeper)
  PROVE  /\ StillBlocked
         /\ \A c \in Channel : c \in {gs[i].chnl : i \in DOMAIN gs} /\ w \in Thread =>
              ~IsBlocked(c, w)'
<1>1. ASSUME NEW c \in Channel, NEW v \in Thread
      PROVE  /\ v = w /\ c \in {gs[i].chnl : i \in DOMAIN gs} => ~IsBlocked(c, v)'
             /\ IsBlocked(c, v)' =>
                  /\ IsBlocked(c, v) /\ ws'[c][v].sleep_thd = ws[c][v].sleep_thd
                  /\ ws'[c][v].status = ws[c][v].status
  <2>1. ws[c][v] \in Status  BY DEF TypeInv, TypeOK
  <2>2. CASE v = w /\ \E i \in DOMAIN gs : gs[i].chnl = c
    <3>1. ws'[c][v] = [ws[c][v] EXCEPT !.status = status, !.sleep_thd = sleeper]
      BY <2>2 DEF SetGuards
    <3>2. ws'[c][v].status = status  BY <2>1, <3>1 DEF Status
    <3>. QED  BY <3>2 DEF IsBlocked
  <2>3. CASE ~(v = w /\ \E i \in DOMAIN gs : gs[i].chnl = c)
    <3>1. ws'[c][v] = ws[c][v]  BY <2>3 DEF SetGuards
    <3>. QED  BY <2>3, <3>1 DEF IsBlocked
  <2>. QED  BY <2>2, <2>3
<1>. QED  BY <1>1 DEF StillBlocked

(* Block puts the current thread to sleep on the guards of its EALT.       *)
LEMMA BlockTree ==
  ASSUME TypeInv, TypeInv', TreeInv, TreeFrame, rtl # <<>>, undefs = {},
         NEW gs, NEW w, NEW item \in Item, Block(gs, w),
         \A h \in live \ {cur} : pb'[h] = pb[h], WellFormed(pb'[cur]),
         pb'[cur][1] = item, item.type = "EALT", item.guards = gs, item.wait_thd = w
  PROVE  TreeInv'
<1>1. cur \in Thread  BY CurReady
<1>2. ws' = SetGuards(gs, w, "AltBlocked", cur) /\ rtl' = Tail(rtl)  BY DEF Block
<1>3. ASSUME NEW c \in Channel, NEW v \in Thread, IsBlocked(c, v)'
      PROVE  \/ /\ IsBlocked(c, v)
                /\ ws'[c][v].sleep_thd = ws[c][v].sleep_thd
                /\ ws'[c][v].status = ws[c][v].status
             \/ /\ ws'[c][v].sleep_thd = cur
                /\ Refers(pb'[cur][1], c, v, ws'[c][v].status)
  <2>1. ws[c][v] \in Status  BY DEF TypeInv, TypeOK
  <2>2. CASE v = w /\ \E i \in DOMAIN gs : gs[i].chnl = c
    <3>1. ws'[c][v] = [ws[c][v] EXCEPT !.status = "AltBlocked", !.sleep_thd = cur]
      BY <1>2, <2>2 DEF SetGuards
    <3>2. ws'[c][v].status = "AltBlocked" /\ ws'[c][v].sleep_thd = cur
      BY <2>1, <3>1 DEF Status
    <3>3. c \in GuardChannels(item)  BY <2>2 DEF GuardChannels
    <3>. QED  BY <2>2, <3>2, <3>3 DEF Refers
  <2>3. CASE ~(v = w /\ \E i \in DOMAIN gs : gs[i].chnl = c)
    <3>1. ws'[c][v] = ws[c][v]  BY <1>2, <2>3 DEF SetGuards
    <3>. QED  BY <1>3, <3>1 DEF IsBlocked
  <2>. QED  BY <2>2, <2>3
<1>. QED  BY <1>2, <1>3, BlockStep

LEMMA EndWaitTree ==
  ASSUME TypeInv, TypeInv', TreeInv, end_wait
  PROVE  TreeInv'
<1>1. rtl # <<>> /\ Top(cur) = "EWAIT" /\ phase = "running" /\ undefs = {}
  BY TokenTree DEF end_wait
<1>2. CASE \E how \in {"error", "crash"} : Halt(how)  BY <1>1, <1>2, HaltTree
<1>3. CASE ~ \E how \in {"error", "crash"} : Halt(how)
  <2>. DEFINE c == Head(pb[cur]).chnl
              w == Head(pb[cur]).wait_thd
  <2>1. /\ Receive(c, w, "Idle") /\ Pop(cur)
        /\ UNCHANGED <<rtl, live, parent, named, flags, nchild, del, undefs, phase>>
    BY <1>3 DEF end_wait, threadVars, ctlVars
  <2>2. Head(pb[cur]) \in Item /\ Head(pb[cur]).type = "EWAIT"
    BY <1>1, CurReady, TopOf
  <2>3. c \in Channel /\ w \in Thread  BY <2>2 DEF Item
  <2>4. StillBlocked  BY <2>1, <2>3, ReceiveStill
  <2>5. TreeFrame  BY <2>1 DEF TreeFrame
  <2>. QED  BY <1>1, <2>1, <2>4, <2>5, PopStep DEF Waking
<1>. QED  BY <1>2, <1>3

LEMMA FlagFrame ==
  ASSUME TypeInv, NEW w \in Thread, flags' = [flags EXCEPT ![w] = @ \cup {"WAITEX"}],
         UNCHANGED <<live, parent, named, nchild, undefs, del>>
  PROVE  TreeFrame
BY DEF TypeInv, TypeOK, TreeFrame

LEMMA PushTree ==
  ASSUME TypeInv, TreeInv, rtl # <<>>, NEW item \in Item, Push(<<item>>),
         item.type # "EOF", item.type = "EALT" => Top(cur) = "BODY"
  PROVE  /\ \A h \in live \ {cur} : pb'[h] = pb[h]
         /\ WellFormed(pb'[cur]) /\ pb'[cur][1] = item /\ Head(pb'[cur]) = item
<1>1. cur \in live /\ live \subseteq Thread /\ pb \in [Thread -> Seq(Item)]
  BY CurReady DEF TypeInv, TypeOK
<1>2. /\ \A h \in live \ {cur} : pb'[h] = pb[h]
      /\ pb'[cur] = <<item>> \o pb[cur]
  BY <1>1 DEF Push
<1>. QED  BY <1>1, <1>2, TopOf, PushWellFormed

LEMMA WaitTree ==
  ASSUME TypeInv, TypeInv', TreeInv, do_wait
  PROVE  TreeInv'
<1>1. rtl # <<>> /\ phase = "running" /\ undefs = {}  BY CommandTree DEF do_wait
<1>2. CASE Halt("crash")  BY <1>1, <1>2, HaltTree
<1>3. CASE ~Halt("crash")
  <2>1. PICK c \in Channel, w \in Thread, b \in Bind :
          /\ flags' = [flags EXCEPT ![w] = @ \cup {"WAITEX"}]
          /\ Push(<<Ewait(c, w, b)>>)
          /\ \/ /\ ws' = [ws EXCEPT ![c][w] = [@ EXCEPT !.status = "Executing"]]
                /\ rotate_thread
             \/ /\ ws' = [ws EXCEPT ![c][w] = [@ EXCEPT !.status = "WaitBlocked",
                                                         !.sleep_thd = cur]]
                /\ rtl' = Tail(rtl)
          /\ UNCHANGED <<live, parent, named, nchild, del, undefs>>
    BY <1>3, ZenonT(60) DEF do_wait
  <2>. DEFINE item == Ewait(c, w, b)
  <2>2. item \in Item /\ item.type = "EWAIT" /\ item.chnl = c /\ item.wait_thd = w
    BY ProgramAssumption DEF Ewait, Item
  <2>3. TreeFrame  BY <2>1, FlagFrame
  <2>. HIDE DEF item
  <2>4. Push(<<item>>)  BY <2>1 DEF item
  <2>5. /\ \A h \in live \ {cur} : pb'[h] = pb[h]
        /\ WellFormed(pb'[cur]) /\ pb'[cur][1] = item /\ Head(pb'[cur]) = item
    BY <1>1, <2>2, <2>4, PushTree
  <2>6. ws \in [Channel -> [Thread -> Status]]  BY DEF TypeInv, TypeOK
  <2>7. CASE /\ ws' = [ws EXCEPT ![c][w] = [@ EXCEPT !.status = "Executing"]]
             /\ rotate_thread
    <3>1. ASSUME NEW d \in Channel, NEW v \in Thread, IsBlocked(d, v)'
          PROVE  ws'[d][v] = ws[d][v]
      <4>1. ws[d][v] \in Status  BY <2>6
      <4>2. ws'[c][w].status = "Executing"  BY <2>6, <2>7 DEF Status
      <4>3. ~(d = c /\ v = w)  BY <3>1, <4>2 DEF IsBlocked
      <4>. QED  BY <2>6, <2>7, <4>3
    <3>2. StillBlocked  BY <3>1 DEF StillBlocked, IsBlocked
    <3>. QED  BY <1>1, <2>2, <2>3, <2>5, <2>7, <3>2, RotateStep
  <2>8. CASE /\ ws' = [ws EXCEPT ![c][w] = [@ EXCEPT !.status = "WaitBlocked",
                                                      !.sleep_thd = cur]]
             /\ rtl' = Tail(rtl)
    <3>1. ASSUME NEW d \in Channel, NEW v \in Thread, IsBlocked(d, v)'
          PROVE  \/ /\ IsBlocked(d, v)
                    /\ ws'[d][v].sleep_thd = ws[d][v].sleep_thd
                    /\ ws'[d][v].status = ws[d][v].status
                 \/ /\ ws'[d][v].sleep_thd = cur
                    /\ Refers(pb'[cur][1], d, v, ws'[d][v].status)
      <4>1. CASE d = c /\ v = w
        <5>1. ws'[c][w].status = "WaitBlocked" /\ ws'[c][w].sleep_thd = cur
          BY <2>6, <2>8 DEF Status
        <5>. QED  BY <2>2, <2>5, <4>1, <5>1 DEF Refers
      <4>2. CASE ~(d = c /\ v = w)
        <5>1. ws'[d][v] = ws[d][v]  BY <2>6, <2>8, <4>2
        <5>. QED  BY <3>1, <5>1 DEF IsBlocked
      <4>. QED  BY <4>1, <4>2
    <3>. QED  BY <1>1, <2>3, <2>5, <2>8, <3>1, BlockStep
  <2>. QED  BY <2>1, <2>7, <2>8
<1>. QED  BY <1>2, <1>3

LEMMA AltTree ==
  ASSUME TypeInv, TypeInv', TreeInv, do_alt
  PROVE  TreeInv'
<1>1. rtl # <<>> /\ Top(cur) = "BODY" /\ phase = "running" /\ undefs = {}
  BY CommandTree DEF do_alt
<1>2. CASE Halt("crash")  BY <1>1, <1>2, HaltTree
<1>3. CASE ~Halt("crash")
  <2>1. PICK gs \in AltGuards, w \in Thread, d \in Default :
          /\ flags' = [flags EXCEPT ![w] = @ \cup {"WAITEX"}]
          /\ Push(<<Ealt(gs, w, d)>>)
          /\ \/ ws' = SetGuards(gs, w, "Executing", NoThread) /\ rotate_thread
             \/ Block(gs, w)
          /\ UNCHANGED <<live, parent, named, nchild, del, undefs>>
    BY <1>3 DEF do_alt
  <2>. DEFINE item == Ealt(gs, w, d)
  <2>2. item \in Item /\ item.type = "EALT" /\ item.guards = gs /\ item.wait_thd = w
    <3>1. gs \in Seq([chnl : Channel \cup {Freed}, bind : BOOLEAN]) /\ d \in BOOLEAN
      BY GuardChannelSeq, ProgramAssumption
    <3>. QED  BY <3>1 DEF Ealt, Item
  <2>3. TreeFrame  BY <2>1, FlagFrame
  <2>. HIDE DEF item
  <2>4. Push(<<item>>)  BY <2>1 DEF item
  <2>5. /\ \A h \in live \ {cur} : pb'[h] = pb[h]
        /\ WellFormed(pb'[cur]) /\ pb'[cur][1] = item /\ Head(pb'[cur]) = item
    BY <1>1, <2>2, <2>4, PushTree
  <2>6. CASE ws' = SetGuards(gs, w, "Executing", NoThread) /\ rotate_thread
    <3>1. StillBlocked  BY <2>6, GuardsStill
    <3>. QED  BY <1>1, <2>2, <2>3, <2>5, <2>6, <3>1, RotateStep
  <2>7. CASE Block(gs, w)  BY <1>1, <2>2, <2>3, <2>5, <2>7, BlockTree
  <2>. QED  BY <2>1, <2>6, <2>7
<1>. QED  BY <1>2, <1>3

(* The body of a guard, or of the default, goes on top of the EALT.        *)
LEMMA BodyTree ==
  ASSUME TypeInv, TypeInv', TreeInv, rtl # <<>>, undefs = {}, Push(<<Mark("BODY")>>),
         rotate_thread, StillBlocked, UNCHANGED <<live, parent, named, flags, nchild, undefs, del>>
  PROVE  TreeInv'
<1>. DEFINE item == Mark("BODY")
<1>1. item \in Item /\ item.type = "BODY"  BY MarkItem DEF Mark
<1>2. Push(<<item>>)  OBVIOUS
<1>. HIDE DEF item
<1>3. /\ \A h \in live \ {cur} : pb'[h] = pb[h]
      /\ WellFormed(pb'[cur]) /\ Head(pb'[cur]) = item
  BY <1>1, <1>2, PushTree
<1>4. TreeFrame  BY DEF TreeFrame
<1>. QED  BY <1>1, <1>3, <1>4, RotateStep

LEMMA EndAltTree ==
  ASSUME TypeInv, TypeInv', TreeInv, end_alt
  PROVE  TreeInv'
<1>1. rtl # <<>> /\ Top(cur) = "EALT" /\ phase = "running" /\ undefs = {}
  BY TokenTree DEF end_alt
<1>2. cur \in live /\ cur \in Thread  BY <1>1, CurReady
<1>. DEFINE item == Head(pb[cur])
            gs == item.guards
            w == item.wait_thd
<1>3. /\ item \in Item /\ item.type = "EALT" /\ pb[cur][1] = item /\ WellFormed(pb[cur])
  BY <1>1, <1>2, TopOf
<1>4. w \in Thread /\ gs \in Seq([chnl : Channel \cup {Freed}, bind : BOOLEAN])
  BY <1>3 DEF Item
<1>5. CASE \E how \in {"error", "crash"} : Halt(how)  BY <1>1, <1>5, HaltTree
<1>6. CASE /\ Freed \notin GuardChannels(item)
           /\ \E i \in DOMAIN gs : Receive(gs[i].chnl, w, ws[gs[i].chnl][w].status)
           /\ Push(<<Mark("BODY")>>) /\ rotate_thread
           /\ UNCHANGED <<live, parent, named, flags, nchild, undefs, del>>
  <2>1. PICK i \in DOMAIN gs : Receive(gs[i].chnl, w, ws[gs[i].chnl][w].status)  BY <1>6
  <2>2. gs[i].chnl \in Channel
    <3>1. i \in 1..Len(gs)  BY <1>4, LenProperties
    <3>2. gs[i] \in [chnl : Channel \cup {Freed}, bind : BOOLEAN]
      BY <1>4, <3>1, ElementOfSeq
    <3>3. gs[i].chnl \in Channel \cup {Freed}  BY <3>2
    <3>. QED  BY <1>6, <3>3 DEF GuardChannels
  <2>3. StillBlocked  BY <1>4, <2>1, <2>2, ReceiveStill
  <2>. QED  BY <1>1, <1>6, <2>3, BodyTree
<1>7. CASE /\ Push(<<Mark("BODY")>>) /\ rotate_thread /\ ws' = ws
           /\ UNCHANGED <<live, parent, named, flags, nchild, undefs, del>>
  BY <1>1, <1>7, SameStatus, BodyTree
<1>8. CASE /\ Block(gs, w)
           /\ UNCHANGED <<live, parent, named, flags, nchild, undefs, del, pb>>
  <2>1. TreeFrame  BY <1>8 DEF TreeFrame
  <2>2. (\A h \in live \ {cur} : pb'[h] = pb[h]) /\ pb'[cur] = pb[cur]  BY <1>8
  <2>. QED  BY <1>1, <1>3, <1>8, <2>1, <2>2, BlockTree
<1>9. \/ \E how \in {"error", "crash"} : Halt(how)
      \/ /\ Freed \notin GuardChannels(item)
         /\ \E i \in DOMAIN gs : Receive(gs[i].chnl, w, ws[gs[i].chnl][w].status)
         /\ Push(<<Mark("BODY")>>) /\ rotate_thread
         /\ UNCHANGED <<live, parent, named, flags, nchild, undefs, del>>
      \/ /\ Push(<<Mark("BODY")>>) /\ rotate_thread /\ ws' = ws
         /\ UNCHANGED <<live, parent, named, flags, nchild, undefs, del>>
      \/ /\ Block(gs, w)
         /\ UNCHANGED <<live, parent, named, flags, nchild, undefs, del, pb>>
  BY DEF end_alt, threadVars, stackVars, chanVars, ctlVars
<1>. QED  BY <1>5, <1>6, <1>7, <1>8, <1>9

LEMMA BreakAltTree ==
  ASSUME TypeInv, TypeInv', TreeInv, break_alt
  PROVE  TreeInv'
<1>1. /\ rtl # <<>> /\ Top(cur) # "EOF" /\ phase = "break" /\ leave_alt(cur)
      /\ phase' \in {"break", "running"}
      /\ UNCHANGED <<rtl, live, parent, named, flags, nchild, del, undefs>>
  BY DEF break_alt, threadVars
<1>2. undefs = {}  BY <1>1 DEF TreeInv, Names
<1>3. TreeFrame  BY <1>1 DEF TreeFrame
<1>4. Pop(cur) /\ StillBlocked  BY <1>1, GuardsStill DEF leave_alt
<1>. QED  BY <1>1, <1>2, <1>3, <1>4, PopStep DEF Waking

(* A deadlock ends the alt of the first sleeper.                           *)
LEMMA WakeTree ==
  ASSUME TypeInv, TypeInv', TreeInv, phase \in {"deadlock", "blocked"}, phase' = phase,
         NEW c \in Channel, NEW w \in Thread, ws[c][w].status = "AltBlocked",
         rtl' = <<ws[c][w].sleep_thd>> \o rtl, leave_alt(ws[c][w].sleep_thd),
         UNCHANGED <<live, parent, named, flags, nchild, del, undefs>>
  PROVE  TreeInv'
<1>1. PICK h \in live \ Ready : /\ h = ws[c][w].sleep_thd
                                /\ Refers(pb[h][1], c, w, "AltBlocked")
  BY DEF TreeInv, Sleepers, IsBlocked
<1>. DEFINE item == Head(pb[h])
<1>2. /\ item = pb[h][1] /\ item.type = "EALT" /\ item.wait_thd = w
      /\ pb[h] \in Seq(Item) /\ WellFormed(pb[h]) /\ Top(h) = "EALT"
  BY <1>1, TopOf DEF Refers
<1>3. /\ live \subseteq Thread /\ pb \in [Thread -> Seq(Item)]
      /\ rtl \in Seq(Thread) /\ IsInjective(rtl) /\ Ready \subseteq live
  BY DEF TypeInv, TypeOK, TreeInv, Listed
<1>4. /\ \A k \in live \ {h} : pb'[k] = pb[k]
      /\ pb'[h] = SubSeq(pb[h], 2, Len(pb[h]))
  BY <1>1, <1>3 DEF leave_alt, Pop
<1>5. WellFormed(pb'[h]) /\ Head(pb'[h]).type = "BODY"
  BY <1>2, <1>4, PopWellFormed
<1>6. Ready' = {h} \cup Ready /\ IsInjective(rtl')
  BY <1>1, <1>3, ConsReady DEF Ready
<1>7. undefs = {} /\ phase \in Waking  BY DEF TreeInv, Names, Waking
<1>8. Top(h)' = "BODY"  BY <1>5 DEF Top, WellFormed
<1>9. AtEnd'
  <2>1. ASSUME NEW k \in Ready'  PROVE Top(k)' # "EOF"
    <3>1. CASE k = h  BY <1>8, <3>1
    <3>2. CASE k # h
      <4>1. k \in Ready /\ pb'[k] = pb[k]  BY <1>3, <1>4, <1>6, <3>2
      <4>2. Top(k) # "EOF"  BY <1>7, <4>1 DEF TreeInv, Listed, AtEnd
      <4>. QED  BY <4>1, <4>2 DEF Top
    <3>. QED  BY <3>1, <3>2
  <2>. QED  BY <2>1 DEF AtEnd
<1>10. Sleepers'
  <2>1. ws' = SetGuards(item.guards, w, "Idle", NoThread)
    BY <1>1, <1>2 DEF leave_alt
  <2>2. /\ StillBlocked
        /\ \A d \in Channel : d \in GuardChannels(item) => ~IsBlocked(d, w)'
    BY <2>1, GuardsStill DEF GuardChannels
  <2>3. ASSUME NEW d \in Channel, NEW v \in Thread, IsBlocked(d, v)'
        PROVE  /\ ws'[d][v].sleep_thd \in live' \ Ready'
               /\ Refers(pb'[ws'[d][v].sleep_thd][1], d, v, ws'[d][v].status)
    <3>1. /\ IsBlocked(d, v) /\ ws'[d][v].sleep_thd = ws[d][v].sleep_thd
          /\ ws'[d][v].status = ws[d][v].status
      BY <2>2, <2>3 DEF StillBlocked
    <3>2. /\ ws[d][v].sleep_thd \in live \ Ready
          /\ Refers(pb[ws[d][v].sleep_thd][1], d, v, ws[d][v].status)
      BY <3>1 DEF TreeInv, Sleepers
    <3>3. ws[d][v].sleep_thd # h
      BY <1>2, <2>2, <2>3, <3>2 DEF Refers
    <3>. QED  BY <1>4, <1>6, <3>1, <3>2, <3>3
  <2>. QED  BY <2>3 DEF Sleepers
<1>11. Stacks'  BY <1>4, <1>5 DEF TreeInv, Stacks
<1>12. Awakable(h)  BY <1>1, <1>2, BusyAwakable
<1>13. \A k \in Ready' : Awakable(k)  BY <1>6, <1>12, ReadyAwakable
<1>14. \A k \in live : Top(k)' = Top(k) \/ Awakable(k)  BY <1>4, <1>12 DEF Top
<1>15. TreeFrame  BY DEF TreeFrame
<1>. QED  BY <1>6, <1>7, <1>9, <1>10, <1>11, <1>13, <1>14, <1>15, StackStep

LEMMA DeadLockTree ==
  ASSUME TypeInv, TypeInv', TreeInv, check_dead_lock
  PROVE  TreeInv'
<1>1. phase \in {"deadlock", "blocked"}  BY DEF check_dead_lock
<1>2. CASE Halt("error")  BY <1>1, <1>2, HaltTree
<1>3. CASE \E c \in Channel, w \in Thread :
             /\ FirstBlocked(c, w) /\ ws[c][w].status # "WaitBlocked"
             /\ rtl' = <<ws[c][w].sleep_thd>> \o rtl /\ leave_alt(ws[c][w].sleep_thd)
             /\ UNCHANGED <<threadVars, ctlVars>>
  <2>1. PICK c \in Channel, w \in Thread :
             /\ FirstBlocked(c, w) /\ ws[c][w].status # "WaitBlocked"
             /\ rtl' = <<ws[c][w].sleep_thd>> \o rtl /\ leave_alt(ws[c][w].sleep_thd)
             /\ UNCHANGED <<threadVars, ctlVars>>
    BY <1>3
  <2>2. ws[c][w].status = "AltBlocked"  BY <2>1 DEF FirstBlocked, IsBlocked
  <2>3. UNCHANGED <<live, parent, named, flags, nchild, del, undefs, phase>>
    BY <2>1 DEF threadVars, ctlVars
  <2>. QED  BY <1>1, <2>1, <2>2, <2>3, WakeTree
<1>4. CASE /\ phase' \in {"running", "done", "crash"}
           /\ UNCHANGED <<rtl, threadVars, stackVars, chanVars, del, undefs>>
  <2>1. UNCHANGED <<rtl, live, parent, named, flags, nchild, pb, ws, del, undefs>>
    BY <1>4 DEF threadVars, stackVars, chanVars
  <2>2. StillBlocked /\ TreeFrame  BY <2>1, SameStatus DEF TreeFrame
  <2>3. undefs = {}  BY <1>1 DEF TreeInv, Names
  <2>. QED  BY <1>4, <2>1, <2>2, <2>3, QuietStep DEF Waking
<1>. QED  BY <1>2, <1>3, <1>4 DEF check_dead_lock

-----------------------------------------------------------------------------
(* THREAD_NAME { ... }: tokens are added above the EOF of the thread.      *)
LEMMA AddWellFormed ==
  ASSUME NEW s \in Seq(Item), WellFormed(s), NEW t \in Seq(Item), Len(t) = 4,
         \A i \in 1..4 : t[i].type = "EOF" <=> i = 4, \A i \in 1..4 : t[i].type # "EALT"
  PROVE  /\ WellFormed(Front(s) \o t)
         /\ Head(s).type = "EOF" => Head(Front(s) \o t) = t[1]
         /\ Head(s).type # "EOF" => Head(Front(s) \o t) = Head(s)
<1>. DEFINE f == Front(s)
            r == f \o t
            n == Len(s) - 1
<1>1. Len(s) \in Nat /\ Len(s) > 0 /\ n \in Nat /\ Len(s) = n + 1
  BY Places DEF WellFormed
<1>2. f \in Seq(Item) /\ Len(f) = n /\ \A i \in 1..n : f[i] = s[i]
  <2>1. \A i \in 1..n : s[i] \in Item  BY <1>1, ElementOfSeq
  <2>. QED  BY <1>1, <2>1, SubSeqProperties DEF Front
<1>3. Head(s) = s[1] /\ Head(r) = r[1]
  <2>. HIDE DEF f, n, r
  <2>. QED  OBVIOUS
<1>. HIDE DEF f, n
<1>4. /\ r \in Seq(Item) /\ Len(r) = n + 4
      /\ \A i \in 1..(n + 4) : r[i] = IF i <= n THEN f[i] ELSE t[i - n]
  <2>1. /\ r \in Seq(Item) /\ Len(r) = Len(f) + Len(t)
        /\ \A i \in 1..(Len(f) + Len(t)) : r[i] = IF i <= Len(f) THEN f[i] ELSE t[i - Len(f)]
    BY <1>2, ConcatProperties
  <2>. QED  BY <1>2, <2>1
<1>. HIDE DEF r
<1>5. /\ \A i \in 1..n : r[i] = s[i]
      /\ \A i \in 1..4 : r[n + i] = t[i]
  <2>1. \A i \in 1..n : r[i] = s[i]  BY <1>1, <1>2, <1>4
  <2>2. ASSUME NEW i \in 1..4  PROVE r[n + i] = t[i]
    <3>1. n + i \in 1..(n + 4) /\ ~(n + i <= n) /\ (n + i) - n = i  BY <1>1
    <3>. QED  BY <1>4, <3>1
  <2>. QED  BY <2>1, <2>2
<1>6. ASSUME NEW i \in 1..(n + 4)
      PROVE  /\ r[i].type = "EOF" <=> i = n + 4
             /\ r[i].type = "EALT" => r[i+1].type = "BODY"
  <2>1. CASE i \in 1..n
    <3>1. i \in 1..Len(s) /\ i # Len(s) /\ i # n + 4 /\ r[i] = s[i]  BY <1>1, <1>5, <2>1
    <3>2. r[i].type # "EOF"  BY <3>1 DEF WellFormed
    <3>3. ASSUME r[i].type = "EALT"  PROVE r[i+1].type = "BODY"
      <4>1. s[i+1].type = "BODY"  BY <3>1, <3>3 DEF WellFormed
      <4>2. i + 1 \in 1..Len(s)  BY <1>1, <2>1
      <4>3. i + 1 # Len(s)  BY <4>1, <4>2 DEF WellFormed
      <4>4. i + 1 \in 1..n  BY <1>1, <4>2, <4>3
      <4>. QED  BY <1>5, <4>1, <4>4
    <3>. QED  BY <3>1, <3>2, <3>3
  <2>2. CASE i \notin 1..n
    <3>1. i - n \in 1..4 /\ n + (i - n) = i /\ (i = n + 4 <=> i - n = 4)
      BY <1>1, <2>2
    <3>2. r[i] = t[i - n]  BY <1>5, <3>1
    <3>. QED  BY <3>1, <3>2
  <2>. QED  BY <2>1, <2>2
<1>7. r # <<>>  BY <1>1, <1>4, EmptySeq
<1>8. WellFormed(r)  BY <1>4, <1>6, <1>7 DEF WellFormed
<1>9. ASSUME Head(s).type = "EOF"  PROVE Head(r) = t[1]
  <2>1. n = 0  BY <1>1, <1>3, <1>9 DEF WellFormed
  <2>2. r[n + 1] = t[1] /\ n + 1 = 1  BY <1>5, <2>1
  <2>. QED  BY <1>3, <2>2
<1>10. ASSUME Head(s).type # "EOF"  PROVE Head(r) = Head(s)
  <2>1. 1 \in 1..n  BY <1>1, <1>3, <1>10 DEF WellFormed
  <2>. QED  BY <1>3, <1>5, <2>1
<1>. QED  BY <1>8, <1>9, <1>10 DEF r, f

LEMMA ThreadTree ==
  ASSUME TypeInv, TypeInv', TreeInv, do_thread
  PROVE  TreeInv'
<1>1. /\ rtl # <<>> /\ phase = "running" /\ del = NoThread /\ undefs = {}
      /\ \A h \in Ready : Top(h) # "EOF"
  BY CommandTree DEF do_thread
<1>2. PICK x \in named, avoid \in BOOLEAN :
        /\ pb' = [pb EXCEPT ![x] = Front(@) \o
                   <<Bot(reg_t[cur], avoid), Mark("BODY"), Mark("EOT"), Mark("EOF")>>]
        /\ awake_if_idle(x)
  BY DEF do_thread
<1>. DEFINE t == <<Bot(reg_t[cur], avoid), Mark("BODY"), Mark("EOT"), Mark("EOF")>>
<1>3. /\ x \in live /\ x \in Thread /\ live \subseteq Thread
      /\ rtl \in Seq(Thread) /\ IsInjective(rtl) /\ pb \in [Thread -> Seq(Item)]
  BY DEF TreeInv, Names, Listed, TypeInv, TypeOK
<1>4. /\ t \in Seq(Item) /\ Len(t) = 4 /\ t[1].type = "BOT"
      /\ \A i \in 1..4 : t[i].type = "EOF" <=> i = 4
      /\ \A i \in 1..4 : t[i].type # "EALT"
  <2>1. reg_t[cur] \in Nat  BY <1>1, CurReady DEF TypeInv, TypeOK
  <2>2. Bot(reg_t[cur], avoid) \in Item  BY <2>1 DEF Bot, Item
  <2>3. t \in Seq(Item) /\ Len(t) = 4  BY <2>2, MarkItem
  <2>4. /\ t[1].type = "BOT" /\ t[2].type = "BODY" /\ t[3].type = "EOT" /\ t[4].type = "EOF"
    BY DEF Bot, Mark
  <2>5. \A i \in 1..4 : i = 1 \/ i = 2 \/ i = 3 \/ i = 4  OBVIOUS
  <2>. HIDE DEF t
  <2>. QED  BY <2>3, <2>4, <2>5
<1>5. /\ \A h \in live \ {x} : pb'[h] = pb[h]
      /\ pb'[x] = Front(pb[x]) \o t
  BY <1>2, <1>3
<1>. HIDE DEF t
<1>6. /\ WellFormed(pb'[x])
      /\ Top(x) = "EOF" => Head(pb'[x]).type = "BOT"
      /\ Top(x) # "EOF" => Head(pb'[x]) = Head(pb[x])
  <2>. DEFINE s == pb[x]
  <2>1. s \in Seq(Item) /\ WellFormed(s) /\ Top(x) = Head(s).type  BY <1>3, TopOf
  <2>2. pb'[x] = Front(s) \o t  BY <1>5
  <2>. HIDE DEF s
  <2>3. /\ WellFormed(Front(s) \o t)
        /\ Head(s).type = "EOF" => Head(Front(s) \o t) = t[1]
        /\ Head(s).type # "EOF" => Head(Front(s) \o t) = Head(s)
    BY <1>4, <2>1, AddWellFormed
  <2>. QED  BY <1>4, <2>1, <2>2, <2>3 DEF s
<1>7. UNCHANGED <<live, parent, named, flags, nchild, undefs, del, ws, phase>>
  BY DEF do_thread, threadVars, chanVars, ctlVars
<1>8. StillBlocked /\ TreeFrame  BY <1>7, SameStatus DEF TreeFrame
<1>9. PICK X \in SUBSET {x} : /\ Ready' = X \cup Ready /\ IsInjective(rtl')
                              /\ X # {} => Awakable(x) /\ Top(x) = "EOF"
  <2>1. CASE Top(x) = "EOF"
    <3>1. rtl' = <<x>> \o rtl /\ x \notin ToSet(rtl)
      BY <1>1, <1>2, <2>1 DEF awake_if_idle, Ready
    <3>2. Awakable(x)  BY <1>1, <2>1, IdleAwakable
    <3>3. Ready' = {x} \cup Ready /\ IsInjective(rtl')
      BY <1>3, <3>1, ConsReady DEF Ready
    <3>. QED  BY <2>1, <3>2, <3>3
  <2>2. CASE Top(x) # "EOF"
    <3>1. rtl' = rtl  BY <1>2, <2>2 DEF awake_if_idle
    <3>. QED  BY <1>3, <3>1 DEF Ready
  <2>. QED  BY <2>1, <2>2
<1>10. ASSUME NEW h \in live  PROVE Top(h)' = Top(h) \/ (h = x /\ Top(x) = "EOF")
  BY <1>3, <1>5, <1>6, TopOf DEF Top, WellFormed
<1>11. Stacks'  BY <1>5, <1>6, <1>7 DEF TreeInv, Stacks
<1>12. AtEnd'
  <2>1. ASSUME NEW h \in Ready'  PROVE Top(h)' # "EOF"
    <3>1. CASE h = x /\ Top(x) = "EOF"  BY <1>6, <3>1 DEF Top, WellFormed
    <3>2. CASE ~(h = x /\ Top(x) = "EOF")
      <4>1. h \in Ready /\ h \in live  BY <1>9, <2>1, <3>2 DEF TreeInv, Listed
      <4>. QED  BY <1>1, <1>10, <3>2, <4>1
    <3>. QED  BY <3>1, <3>2
  <2>. QED  BY <2>1 DEF AtEnd
<1>13. Sleepers'
  <2>1. ASSUME NEW d \in Channel, NEW v \in Thread, IsBlocked(d, v)'
        PROVE  /\ ws'[d][v].sleep_thd \in live' \ Ready'
               /\ Refers(pb'[ws'[d][v].sleep_thd][1], d, v, ws'[d][v].status)
    <3>1. ws' = ws /\ IsBlocked(d, v)  BY <1>7, <2>1 DEF IsBlocked
    <3>2. PICK h \in live \ Ready : /\ h = ws[d][v].sleep_thd
                                    /\ Refers(pb[h][1], d, v, ws[d][v].status)
      BY <3>1 DEF TreeInv, Sleepers
    <3>3. Top(h) # "EOF" /\ Head(pb[h]) = pb[h][1]  BY <3>2, TopOf DEF Refers
    <3>4. h \notin Ready'  BY <1>9, <3>2, <3>3
    <3>5. pb'[h][1] = pb[h][1]
      <4>1. CASE h = x
        <5>1. Head(pb'[x]) = pb'[x][1]  OBVIOUS
        <5>. QED  BY <1>6, <3>3, <4>1, <5>1
      <4>2. CASE h # x  BY <1>5, <4>2
      <4>. QED  BY <4>1, <4>2
    <3>. QED  BY <1>7, <3>1, <3>2, <3>4, <3>5
  <2>. QED  BY <2>1 DEF Sleepers
<1>14. \A h \in live : Top(h)' = Top(h) \/ Awakable(h)
  BY <1>1, <1>10, IdleAwakable
<1>15. \A h \in Ready' : Awakable(h)  BY <1>9, ReadyAwakable
<1>. QED  BY <1>1, <1>8, <1>9, <1>11, <1>12, <1>13, <1>14, <1>15, StackStep

-----------------------------------------------------------------------------
(* signal: the threads it wakes sleep, each on one receiver, so none is    *)
(* put into the ready list twice, and none of them still sleeps elsewhere. *)
LEMMA SleeperOf ==
  ASSUME TypeInv, TreeInv, NEW c \in Channel, NEW w \in Thread, IsBlocked(c, w)
  PROVE  \E h \in live \ Ready :
           /\ h = ws[c][w].sleep_thd /\ Refers(pb[h][1], c, w, ws[c][w].status)
           /\ Head(pb[h]) = pb[h][1] /\ Top(h) \in {"EWAIT", "EALT"}
<1>1. PICK h \in live \ Ready : /\ h = ws[c][w].sleep_thd
                                /\ Refers(pb[h][1], c, w, ws[c][w].status)
  BY DEF TreeInv, Sleepers
<1>2. Head(pb[h]) = pb[h][1] /\ Top(h) \in {"EWAIT", "EALT"}
  BY <1>1, TopOf DEF Refers
<1>. QED  BY <1>1, <1>2

LEMMA OneReceiver ==
  ASSUME TypeInv, TreeInv, NEW c \in Channel, NEW d \in Channel,
         NEW v \in Thread, NEW w \in Thread, IsBlocked(c, v), IsBlocked(d, w),
         ws[c][v].sleep_thd = ws[d][w].sleep_thd
  PROVE  /\ v = w
         /\ d = c \/ (ws[c][v].status = "AltBlocked"
                      /\ d \in GuardChannels(Head(pb[ws[c][v].sleep_thd])))
<1>1. PICK h \in live \ Ready :
           /\ h = ws[c][v].sleep_thd /\ Refers(pb[h][1], c, v, ws[c][v].status)
           /\ Head(pb[h]) = pb[h][1]
  BY SleeperOf
<1>2. Refers(pb[h][1], d, w, ws[d][w].status)
  BY <1>1 DEF TreeInv, Sleepers
<1>. QED  BY <1>1, <1>2 DEF Refers

LEMMA WokenReady ==
  ASSUME TypeInv, TreeInv, NEW c \in Channel, NEW order \in WakeOrders(c)
  PROVE  LET woken == [i \in DOMAIN order |-> ws[c][order[i]].sleep_thd]
         IN /\ woken \in Seq(Thread) /\ IsInjective(woken)
            /\ \A h \in ToSet(woken) : \E w \in Thread :
                 /\ w \in ToSet(wtop[c]) /\ IsBlocked(c, w)
                 /\ h = ws[c][w].sleep_thd
<1>. DEFINE S == {w \in ToSet(wtop[c]) : IsBlocked(c, w)}
            woken == [i \in DOMAIN order |-> ws[c][order[i]].sleep_thd]
<1>1. S \subseteq Thread /\ \A w \in S : IsBlocked(c, w) /\ w \in ToSet(wtop[c])
  <2>1. wtop[c] \in Seq(Thread)  BY DEF TypeInv, TypeOK
  <2>. QED  BY <2>1, ElementsInSet
<1>2. /\ DOMAIN order = 1..Cardinality(S) /\ \A i \in DOMAIN order : order[i] \in S
      /\ \A i, j \in DOMAIN order : i # j => order[i] # order[j]
  BY DEF WakeOrders, SetToSeqs
<1>3. woken \in Seq(Thread)  BY WokenThreads
<1>. HIDE DEF S
<1>4. DOMAIN woken = DOMAIN order /\ \A i \in DOMAIN order : woken[i] = ws[c][order[i]].sleep_thd
  OBVIOUS
<1>. HIDE DEF woken
<1>5. ASSUME NEW i \in DOMAIN woken, NEW j \in DOMAIN woken, woken[i] = woken[j]
      PROVE  i = j
  <2>1. /\ order[i] \in Thread /\ IsBlocked(c, order[i])
        /\ order[j] \in Thread /\ IsBlocked(c, order[j])
        /\ ws[c][order[i]].sleep_thd = ws[c][order[j]].sleep_thd
    BY <1>1, <1>2, <1>4, <1>5
  <2>2. order[i] = order[j]  BY <2>1, OneReceiver
  <2>. QED  BY <1>2, <1>4, <2>2
<1>6. IsInjective(woken)  BY <1>5 DEF IsInjective
<1>7. ASSUME NEW h \in ToSet(woken)
      PROVE  \E w \in Thread : /\ w \in ToSet(wtop[c]) /\ IsBlocked(c, w)
                               /\ h = ws[c][w].sleep_thd
  <2>1. PICK i \in DOMAIN woken : h = woken[i]  BY DEF ToSet
  <2>. QED  BY <1>1, <1>2, <1>4, <2>1
<1>. QED  BY <1>3, <1>6, <1>7 DEF woken

LEMMA SendTree ==
  ASSUME TypeInv, TreeInv, NEW c \in Channel, NEW time, NEW obj, NEW gone,
         Send(c, time, obj, gone)
  PROVE  /\ IsInjective(rtl') /\ StillBlocked
         /\ rtl # <<>> => cur' = cur
         /\ \E W \in SUBSET (live \ Ready) :
              /\ Ready' = Ready \cup W
              /\ \A h \in W : Top(h) \in {"EWAIT", "EALT"}
              /\ \A d \in Channel, v \in Thread :
                   IsBlocked(d, v)' => ws[d][v].sleep_thd \notin Ready'
<1>1. PICK order \in WakeOrders(c) :
        rtl' = rtl \o [i \in DOMAIN order |-> ws[c][order[i]].sleep_thd]
  BY DEF Send
<1>. DEFINE woken == [i \in DOMAIN order |-> ws[c][order[i]].sleep_thd]
<1>2. /\ woken \in Seq(Thread) /\ IsInjective(woken)
      /\ \A h \in ToSet(woken) : \E w \in Thread :
           /\ w \in ToSet(wtop[c]) /\ IsBlocked(c, w)
           /\ h = ws[c][w].sleep_thd
  BY WokenReady
<1>3. rtl' = rtl \o woken  BY <1>1
<1>. HIDE DEF woken
<1>4. \A d \in Channel, v \in Thread :
        /\ ws'[d][v].status = IF v \in gone THEN "Idle"
                              ELSE IF WokenBy(c, d, v) THEN "Executing" ELSE ws[d][v].status
        /\ v \notin gone /\ ~WokenBy(c, d, v) => ws'[d][v].sleep_thd = ws[d][v].sleep_thd
  BY DEF Send, NoStatus
<1>5. ASSUME NEW d \in Channel, NEW v \in Thread, IsBlocked(d, v)'
      PROVE  /\ IsBlocked(d, v) /\ ~WokenBy(c, d, v)
             /\ ws'[d][v].sleep_thd = ws[d][v].sleep_thd
             /\ ws'[d][v].status = ws[d][v].status
  BY <1>4, <1>5 DEF IsBlocked
<1>6. StillBlocked  BY <1>5 DEF StillBlocked
<1>. DEFINE W == ToSet(woken)
<1>7. W \in SUBSET (live \ Ready) /\ \A h \in W : Top(h) \in {"EWAIT", "EALT"}
  BY <1>2, SleeperOf
<1>8. rtl \in Seq(Thread) /\ IsInjective(rtl)  BY DEF TypeInv, TypeOK, TreeInv, Listed
<1>9. ToSet(rtl) \cap ToSet(woken) = {}  BY <1>7 DEF Ready
<1>10. /\ Ready' = Ready \cup W /\ IsInjective(rtl')
       /\ rtl # <<>> => Head(rtl') = Head(rtl)
  BY <1>2, <1>3, <1>8, <1>9, ConcatReady DEF Ready
<1>11. ASSUME NEW d \in Channel, NEW v \in Thread, IsBlocked(d, v)'
       PROVE  ws[d][v].sleep_thd \notin Ready'
  <2>1. IsBlocked(d, v) /\ ~WokenBy(c, d, v)  BY <1>5, <1>11
  <2>2. ws[d][v].sleep_thd \notin Ready  BY <2>1, SleeperOf
  <2>3. ASSUME ws[d][v].sleep_thd \in W  PROVE FALSE
    <3>1. PICK w \in Thread : /\ w \in ToSet(wtop[c]) /\ IsBlocked(c, w)
                              /\ ws[d][v].sleep_thd = ws[c][w].sleep_thd
      BY <1>2, <2>3
    <3>2. /\ w = v
          /\ d = c \/ (ws[c][w].status = "AltBlocked"
                       /\ d \in GuardChannels(Head(pb[ws[c][w].sleep_thd])))
      BY <2>1, <3>1, OneReceiver
    <3>. QED  BY <2>1, <3>1, <3>2 DEF WokenBy, HasStatus
  <2>. QED  BY <1>10, <2>2, <2>3
<1>12. \E X \in SUBSET (live \ Ready) :
              /\ Ready' = Ready \cup X
              /\ \A h \in X : Top(h) \in {"EWAIT", "EALT"}
              /\ \A d \in Channel, v \in Thread :
                   IsBlocked(d, v)' => ws[d][v].sleep_thd \notin Ready'
  BY <1>7, <1>10, <1>11
<1>. QED  BY <1>6, <1>10, <1>12 DEF cur

LEMMA SignalTree ==
  ASSUME TypeInv, TypeInv', TreeInv, do_signal
  PROVE  TreeInv'
<1>1. /\ rtl # <<>> /\ undefs = {} /\ \A h \in Ready : Top(h) # "EOF"
  BY CommandTree DEF do_signal
<1>2. PICK c \in Channel, obj \in Loaded : Send(c, reg_t[cur], obj, {})
  BY DEF do_signal
<1>3. UNCHANGED <<live, parent, named, flags, nchild, undefs, del, pb>>
  BY DEF do_signal, threadVars, stackVars, ctlVars
<1>4. IsInjective(rtl') /\ StillBlocked  BY <1>2, SendTree
<1>5. PICK W \in SUBSET (live \ Ready) :
        /\ Ready' = Ready \cup W
        /\ \A h \in W : Top(h) \in {"EWAIT", "EALT"}
        /\ \A d \in Channel, v \in Thread :
             IsBlocked(d, v)' => ws[d][v].sleep_thd \notin Ready'
  BY <1>2, SendTree
<1>6. TreeFrame  BY <1>3 DEF TreeFrame
<1>7. \A h \in live : Top(h)' = Top(h)  BY <1>3 DEF Top
<1>8. Stacks'  BY <1>3 DEF TreeInv, Stacks
<1>9. \A h \in Ready' : Top(h)' # "EOF"
  BY <1>1, <1>5, <1>7 DEF TreeInv, Listed
<1>10. AtEnd'  BY <1>9 DEF AtEnd
<1>11. ASSUME NEW d \in Channel, NEW v \in Thread, IsBlocked(d, v)'
       PROVE  /\ ws'[d][v].sleep_thd \in live' \ Ready'
              /\ Refers(pb'[ws'[d][v].sleep_thd][1], d, v, ws'[d][v].status)
  <2>1. /\ IsBlocked(d, v) /\ ws'[d][v].sleep_thd = ws[d][v].sleep_thd
        /\ ws'[d][v].status = ws[d][v].status
    BY <1>4, <1>11 DEF StillBlocked
  <2>. QED  BY <1>3, <1>5, <1>11, <2>1 DEF TreeInv, Sleepers
<1>12. Sleepers'  BY <1>11 DEF Sleepers
<1>13. \A h \in Ready' : Awakable(h)  BY <1>5, ReadyAwakable, BusyAwakable
<1>. QED  BY <1>1, <1>4, <1>6, <1>7, <1>8, <1>10, <1>12, <1>13, StackStep

(* undef(channel) leaves the types of the tokens as they are, and refuses  *)
(* while a receiver of the channel sleeps.                                 *)
LEMMA DestroyTree ==
  ASSUME TypeInv, TypeInv', TreeInv, destroy_channel
  PROVE  TreeInv'
<1>1. /\ phase = "running" /\ undefs = {} /\ \A h \in Ready : Top(h) # "EOF"
  BY CommandTree DEF destroy_channel
<1>2. CASE Halt("error")  BY <1>1, <1>2, HaltTree
<1>3. CASE ~Halt("error")
  <2>1. PICK c \in ToSet(all_chnls) :
          /\ ws' = [ws EXCEPT ![c] = [w \in Thread |-> NoStatus]]
          /\ pb' = [h \in Thread |-> [i \in DOMAIN pb[h] |->
                     IF pb[h][i].type = "EALT"
                     THEN [pb[h][i] EXCEPT !.guards = [k \in DOMAIN @ |->
                            IF @[k].chnl = c THEN [@[k] EXCEPT !.chnl = Freed] ELSE @[k]]]
                     ELSE pb[h][i]]]
          /\ UNCHANGED <<rtl, threadVars, ctlVars>>
    BY <1>3, Zenon DEF destroy_channel
  <2>. DEFINE free(e) == IF e.chnl = c THEN [e EXCEPT !.chnl = Freed] ELSE e
              gs(item) == [k \in DOMAIN item.guards |-> free(item.guards[k])]
              New(item) == IF item.type = "EALT" THEN [item EXCEPT !.guards = gs(item)]
                           ELSE item
  <2>2. pb' = [h \in Thread |-> [i \in DOMAIN pb[h] |-> New(pb[h][i])]]  BY <2>1
  <2>3. ASSUME NEW item \in Item
        PROVE  /\ New(item).type = item.type
               /\ \A d \in Channel \ {c}, w \in Thread : \A status :
                    Refers(item, d, w, status) => Refers(New(item), d, w, status)
    <3>1. CASE item.type = "EALT"
      <4>. DEFINE new == [item EXCEPT !.guards = gs(item)]
      <4>1. item \in [type : {"EALT"},
                      guards : Seq([chnl : Channel \cup {Freed}, bind : BOOLEAN]),
                      wait_thd : Thread, default : BOOLEAN]
        BY <3>1 DEF Item
      <4>2. /\ new.type = "EALT" /\ new.wait_thd = item.wait_thd /\ new.guards = gs(item)
        <5>. HIDE DEF gs
        <5>. QED  BY <4>1
      <4>3. DOMAIN gs(item) = DOMAIN item.guards
            /\ \A k \in DOMAIN item.guards : gs(item)[k] = free(item.guards[k])
        OBVIOUS
      <4>. HIDE DEF gs, new
      <4>4. ASSUME NEW d \in Channel \ {c}, d \in GuardChannels(item)
            PROVE  d \in GuardChannels(new)
        <5>1. PICK k \in DOMAIN item.guards : d = item.guards[k].chnl
          BY <4>4 DEF GuardChannels
        <5>2. gs(item)[k].chnl = d  BY <4>3, <4>4, <5>1
        <5>. QED  BY <4>2, <4>3, <5>2 DEF GuardChannels
      <4>5. New(item) = new  BY <3>1 DEF new
      <4>. HIDE DEF New
      <4>. QED  BY <3>1, <4>2, <4>4, <4>5 DEF Refers
    <3>2. CASE item.type # "EALT"  BY <3>2
    <3>. QED  BY <3>1, <3>2
  <2>. HIDE DEF New
  <2>4. ASSUME NEW h \in live
        PROVE  /\ WellFormed(pb'[h]) /\ Top(h)' = Top(h)
               /\ pb'[h][1] = New(pb[h][1]) /\ pb[h][1] \in Item
    <3>1. /\ h \in Thread /\ pb[h] \in Seq(Item) /\ WellFormed(pb[h])
          /\ pb'[h] \in Seq(Item)
      BY TopOf DEF TypeInv, TypeOK
    <3>. DEFINE s == pb[h]
                r == pb'[h]
    <3>2. r = [i \in DOMAIN s |-> New(s[i])]  BY <2>2, <3>1
    <3>3. s \in Seq(Item) /\ WellFormed(s) /\ r \in Seq(Item)  BY <3>1
    <3>. HIDE DEF s, r
    <3>4. /\ Len(s) \in Nat /\ DOMAIN s = 1..Len(s) /\ Len(s) > 0
          /\ Len(r) \in Nat /\ DOMAIN r = 1..Len(r)
      BY <3>3, Places DEF WellFormed
    <3>5. DOMAIN r = DOMAIN s  BY <3>2
    <3>6. Len(r) = Len(s)
      <4>1. Len(s) \in 1..Len(r)  BY <3>4, <3>5
      <4>2. Len(r) \in 1..Len(s)  BY <3>4, <3>5, <4>1
      <4>3. Len(s) \in Nat /\ Len(r) \in Nat  BY <3>4
      <4>. QED  BY <4>1, <4>2, <4>3
    <3>7. \A i \in 1..Len(s) : r[i] = New(s[i]) /\ s[i] \in Item /\ r[i].type = s[i].type
      BY <2>3, <3>2, <3>3, <3>4, ElementOfSeq
    <3>8. r # <<>>  BY <3>4, <3>6, EmptySeq
    <3>9. ASSUME NEW i \in 1..Len(r)
          PROVE  /\ r[i].type = "EOF" <=> i = Len(r)
                 /\ r[i].type = "EALT" => r[i+1].type = "BODY"
      <4>1. r[i].type = s[i].type /\ i \in 1..Len(s)  BY <3>6, <3>7
      <4>2. ASSUME s[i].type = "EALT"  PROVE r[i+1].type = "BODY"
        <5>1. s[i+1].type = "BODY" /\ i # Len(s)  BY <3>3, <4>1, <4>2 DEF WellFormed
        <5>2. i + 1 \in 1..Len(s)
          <6>1. Len(s) \in Nat  BY <3>4
          <6>. QED  BY <4>1, <5>1, <6>1
        <5>. QED  BY <3>7, <5>1, <5>2
      <4>. QED  BY <3>3, <3>6, <4>1, <4>2 DEF WellFormed
    <3>10. WellFormed(r)  BY <3>8, <3>9 DEF WellFormed
    <3>11. Head(r) = r[1] /\ Head(s) = s[1] /\ 1 \in 1..Len(s)  BY <3>4
    <3>12. s # <<>>  BY <3>3 DEF WellFormed
    <3>13. Top(h)' = r[1].type /\ Top(h) = s[1].type  BY <3>8, <3>11, <3>12 DEF Top, r, s
    <3>. QED  BY <3>7, <3>10, <3>11, <3>13 DEF r, s
  <2>5. UNCHANGED <<rtl, live, parent, named, flags, nchild, undefs, del, phase>>
    BY <2>1 DEF threadVars, ctlVars
  <2>6. TreeFrame  BY <2>5 DEF TreeFrame
  <2>7. Ready' = Ready /\ IsInjective(rtl') /\ Ready \subseteq live
    BY <2>5 DEF TreeInv, Listed, Ready
  <2>8. Stacks'  BY <2>4, <2>5 DEF Stacks
  <2>9. \A h \in Ready' : Top(h)' # "EOF"  BY <1>1, <2>4, <2>7
  <2>10. AtEnd'  BY <2>9 DEF AtEnd
  <2>11. ASSUME NEW d \in Channel, NEW v \in Thread, IsBlocked(d, v)'
         PROVE  /\ ws'[d][v].sleep_thd \in live' \ Ready'
                /\ Refers(pb'[ws'[d][v].sleep_thd][1], d, v, ws'[d][v].status)
    <3>1. ws \in [Channel -> [Thread -> Status]]  BY DEF TypeInv, TypeOK
    <3>2. d # c
      <4>1. ASSUME d = c  PROVE FALSE
        <5>1. ws'[d][v] = NoStatus  BY <2>1, <3>1, <4>1
        <5>. QED  BY <2>11, <5>1 DEF IsBlocked, NoStatus
      <4>. QED  BY <4>1
    <3>3. ws'[d][v] = ws[d][v]  BY <2>1, <3>1, <3>2
    <3>4. IsBlocked(d, v)  BY <2>11, <3>3 DEF IsBlocked
    <3>5. PICK h \in live \ Ready : /\ h = ws[d][v].sleep_thd
                                    /\ Refers(pb[h][1], d, v, ws[d][v].status)
      BY <3>4 DEF TreeInv, Sleepers
    <3>6. Refers(pb'[h][1], d, v, ws[d][v].status)  BY <2>3, <2>4, <3>2, <3>5
    <3>. QED  BY <2>5, <2>7, <3>3, <3>5, <3>6
  <2>12. Sleepers'  BY <2>11 DEF Sleepers
  <2>13. \A h \in Ready' : Awakable(h)  BY <2>7, ReadyAwakable
  <2>. QED  BY <1>1, <2>4, <2>6, <2>7, <2>8, <2>10, <2>12, <2>13, StackStep
<1>. QED  BY <1>2, <1>3

-----------------------------------------------------------------------------
(* Steps that change who is named, who is deleted and what undef has left. *)
LEMMA UndefTree ==
  ASSUME TypeInv, TypeInv', TreeInv, do_undef
  PROVE  TreeInv'
<1>1. phase = "running" /\ del = NoThread /\ \A h \in Ready : Top(h) # "EOF"
  BY CommandTree DEF do_undef
<1>2. CASE Halt("error")  BY <1>1, <1>2, HaltTree
<1>3. CASE ~Halt("error")
  <2>1. /\ undefs' \subseteq named /\ phase' = "undef"
        /\ UNCHANGED <<rtl, live, parent, named, flags, nchild, pb, ws, del>>
    BY <1>3 DEF do_undef, threadVars, stackVars, chanVars
  <2>2. Shape' /\ Count' /\ Stacks' /\ Sleepers' /\ Exits' /\ Groups'
    BY <2>1 DEF TreeInv, Shape, Count, Stacks, Sleepers, Exits, Groups, IsBlocked, Ready,
                Exiting, Suspending, Top
  <2>3. Listed'  BY <1>1, <2>1 DEF TreeInv, Listed, AtEnd, Ready, Top
  <2>4. Deleted'  BY <1>1, <2>1 DEF Deleted
  <2>5. Names'  BY <2>1 DEF TreeInv, Names
  <2>. QED  BY <2>2, <2>3, <2>4, <2>5 DEF TreeInv
<1>. QED  BY <1>2, <1>3

LEMMA DictTree ==
  ASSUME TypeInv, TypeInv', TreeInv, delete_dict
  PROVE  TreeInv'
<1>1. PICK h \in undefs :
        /\ undefs' = undefs \ {h} /\ named' = named \ {h}
        /\ del' = IF Top(h) = "EOF" THEN h ELSE NoThread
        /\ phase' = IF undefs = {h} THEN "running" ELSE phase
  BY DEF delete_dict
<1>2. /\ phase = "undef" /\ del = NoThread
      /\ UNCHANGED <<rtl, live, parent, flags, nchild, pb, ws>>
  BY DEF delete_dict, stackVars, chanVars
<1>3. h \in live /\ h \in Thread /\ live \subseteq Thread
  BY DEF TreeInv, Names, TypeInv, TypeOK
<1>4. \A k \in Ready : Top(k) # "EOF"  BY <1>2 DEF TreeInv, Listed, AtEnd, Waking
<1>5. Shape' /\ Count' /\ Stacks' /\ Sleepers'
  BY <1>2 DEF TreeInv, Shape, Count, Stacks, Sleepers, IsBlocked, Ready
<1>6. Listed'  BY <1>2, <1>4 DEF TreeInv, Listed, AtEnd, Ready, Top
<1>7. Deleted'
  <2>1. ASSUME del' # NoThread  PROVE del' = h /\ Top(h) = "EOF"  BY <1>1, <2>1
  <2>2. ASSUME Top(h) = "EOF", del' = h
        PROVE  /\ del' \in live' \ (Ready' \cup undefs') /\ pb' = pb /\ del' \notin named'
    BY <1>1, <1>2, <1>3, <1>4, <2>2 DEF Ready
  <2>. QED  BY <2>1, <2>2 DEF Deleted, Top
<1>8. Exits'  BY <1>1, <1>2 DEF TreeInv, Exits, Exiting, Ready, Top
<1>9. Names'  BY <1>1, <1>2 DEF TreeInv, Names
<1>10. \A k \in Thread : Suspending(k)' => Suspending(k)
  BY <1>2, <1>3, ThreadAssumption DEF Suspending, Exiting
<1>11. Groups'  BY <1>2, <1>10 DEF TreeInv, Groups, Ready, Top
<1>. QED  BY <1>5, <1>6, <1>7, <1>8, <1>9, <1>11 DEF TreeInv

LEMMA CleanupTree ==
  ASSUME TypeInv, TypeInv', TreeInv, cleanup_idle_threads
  PROVE  TreeInv'
<1>1. /\ phase = "cleanup" /\ del = NoThread /\ undefs = {}
      /\ UNCHANGED <<rtl, live, parent, named, flags, nchild, pb, ws, undefs>>
  BY DEF cleanup_idle_threads, threadVars, stackVars, chanVars, TreeInv, Names
<1>2. \A k \in Ready : Top(k) # "EOF"  BY <1>1 DEF TreeInv, Listed, AtEnd, Waking
<1>3. CASE del' = del /\ phase' # "undef"
  <2>1. StillBlocked /\ TreeFrame  BY <1>1, <1>3, SameStatus DEF TreeFrame
  <2>. QED  BY <1>1, <1>2, <1>3, <2>1, QuietStep
<1>4. CASE \E h \in named : Idle(h) /\ nchild[h] = 0 /\ del' = h /\ phase' = phase
  <2>1. PICK h \in named : Idle(h) /\ nchild[h] = 0 /\ del' = h /\ phase' = phase
    BY <1>4
  <2>2. h \in live /\ h \notin Ready /\ Top(h) = "EOF"
    BY <1>2, <2>1 DEF TreeInv, Names, Idle
  <2>3. Shape' /\ Count' /\ Stacks' /\ Sleepers' /\ Exits' /\ Names'
    BY <1>1, <2>1 DEF TreeInv, Shape, Count, Stacks, Sleepers, Exits, Names, IsBlocked,
                      Ready, Exiting, Top
  <2>4. Listed'  BY <1>1, <1>2, <2>1 DEF TreeInv, Listed, AtEnd, Ready, Top, cur
  <2>5. Deleted'  BY <1>1, <2>1, <2>2 DEF Deleted, Ready, Top
  <2>6. \A k \in Thread : Suspending(k)' => Suspending(k)
    BY <1>1, ThreadAssumption DEF Suspending, Exiting
  <2>7. Groups'  BY <1>1, <2>6 DEF TreeInv, Groups, Ready, Top
  <2>. QED  BY <2>3, <2>4, <2>5, <2>7 DEF TreeInv
<1>. QED  BY <1>3, <1>4, <1>1 DEF cleanup_idle_threads

(* A thread with children exits; the last child deletes it.                *)
LEMMA PostponeTree ==
  ASSUME TypeInv, TypeInv', TreeInv, postpone_delete
  PROVE  TreeInv'
<1>1. /\ del # NoThread /\ nchild[del] > 0 /\ del' = NoThread
      /\ flags' = [flags EXCEPT ![del] = @ \cup {"EXITING"}]
      /\ UNCHANGED <<rtl, live, parent, named, nchild, pb, ws, phase, undefs>>
  BY DEF postpone_delete, HasChildren, stackVars, chanVars
<1>2. PICK x \in live \ Ready : x = del /\ Top(x) = "EOF" /\ x \notin named
  BY <1>1 DEF TreeInv, Deleted
<1>3. /\ flags \in [Thread -> SUBSET Flag] /\ live \subseteq Thread /\ named \subseteq live
      /\ NoThread \notin live
  BY ThreadAssumption DEF TypeInv, TypeOK, TreeInv, Names
<1>4. flags' = [flags EXCEPT ![x] = @ \cup {"EXITING"}]  BY <1>1, <1>2
<1>5. /\ \A h \in Thread : h # x => flags'[h] = flags[h]
      /\ flags'[x] = flags[x] \cup {"EXITING"}
  BY <1>2, <1>3, <1>4
<1>6. Shape' /\ Count' /\ Stacks' /\ Sleepers'
  BY <1>1 DEF TreeInv, Shape, Count, Stacks, Sleepers, IsBlocked, Ready
<1>7. Listed'  BY <1>1 DEF TreeInv, Listed, AtEnd, Ready, Top, cur
<1>8. Deleted'  BY <1>1 DEF Deleted
<1>9. Exits'
  <2>1. ASSUME NEW h \in live, Exiting(h)'  PROVE Top(h) = "EOF" /\ h \notin Ready \cup named
    BY <1>2, <1>3, <1>5, <2>1 DEF TreeInv, Exits, Exiting
  <2>. QED  BY <1>1, <2>1 DEF Exits, Ready, Top
<1>10. Names'  BY <1>1, <1>2, <1>3, <1>5 DEF TreeInv, Names
<1>11. \A k \in Thread : Suspending(k)' => Suspending(k)
  BY <1>1, <1>2, <1>5 DEF Suspending, Exiting
<1>12. Groups'  BY <1>1, <1>11 DEF TreeInv, Groups, Ready, Top
<1>. QED  BY <1>6, <1>7, <1>8, <1>9, <1>10, <1>12 DEF TreeInv

-----------------------------------------------------------------------------
(* The current thread is at its EOF: a group wakes its parent, and an      *)
(* unnamed thread is deleted.                                              *)
LEMMA EofTree ==
  ASSUME TypeInv, TypeInv', TreeInv, do_eof
  PROVE  TreeInv'
<1>1. /\ phase \in {"running", "break"} /\ del = NoThread /\ rtl # <<>> /\ Top(cur) = "EOF"
      /\ UNCHANGED <<live, parent, named, flags, nchild, pb, ws, phase, undefs>>
  BY DEF do_eof, threadVars, stackVars, chanVars
<1>2. PICK x \in Ready : /\ x = cur /\ x \in live /\ x \in Thread /\ Awakable(x)
  BY <1>1, CurReady
<1>3. rtl \in Seq(Thread) /\ IsInjective(rtl) /\ Ready \subseteq live /\ live \subseteq Thread
  BY DEF TypeInv, TypeOK, TreeInv, Listed
<1>4. /\ rtl' = IF Returns(x) THEN <<parent[x]>> \o Tail(rtl) ELSE Tail(rtl)
      /\ del' = IF x \in named THEN NoThread ELSE x
  BY <1>2 DEF do_eof
<1>5. /\ IsInjective(Tail(rtl)) /\ Tail(rtl) \in Seq(Thread)
      /\ ToSet(Tail(rtl)) = Ready \ {x}
  BY <1>1, <1>2, <1>3, TailReady, HeadTailProperties DEF Ready, cur
<1>6. undefs = {} /\ Top(x) = "EOF"  BY <1>1, <1>2 DEF TreeInv, Names
<1>7. PICK P \in SUBSET live :
        /\ IsInjective(rtl') /\ Ready' = P \cup (Ready \ {x})
        /\ \A p \in P : /\ p \notin Ready /\ Top(p) = "BODY" /\ Returns(x) /\ p = parent[x]
                        /\ Suspending(x)
  <2>1. CASE Returns(x)
    <3>. DEFINE p == parent[x]
    <3>1. Suspending(x)  BY <1>2, <2>1 DEF Returns, Suspending, Awakable
    <3>2. p \in live
      BY <1>2, <2>1, ThreadAssumption DEF Returns, TypeInv, GroupHasParent, TreeInv, Shape
    <3>3. p \notin Ready /\ Top(p) = "BODY"  BY <1>2, <3>1 DEF TreeInv, Groups
    <3>4. p \in Thread /\ rtl' = <<p>> \o Tail(rtl) /\ p = parent[x]
      BY <1>3, <1>4, <2>1, <3>2
    <3>. HIDE DEF p
    <3>5. IsInjective(rtl') /\ ToSet(rtl') = {p} \cup (Ready \ {x})
      BY <1>5, <3>3, <3>4, ConsReady
    <3>. QED  BY <2>1, <3>1, <3>2, <3>3, <3>4, <3>5 DEF Ready
  <2>2. CASE ~Returns(x)
    <3>1. rtl' = Tail(rtl)  BY <1>4, <2>2
    <3>2. {} \in SUBSET live /\ Ready' = {} \cup (Ready \ {x}) /\ IsInjective(rtl')
      BY <1>5, <3>1 DEF Ready
    <3>. QED  BY <3>2
  <2>. QED  BY <2>1, <2>2
<1>8. x \notin Ready'  BY <1>6, <1>7
<1>9. Shape' /\ Count' /\ Stacks' /\ Names'
  BY <1>1 DEF TreeInv, Shape, Count, Stacks, Names
<1>10. Sleepers'
  <2>1. ASSUME NEW c \in Channel, NEW w \in Thread, IsBlocked(c, w)
        PROVE  ws[c][w].sleep_thd \notin Ready'
    BY <1>7, <2>1, SleeperOf
  <2>. QED  BY <1>1, <2>1 DEF TreeInv, Sleepers, IsBlocked
<1>11. \A h \in Thread : Top(h)' = Top(h)  BY <1>1 DEF Top
<1>12. Listed'
  <2>1. \A h \in Ready' : Top(h)' # "EOF"
    BY <1>2, <1>3, <1>7, <1>11 DEF TreeInv, Listed, AtEnd
  <2>. QED  BY <1>1, <1>3, <1>7, <2>1 DEF Listed, AtEnd
<1>13. Deleted'
  <2>1. ASSUME del' # NoThread
        PROVE  /\ del' \in live' \ (Ready' \cup undefs') /\ pb' = pb /\ Top(x) = "EOF"
               /\ del' = x /\ del' \notin named'
    BY <1>1, <1>2, <1>4, <1>6, <1>8, <2>1
  <2>. QED  BY <2>1 DEF Deleted, Top
<1>14. Exits'
  <2>1. ASSUME NEW h \in live, Exiting(h)
        PROVE  Top(h)' = "EOF" /\ h \notin Ready' \cup named
    BY <1>3, <1>7, <1>11, <2>1 DEF TreeInv, Exits
  <2>. QED  BY <1>1, <2>1 DEF Exits, Exiting
<1>15. \A k \in Thread : Suspending(k)' => Suspending(k)
  BY <1>1, <1>3, ThreadAssumption DEF Suspending, Exiting
<1>16. Groups'
  <2>1. ASSUME NEW k \in Thread, Suspending(k)'
        PROVE  /\ parent[k] \notin Ready' /\ Top(parent[k]) = "BODY"
               /\ \A j \in Thread : Suspending(j)' /\ parent[j] = parent[k] => j = k
    <3>1. /\ Suspending(k) /\ parent[k] \notin Ready /\ Top(parent[k]) = "BODY"
          /\ \A j \in Thread : Suspending(j) /\ parent[j] = parent[k] => j = k
      BY <1>15, <2>1 DEF TreeInv, Groups
    <3>2. ASSUME NEW p \in P, p = parent[k]  PROVE FALSE
      <4>1. k = x /\ Returns(x)  BY <1>2, <1>7, <3>1, <3>2
      <4>2. del' = x  BY <1>4, <4>1 DEF Returns
      <4>. QED  BY <2>1, <4>1, <4>2 DEF Suspending
    <3>. QED  BY <1>7, <1>15, <3>1, <3>2
  <2>. QED  BY <1>1, <2>1 DEF Groups, Top
<1>. QED  BY <1>9, <1>10, <1>12, <1>13, <1>14, <1>16 DEF TreeInv

-----------------------------------------------------------------------------
(* create_thread: the new thread has no children, and one parent.          *)
LEMMA CreateTree ==
  ASSUME TypeInv, TreeInv, NEW new \in Thread \ live, NEW p \in live, NEW fs, NEW stack, NEW loops,
         create_thread(new, p, fs, stack, loops), WellFormed(stack), ws' = ws,
         Ready' \subseteq Ready \cup {new}
  PROVE  /\ Shape' /\ Count' /\ Stacks' /\ Sleepers'
         /\ \A h \in live : /\ pb'[h] = pb[h] /\ flags'[h] = flags[h] /\ parent'[h] = parent[h]
                             /\ Top(h)' = Top(h)
         /\ live' = live \cup {new}
         /\ pb'[new] = stack /\ flags'[new] = fs /\ parent'[new] = p
<1>1. /\ live \subseteq Thread /\ parent \in [Thread -> Thread \cup {NoThread}]
      /\ flags \in [Thread -> SUBSET Flag] /\ nchild \in [Thread -> Int]
      /\ pb \in [Thread -> Seq(Item)] /\ IsFiniteSet(live)
  BY ThreadAssumption, FS_Subset DEF TypeInv, TypeOK
<1>2. /\ live' = live \cup {new}
      /\ \A h \in live : pb'[h] = pb[h] /\ flags'[h] = flags[h] /\ parent'[h] = parent[h]
      /\ pb'[new] = stack /\ flags'[new] = fs /\ parent'[new] = p
  BY <1>1 DEF create_thread
<1>3. nchild'[new] = 0 /\ \A h \in live : nchild'[h] = IF h = p THEN nchild[h] + 1 ELSE nchild[h]
  BY <1>1 DEF create_thread
<1>4. \A h \in live : parent[h] # new
  BY ThreadAssumption DEF TreeInv, Shape
<1>5. Shape'  BY <1>2 DEF TreeInv, Shape
<1>6. Stacks'  BY <1>2 DEF TreeInv, Stacks
<1>7. Count'
  <2>1. ASSUME NEW h \in live'
        PROVE  nchild'[h] = Cardinality({k \in live' : parent'[k] = h})
    <3>. DEFINE old == {k \in live : parent[k] = h}
    <3>1. CASE h = new
      <4>1. {k \in live' : parent'[k] = h} = {}  BY <1>2, <1>4, <3>1
      <4>. QED  BY <1>3, <3>1, <4>1, FS_EmptySet
    <3>2. CASE h \in live /\ h = p
      <4>1. {k \in live' : parent'[k] = h} = old \cup {new} /\ new \notin old
        BY <1>2, <3>2
      <4>2. IsFiniteSet(old)  BY <1>1, FS_Subset
      <4>. HIDE DEF old
      <4>3. Cardinality(old \cup {new}) = Cardinality(old) + 1
        BY <4>1, <4>2, FS_AddElement
      <4>4. nchild[h] = Cardinality(old)  BY <3>2 DEF TreeInv, Count, old
      <4>. QED  BY <1>3, <3>2, <4>1, <4>3, <4>4
    <3>3. CASE h \in live /\ h # p
      <4>1. {k \in live' : parent'[k] = h} = old  BY <1>2, <3>3
      <4>2. nchild[h] = Cardinality(old)  BY <3>3 DEF TreeInv, Count
      <4>. QED  BY <1>3, <3>3, <4>1, <4>2
    <3>. QED  BY <1>2, <2>1, <3>1, <3>2, <3>3
  <2>. QED  BY <2>1 DEF Count
<1>8. Sleepers'
  <2>1. ASSUME NEW c \in Channel, NEW w \in Thread, IsBlocked(c, w)'
        PROVE  /\ ws'[c][w].sleep_thd \in live' \ Ready'
               /\ Refers(pb'[ws'[c][w].sleep_thd][1], c, w, ws'[c][w].status)
    <3>1. IsBlocked(c, w)  BY <2>1 DEF IsBlocked
    <3>2. PICK h \in live \ Ready : /\ h = ws[c][w].sleep_thd
                                    /\ Refers(pb[h][1], c, w, ws[c][w].status)
      BY <3>1, SleeperOf
    <3>. QED  BY <1>2, <3>2
  <2>. QED  BY <2>1 DEF Sleepers
<1>. QED  BY <1>2, <1>5, <1>6, <1>7, <1>8 DEF Top

LEMMA DefthreadTree ==
  ASSUME TypeInv, TypeInv', TreeInv, do_defthread
  PROVE  TreeInv'
<1>1. /\ rtl # <<>> /\ phase = "running" /\ del = NoThread /\ undefs = {}
      /\ \A h \in Ready : Top(h) # "EOF"
  BY CommandTree DEF do_defthread
<1>2. PICK p \in {cur} \cup named, new \in Thread \ live :
        /\ create_thread(new, p, {}, <<Mark("EOF")>>, 0)
        /\ named' = named \cup {new}
  BY DEF do_defthread
<1>3. UNCHANGED <<rtl, ws, phase, del, undefs>>  BY DEF do_defthread, chanVars, ctlVars
<1>4. /\ p \in live /\ named \subseteq live /\ live \subseteq Thread
      /\ NoThread \notin live /\ Ready \subseteq live /\ Ready' = Ready
  BY <1>1, <1>3, CurReady, ThreadAssumption DEF TreeInv, Names, TypeInv, TypeOK, Ready
<1>. DEFINE stack == <<Mark("EOF")>>
<1>5. WellFormed(stack)  BY DEF WellFormed, Mark
<1>. HIDE DEF stack
<1>6. create_thread(new, p, {}, stack, 0)  BY <1>2 DEF stack
<1>7. /\ Shape' /\ Count' /\ Stacks' /\ Sleepers'
      /\ \A h \in live : /\ pb'[h] = pb[h] /\ flags'[h] = flags[h] /\ parent'[h] = parent[h]
                          /\ Top(h)' = Top(h)
      /\ live' = live \cup {new} /\ flags'[new] = {}
  BY <1>3, <1>4, <1>5, <1>6, CreateTree
<1>8. \A h \in Ready' : Top(h)' # "EOF"  BY <1>1, <1>4, <1>7
<1>9. Listed'  BY <1>3, <1>4, <1>7, <1>8 DEF TreeInv, Listed, AtEnd
<1>10. Deleted'  BY <1>1, <1>3 DEF Deleted
<1>11. Exits'
  <2>1. ASSUME NEW h \in live', Exiting(h)'
        PROVE  Top(h)' = "EOF" /\ h \notin Ready' \cup named'
    <3>1. h \in live /\ h # new /\ Exiting(h)  BY <1>7, <2>1 DEF Exiting
    <3>. QED  BY <1>2, <1>4, <1>7, <3>1 DEF TreeInv, Exits
  <2>. QED  BY <2>1 DEF Exits
<1>12. Names'  BY <1>1, <1>2, <1>3, <1>4, <1>7 DEF TreeInv, Names
<1>13. ASSUME NEW k \in Thread, Suspending(k)'
       PROVE  Suspending(k) /\ k \in live /\ parent'[k] = parent[k]
  BY <1>1, <1>4, <1>7, <1>13 DEF Suspending, Exiting
<1>14. Groups'
  <2>1. ASSUME NEW k \in Thread, Suspending(k)'
        PROVE  /\ parent'[k] \notin Ready' /\ Top(parent[k])' = "BODY"
               /\ \A j \in Thread : Suspending(j)' /\ parent'[j] = parent'[k] => j = k
    <3>1. Suspending(k) /\ k \in live /\ parent'[k] = parent[k]  BY <1>13, <2>1
    <3>2. /\ parent[k] \notin Ready /\ Top(parent[k]) = "BODY"
          /\ \A j \in Thread : Suspending(j) /\ parent[j] = parent[k] => j = k
      BY <3>1 DEF TreeInv, Groups
    <3>3. PICK h \in live : h = parent[k]
      BY <3>1, ThreadAssumption DEF TypeInv, GroupHasParent, TreeInv, Shape, Suspending
    <3>4. Top(h)' = "BODY" /\ parent'[k] = h  BY <1>7, <3>1, <3>2, <3>3
    <3>. QED  BY <1>4, <1>13, <3>1, <3>2, <3>3, <3>4 DEF Top
  <2>. QED  BY <2>1 DEF Groups, Top
<1>. QED  BY <1>7, <1>9, <1>10, <1>11, <1>12, <1>14 DEF TreeInv

LEMMA GroupTree ==
  ASSUME TypeInv, TypeInv', TreeInv, do_lbrace \/ do_lbracket
  PROVE  TreeInv'
<1>1. /\ rtl # <<>> /\ phase = "running" /\ del = NoThread /\ undefs = {}
      /\ Top(cur) = "BODY" /\ \A h \in Ready : Top(h) # "EOF"
  BY CommandTree DEF do_lbrace, do_lbracket
<1>2. PICK x \in Ready : x = cur /\ x \in live
  BY <1>1, CurReady
<1>3. PICK pf \in {{}, {"PFLAG"}} : group(pf)  BY DEF do_lbrace, do_lbracket
<1>. DEFINE stack == <<Mark("BODY"), Mark("EOB"), Mark("EOF")>>
<1>4. PICK new \in Thread \ live, amp \in BOOLEAN :
        /\ create_thread(new, x, IF amp THEN pf ELSE pf \cup {"SFLAG"}, stack,
                         IF amp THEN 0 ELSE loop_count[x])
        /\ rtl' = IF amp THEN <<new>> \o rtl ELSE <<new>> \o Tail(rtl)
        /\ UNCHANGED <<named, ws, phase, del, undefs>>
  BY <1>2, <1>3 DEF group, chanVars, ctlVars
<1>5. WellFormed(stack) /\ stack # <<>> /\ Head(stack).type = "BODY"
  <2>1. \A i \in 1..3 : i = 1 \/ i = 2 \/ i = 3  OBVIOUS
  <2>2. /\ stack[1].type = "BODY" /\ stack[2].type = "EOB" /\ stack[3].type = "EOF"
        /\ stack # <<>> /\ Len(stack) = 3 /\ Head(stack) = stack[1]
    BY DEF Mark
  <2>. HIDE DEF stack
  <2>. QED  BY <2>1, <2>2 DEF WellFormed
<1>. HIDE DEF stack
<1>. DEFINE fs == IF amp THEN pf ELSE pf \cup {"SFLAG"}
<1>6. create_thread(new, x, fs, stack, IF amp THEN 0 ELSE loop_count[x])
      /\ "EXITING" \notin fs /\ ("SFLAG" \in fs => ~amp)
  BY <1>3, <1>4
<1>. HIDE DEF fs
<1>0. UNCHANGED <<named, ws, phase, del, undefs>>  BY <1>4
<1>7. /\ named \subseteq live /\ live \subseteq Thread /\ NoThread \notin live
      /\ Ready \subseteq live /\ rtl \in Seq(Thread) /\ IsInjective(rtl)
  BY ThreadAssumption DEF TreeInv, Listed, Names, TypeInv, TypeOK
<1>8. PICK R \in SUBSET Ready :
        /\ Ready' = {new} \cup R /\ IsInjective(rtl') /\ cur' = new
        /\ "SFLAG" \in fs => x \notin R
  <2>1. CASE amp
    <3>1. rtl' = <<new>> \o rtl /\ "SFLAG" \notin fs  BY <1>4, <1>6, <2>1
    <3>2. Ready' = {new} \cup Ready /\ IsInjective(rtl') /\ cur' = new
      BY <1>7, <3>1, ConsReady DEF Ready, cur
    <3>. QED  BY <3>1, <3>2
  <2>2. CASE ~amp
    <3>. DEFINE t == Tail(rtl)
    <3>1. /\ IsInjective(t) /\ ToSet(t) = Ready \ {x} /\ t \in Seq(Thread)
      BY <1>1, <1>2, <1>7, TailReady, HeadTailProperties DEF Ready, cur
    <3>2. new \notin ToSet(t)  BY <1>7, <3>1
    <3>3. rtl' = <<new>> \o t  BY <1>4, <2>2
    <3>. HIDE DEF t
    <3>4. ToSet(rtl') = {new} \cup (Ready \ {x}) /\ IsInjective(rtl') /\ Head(rtl') = new
      BY <3>1, <3>2, <3>3, ConsReady
    <3>. DEFINE R == Ready \ {x}
    <3>5. R \in SUBSET Ready /\ Ready' = {new} \cup R /\ cur' = new /\ x \notin R
      BY <3>4 DEF Ready, cur
    <3>. QED  BY <3>4, <3>5
  <2>. QED  BY <2>1, <2>2
<1>9. /\ Shape' /\ Count' /\ Stacks' /\ Sleepers'
      /\ \A h \in live : /\ pb'[h] = pb[h] /\ flags'[h] = flags[h] /\ parent'[h] = parent[h]
                          /\ Top(h)' = Top(h)
      /\ live' = live \cup {new}
      /\ pb'[new] = stack /\ flags'[new] = fs /\ parent'[new] = x
  <2>1. Ready' \subseteq Ready \cup {new} /\ ws' = ws  BY <1>0, <1>8
  <2>. QED  BY <1>2, <1>5, <1>6, <2>1, CreateTree
<1>10. Top(new)' = "BODY"  BY <1>5, <1>9 DEF Top
<1>11. \A h \in Ready' : Top(h)' # "EOF"  BY <1>1, <1>7, <1>8, <1>9, <1>10
<1>12. Listed'  BY <1>7, <1>8, <1>9, <1>11 DEF Listed, AtEnd
<1>13. Deleted'  BY <1>0, <1>1 DEF Deleted
<1>14. Exits'
  <2>1. ASSUME NEW h \in live', Exiting(h)'
        PROVE  Top(h)' = "EOF" /\ h \notin Ready' \cup named'
    <3>1. h \in live /\ h # new /\ Exiting(h)  BY <1>6, <1>9, <2>1 DEF Exiting
    <3>. QED  BY <1>0, <1>7, <1>8, <1>9, <3>1 DEF TreeInv, Exits
  <2>. QED  BY <2>1 DEF Exits
<1>15. Names'  BY <1>0, <1>1, <1>7, <1>9 DEF TreeInv, Names
<1>16. ASSUME NEW k \in Thread, Suspending(k)'
       PROVE  \/ /\ Suspending(k) /\ k \in live /\ parent'[k] = parent[k]
                 /\ parent[k] \in live \ Ready /\ Top(parent[k]) = "BODY"
              \/ k = new /\ "SFLAG" \in fs /\ parent'[k] = x
  <2>1. CASE k = new  BY <1>6, <1>9, <1>16, <2>1 DEF Suspending
  <2>2. CASE k # new
    <3>1. Suspending(k) /\ k \in live /\ parent'[k] = parent[k]
      BY <1>0, <1>1, <1>7, <1>9, <1>16, <2>2 DEF Suspending, Exiting
    <3>2. parent[k] \notin Ready /\ Top(parent[k]) = "BODY"
      BY <3>1 DEF TreeInv, Groups
    <3>3. parent[k] \in live
      BY <3>1, ThreadAssumption DEF TypeInv, GroupHasParent, TreeInv, Shape, Suspending
    <3>. QED  BY <3>1, <3>2, <3>3
  <2>. QED  BY <2>1, <2>2
<1>17. Groups'
  <2>1. ASSUME NEW k \in Thread, Suspending(k)'
        PROVE  /\ parent'[k] \notin Ready'
               /\ \E h \in live : h = parent'[k] /\ Top(h) = "BODY"
               /\ \A j \in Thread : Suspending(j)' /\ parent'[j] = parent'[k] => j = k
    <3>1. CASE /\ Suspending(k) /\ k \in live /\ parent'[k] = parent[k]
               /\ parent[k] \in live \ Ready /\ Top(parent[k]) = "BODY"
      <4>1. parent'[k] \notin Ready' /\ parent'[k] # x  BY <1>2, <1>8, <3>1
      <4>2. ASSUME NEW j \in Thread, Suspending(j)', parent'[j] = parent'[k]  PROVE j = k
        <5>1. Suspending(j) /\ parent[j] = parent[k]  BY <1>16, <3>1, <4>1, <4>2
        <5>. QED  BY <3>1, <5>1 DEF TreeInv, Groups
      <4>. QED  BY <3>1, <4>1, <4>2
    <3>2. CASE k = new /\ "SFLAG" \in fs /\ parent'[k] = x
      <4>1. parent'[k] \notin Ready'  BY <1>2, <1>8, <3>2
      <4>2. x \in live /\ Top(x) = "BODY"  BY <1>1, <1>2
      <4>3. \A j \in Thread : Suspending(j)' /\ parent'[j] = x => j = k
        BY <1>2, <1>16, <3>2
      <4>. QED  BY <3>2, <4>1, <4>2, <4>3
    <3>. QED  BY <1>16, <2>1, <3>1, <3>2
  <2>2. ASSUME NEW k \in Thread, NEW h \in live, h = parent'[k], Top(h) = "BODY"
        PROVE  Top(parent[k])' = "BODY"
    BY <1>9, <2>2 DEF Top
  <2>3. \A k \in Thread : Suspending(k)' => Top(parent[k])' = "BODY"  BY <2>1, <2>2
  <2>. QED  BY <2>1, <2>3 DEF Groups
<1>. QED  BY <1>9, <1>12, <1>13, <1>14, <1>15, <1>17 DEF TreeInv

-----------------------------------------------------------------------------
(* delete_thread: the thread has no children, and nobody sleeps in it; its *)
(* effector may wake others.                                               *)
LEMMA DetachTree ==
  ASSUME TypeInv, TreeInv, delete_thread
  PROVE  /\ IsInjective(rtl') /\ StillBlocked
         /\ rtl # <<>> => cur' = cur
         /\ \E W \in SUBSET (live \ Ready) :
              /\ Ready' = Ready \cup W
              /\ \A h \in W : Top(h) \in {"EWAIT", "EALT"}
              /\ \A d \in Channel, v \in Thread :
                   IsBlocked(d, v)' => ws[d][v].sleep_thd \notin Ready'
<1>. DEFINE gone == IF phase = "cleanup" \/ "WAITEX" \notin flags[del] THEN {} ELSE {del}
<1>1. \/ /\ ws' = [c \in Channel |-> [w \in Thread |->
                      IF w \in gone THEN NoStatus ELSE ws[c][w]]]
         /\ UNCHANGED rtl
      \/ /\ eff[del] # NoChannel
         /\ \E obj \in Loaded : Send(eff[del], Later(reg_t[del], maxtime[del]), obj, gone)
  BY DEF delete_thread
<1>. HIDE DEF gone
<1>2. CASE /\ ws' = [c \in Channel |-> [w \in Thread |->
                      IF w \in gone THEN NoStatus ELSE ws[c][w]]]
           /\ UNCHANGED rtl
  <2>1. ASSUME NEW d \in Channel, NEW v \in Thread, IsBlocked(d, v)'
        PROVE  ws'[d][v] = ws[d][v] /\ IsBlocked(d, v)
    BY <1>2, <2>1 DEF IsBlocked, NoStatus
  <2>2. StillBlocked  BY <2>1 DEF StillBlocked
  <2>3. {} \in SUBSET (live \ Ready) /\ Ready' = Ready \cup {}  BY <1>2 DEF Ready
  <2>4. ASSUME NEW d \in Channel, NEW v \in Thread, IsBlocked(d, v)'
        PROVE  ws[d][v].sleep_thd \notin Ready'
    BY <2>1, <2>3, <2>4 DEF TreeInv, Sleepers
  <2>. QED  BY <1>2, <2>2, <2>3, <2>4 DEF TreeInv, Listed, cur
<1>3. CASE /\ eff[del] # NoChannel
           /\ \E obj \in Loaded : Send(eff[del], Later(reg_t[del], maxtime[del]), obj, gone)
  <2>1. del \in Thread  BY DEF TypeInv, TypeOK, delete_thread
  <2>2. eff[del] \in Channel  BY <1>3, <2>1 DEF TypeInv, TypeOK
  <2>. QED  BY <1>3, <2>2, SendTree
<1>. QED  BY <1>1, <1>2, <1>3

LEMMA DeleteThreadTree ==
  ASSUME TypeInv, TypeInv', TreeInv, delete_thread
  PROVE  TreeInv'
<1>1. PICK x \in live \ (Ready \cup undefs) : x = del /\ Top(x) = "EOF"
  BY DEF TreeInv, Deleted, delete_thread
<1>2. /\ live \subseteq Thread /\ parent \in [Thread -> Thread \cup {NoThread}]
      /\ flags \in [Thread -> SUBSET Flag] /\ nchild \in [Thread -> Int]
      /\ pb \in [Thread -> Seq(Item)] /\ IsFiniteSet(live) /\ NoThread \notin live
      /\ Ready \subseteq live
  BY ThreadAssumption, FS_Subset DEF TypeInv, TypeOK, TreeInv, Listed
<1>. DEFINE p == parent[x]
<1>3. /\ live' = live \ {x} /\ named' = named \ {x}
      /\ \A h \in live \ {x} : /\ parent'[h] = parent[h] /\ flags'[h] = flags[h] /\ pb'[h] = pb[h]
                              /\ nchild'[h] = IF h = p THEN nchild[h] - 1 ELSE nchild[h]
      /\ del' = IF p # NoThread /\ nchild[p] = 1 /\ "EXITING" \in flags[p]
                THEN p ELSE NoThread
      /\ phase' = phase /\ undefs' = undefs
  <2>1. /\ live' = live \ {x} /\ named' = named \ {x}
        /\ parent' = [parent EXCEPT ![x] = NoThread]
        /\ flags' = [flags EXCEPT ![x] = {}]
        /\ pb' = [pb EXCEPT ![x] = <<>>]
        /\ nchild' = [g \in Thread |-> IF g = p THEN nchild[g] - 1 ELSE nchild[g]]
        /\ del' = IF p # NoThread /\ nchild[p] = 1 /\ "EXITING" \in flags[p]
                  THEN p ELSE NoThread
        /\ phase' = phase /\ undefs' = undefs
    BY <1>1 DEF delete_thread
  <2>. QED  BY <1>2, <2>1
<1>4. \A h \in live : parent[h] # x
  <2>. DEFINE old == {k \in live : parent[k] = x}
  <2>1. ~(nchild[x] > 0)  BY <1>1 DEF delete_thread, HasChildren
  <2>2. IsFiniteSet(old)  BY <1>2, FS_Subset
  <2>3. nchild[x] = Cardinality(old)  BY <1>1 DEF TreeInv, Count
  <2>. HIDE DEF old
  <2>4. Cardinality(old) \in Nat  BY <2>2, FS_CardinalityType
  <2>5. Cardinality(old) = 0  BY <2>1, <2>3, <2>4
  <2>6. old = {}  BY <2>2, <2>5, FS_EmptySet
  <2>. QED  BY <2>6 DEF old
<1>. HIDE DEF p
<1>5. Shape'
  <2>1. ASSUME NEW h \in live \ {x}
        PROVE  parent'[h] \in live \ {x} \/ (h = Root /\ parent'[h] = NoThread)
    BY <1>3, <1>4 DEF TreeInv, Shape
  <2>. QED  BY <1>3, <2>1 DEF Shape
<1>6. Count'
  <2>1. ASSUME NEW h \in live \ {x}
        PROVE  nchild'[h] = Cardinality({k \in live' : parent'[k] = h})
    <3>. DEFINE old == {k \in live : parent[k] = h}
    <3>1. {k \in live' : parent'[k] = h} = old \ {x}  BY <1>3
    <3>2. x \in old <=> h = p  BY <1>1 DEF p
    <3>3. IsFiniteSet(old)  BY <1>2, FS_Subset
    <3>4. nchild[h] = Cardinality(old)  BY DEF TreeInv, Count
    <3>. HIDE DEF old
    <3>5. Cardinality(old \ {x}) = IF x \in old THEN Cardinality(old) - 1 ELSE Cardinality(old)
      BY <3>3, FS_RemoveElement
    <3>. QED  BY <1>3, <3>1, <3>2, <3>4, <3>5
  <2>. QED  BY <1>3, <2>1 DEF Count
<1>7. Stacks'  BY <1>3 DEF TreeInv, Stacks
<1>8. /\ IsInjective(rtl') /\ StillBlocked
      /\ rtl # <<>> => cur' = cur
  BY DetachTree
<1>9. PICK W \in SUBSET (live \ Ready) :
        /\ Ready' = Ready \cup W
        /\ \A h \in W : Top(h) \in {"EWAIT", "EALT"}
        /\ \A d \in Channel, v \in Thread :
             IsBlocked(d, v)' => ws[d][v].sleep_thd \notin Ready'
  BY DetachTree
<1>10. x \notin Ready'  BY <1>1, <1>9
<1>11. \A h \in live \ {x} : Top(h)' = Top(h)  BY <1>3 DEF Top
<1>12. Sleepers'
  <2>1. ASSUME NEW c \in Channel, NEW w \in Thread, IsBlocked(c, w)'
        PROVE  /\ ws'[c][w].sleep_thd \in live' \ Ready'
               /\ Refers(pb'[ws'[c][w].sleep_thd][1], c, w, ws'[c][w].status)
    <3>1. /\ IsBlocked(c, w) /\ ws'[c][w].sleep_thd = ws[c][w].sleep_thd
          /\ ws'[c][w].status = ws[c][w].status
      BY <1>8, <2>1 DEF StillBlocked
    <3>2. PICK h \in live \ Ready :
             /\ h = ws[c][w].sleep_thd /\ Refers(pb[h][1], c, w, ws[c][w].status)
             /\ Top(h) \in {"EWAIT", "EALT"}
      BY <3>1, SleeperOf
    <3>3. h # x  BY <1>1, <3>2
    <3>. QED  BY <1>3, <1>9, <2>1, <3>1, <3>2, <3>3
  <2>. QED  BY <2>1 DEF Sleepers
<1>13. Listed'
  <2>1. ASSUME NEW h \in Ready', Top(h)' = "EOF"  PROVE h = cur' /\ phase' \notin Waking
    <3>1. h \in live \ {x} /\ Top(h) = "EOF"  BY <1>2, <1>9, <1>10, <1>11, <2>1
    <3>2. h \in Ready  BY <1>9, <2>1, <3>1
    <3>3. h = cur /\ phase \notin Waking  BY <3>1, <3>2 DEF TreeInv, Listed, AtEnd
    <3>4. rtl # <<>>  BY <3>2 DEF Ready, ToSet
    <3>. QED  BY <1>3, <1>8, <3>3, <3>4
  <2>2. Ready' \subseteq live'  BY <1>2, <1>3, <1>9, <1>10
  <2>. QED  BY <1>8, <2>1, <2>2 DEF Listed, AtEnd
<1>14. Deleted'
  <2>1. ASSUME del' # NoThread
        PROVE  /\ \E h \in live \ {x} : h = del' /\ Top(h) = "EOF"
               /\ del' \notin Ready' \cup undefs' \cup named'
    <3>1. del' = p /\ p # NoThread /\ "EXITING" \in flags[p]  BY <1>3, <2>1
    <3>2. p \in live \ {x}  BY <1>1, <1>4, <3>1 DEF p, TreeInv, Shape
    <3>3. Top(p) = "EOF" /\ p \notin Ready \cup named
      BY <3>1, <3>2 DEF TreeInv, Exits, Exiting
    <3>4. p \notin Ready'  BY <1>9, <3>3
    <3>5. p \notin undefs'  BY <1>3, <3>3 DEF TreeInv, Names
    <3>. QED  BY <1>3, <3>1, <3>2, <3>3, <3>4, <3>5
  <2>2. ASSUME NEW h \in live \ {x}, h = del', Top(h) = "EOF"  PROVE Top(del)' = "EOF"
    BY <1>3, <2>2 DEF Top
  <2>3. del' # NoThread => Top(del)' = "EOF" /\ del' \in live'  BY <1>3, <2>1, <2>2
  <2>. QED  BY <2>1, <2>3 DEF Deleted
<1>15. Exits'
  <2>1. ASSUME NEW h \in live \ {x}, Exiting(h)'
        PROVE  Top(h)' = "EOF" /\ h \notin Ready' \cup named'
    <3>1. Exiting(h)  BY <1>3, <2>1 DEF Exiting
    <3>. QED  BY <1>3, <1>9, <1>11, <3>1 DEF TreeInv, Exits
  <2>. QED  BY <1>3, <2>1 DEF Exits
<1>16. Names'
  <2>1. x \notin undefs /\ named \subseteq live /\ undefs \subseteq named
    BY <1>1 DEF TreeInv, Names
  <2>. QED  BY <1>3, <2>1 DEF TreeInv, Names
<1>17. \A k \in Thread : Suspending(k)' =>
         /\ Suspending(k) /\ k \in live \ {x} /\ parent'[k] = parent[k]
  BY <1>1, <1>3 DEF Suspending, Exiting
<1>18. Groups'
  <2>1. ASSUME NEW k \in Thread, Suspending(k)'
        PROVE  /\ parent'[k] \notin Ready'
               /\ \E h \in live \ {x} : h = parent'[k] /\ Top(h) = "BODY"
               /\ \A j \in Thread : Suspending(j)' /\ parent'[j] = parent'[k] => j = k
    <3>1. Suspending(k) /\ k \in live \ {x} /\ parent'[k] = parent[k]  BY <1>17, <2>1
    <3>2. /\ parent[k] \notin Ready /\ Top(parent[k]) = "BODY"
          /\ \A j \in Thread : Suspending(j) /\ parent[j] = parent[k] => j = k
      BY <3>1 DEF TreeInv, Groups
    <3>3. parent[k] \in live
      BY <3>1, ThreadAssumption DEF TypeInv, GroupHasParent, TreeInv, Shape, Suspending
    <3>4. parent[k] \notin Ready'  BY <1>9, <3>2
    <3>. QED  BY <1>4, <1>17, <3>1, <3>2, <3>3, <3>4
  <2>2. ASSUME NEW k \in Thread, NEW h \in live \ {x}, h = parent'[k], Top(h) = "BODY"
        PROVE  Top(parent[k])' = "BODY"
    BY <1>11, <2>2 DEF Top
  <2>3. \A k \in Thread : Suspending(k)' => Top(parent[k])' = "BODY"  BY <2>1, <2>2
  <2>. QED  BY <2>1, <2>3 DEF Groups
<1>. QED  BY <1>5, <1>6, <1>7, <1>12, <1>13, <1>14, <1>15, <1>16, <1>18 DEF TreeInv

-----------------------------------------------------------------------------
(* The theorem.                                                            *)
LEMMA TreeInit == Init => TreeInv
<1>. SUFFICES ASSUME Init PROVE TreeInv  OBVIOUS
<1>. DEFINE stack == <<Mark("BODY"), Mark("EOF")>>
<1>1. WellFormed(stack) /\ stack # <<>> /\ Head(stack).type = "BODY"
  <2>1. \A i \in 1..2 : i = 1 \/ i = 2  OBVIOUS
  <2>2. /\ stack[1].type = "BODY" /\ stack[2].type = "EOF"
        /\ stack # <<>> /\ Len(stack) = 2 /\ Head(stack) = stack[1]
    BY DEF Mark
  <2>. HIDE DEF stack
  <2>. QED  BY <2>1, <2>2 DEF WellFormed
<1>2. pb[Root] = stack  BY ThreadAssumption DEF Init
<1>. HIDE DEF stack
<1>3. /\ live = {Root} /\ named = {Root} /\ rtl = <<Root>> /\ undefs = {} /\ del = NoThread
      /\ phase = "running" /\ Root \in Thread /\ Root # NoThread
      /\ \A h \in Thread : parent[h] = NoThread /\ flags[h] = {} /\ nchild[h] = 0
      /\ \A c \in Channel, w \in Thread : ~IsBlocked(c, w)
  BY ThreadAssumption DEF Init, IsBlocked, NoStatus
<1>4. Ready = {Root} /\ IsInjective(rtl)  BY <1>3 DEF Ready, ToSet, IsInjective
<1>5. Shape /\ Stacks /\ Sleepers  BY <1>1, <1>2, <1>3 DEF Shape, Stacks, Sleepers
<1>6. Count
  <2>1. {k \in live : parent[k] = Root} = {}  BY <1>3
  <2>. QED  BY <1>3, <2>1, FS_EmptySet DEF Count
<1>7. Top(Root) = "BODY"  BY <1>1, <1>2 DEF Top
<1>8. Listed  BY <1>3, <1>4, <1>7 DEF Listed, AtEnd
<1>9. Deleted /\ Exits /\ Names /\ Groups
  BY <1>3 DEF Deleted, Exits, Names, Groups, Exiting, Suspending
<1>. QED  BY <1>5, <1>6, <1>8, <1>9 DEF TreeInv

LEMMA TreeStep ==
  ASSUME TypeInv, TypeInv', TreeInv, [Next]_vars
  PROVE  TreeInv'
<1>1. CASE \/ do_defthread \/ do_lbrace \/ do_lbracket \/ do_thread
           \/ begin_of_named_thread \/ end_of_named_thread \/ end_of_block \/ end_of_tokens
           \/ do_pitch \/ do_reg \/ attach_effector \/ do_sync \/ end_sync
  BY <1>1, DefthreadTree, GroupTree, ThreadTree, PopTree, QuietTree, SyncTree
<1>2. CASE \/ do_signal \/ do_wait \/ end_wait \/ do_alt \/ end_alt \/ destroy_channel
  BY <1>2, SignalTree, WaitTree, EndWaitTree, AltTree, EndAltTree, DestroyTree
<1>3. CASE \/ do_eof \/ postpone_delete \/ delete_thread
           \/ do_break \/ skip_token \/ break_alt \/ do_undef \/ delete_dict
  BY <1>3, EofTree, PostponeTree, DeleteThreadTree, BreakTree, PopTree, BreakAltTree,
     UndefTree, DictTree
<1>4. CASE \/ begin_cleanup \/ cleanup_idle_threads \/ check_dead_lock
           \/ terminated \/ UNCHANGED vars
  BY <1>4, BeginCleanupTree, CleanupTree, DeadLockTree, StutterTree DEF terminated
<1>. QED  BY <1>1, <1>2, <1>3, <1>4 DEF Next

(* What every step preserves of the tree of threads, the ready list and    *)
(* the sleepers: the conjunction TreeInv.                                  *)
THEOREM TreeInvariant == Spec => []TreeInv
<1>1. Init => TypeInv /\ TreeInv  BY TypeInit, TreeInit
<1>2. TypeInv /\ TreeInv /\ [Next]_vars => (TypeInv /\ TreeInv)'  BY TypeStep, TreeStep
<1>. QED  BY <1>1, <1>2, PTL DEF Spec

(* nchild counts the children that are still allocated, and no thread is   *)
(* freed before its children, whatever the program does: delete_thread     *)
(* never leaves a dangling parent pointer.                                 *)
THEOREM Children == Spec => []ChildCount
<1>1. TreeInv => ChildCount  BY DEF TreeInv, Shape, Count, ChildCount
<1>. QED  BY <1>1, TreeInvariant, PTL

(* The ready list holds no thread twice, hence is not circular, and none   *)
(* that was freed.                                                         *)
THEOREM ReadyThreads == Spec => [](IsInjective(rtl) /\ Ready \subseteq live)
<1>1. TreeInv => IsInjective(rtl) /\ Ready \subseteq live  BY DEF TreeInv, Listed
<1>. QED  BY <1>1, TreeInvariant, PTL
=============================================================================
