------------------------------ MODULE Threads ------------------------------
(***************************************************************************)
(* The cooperative threads of the PMML compiler (comp/parse.c): the ready  *)
(* thread list, named and grouped threads, ===, and the communication      *)
(* channels with signal, wait, alt, break and undef.                       *)
(*                                                                         *)
(* A PMML program is abstracted to its control commands: a push-back       *)
(* element BODY is a token list (or the source file) whose remaining       *)
(* commands are not fixed, so one step of parse_cmds takes any command     *)
(* that the constants allow, or ends the list.  At most Fuel commands are  *)
(* taken.  Musical time (a Rational in the code) is a natural number: the  *)
(* scheduler only copies, compares and increases it.                       *)
(***************************************************************************)
EXTENDS Integers, Sequences, FiniteSets, SequencesExt

CONSTANTS Thread,       \* the addresses malloc returns for Thread structures
          Root,         \* root_thd
          NoThread,     \* NULL
          Channel,      \* the channels a program names
          NoChannel,    \* a thread that has attached no effector
          Freed,        \* a dangling Channel pointer
          MaxTime,      \* bound: notes and assignments to t stop here
          Fuel,         \* bound: number of commands in the program
          Commands,     \* the commands the program uses
          AltGuards,    \* the guard lists its alt commands have
          Default,      \* {FALSE}, or with TRUE: alt has a default guard
          Bind,         \* {FALSE}, or with TRUE: wait names a macro
          Loaded        \* {FALSE}, or with TRUE: signal carries an object

Guard == [chnl : Channel, bind : BOOLEAN]

ASSUME ThreadAssumption ==
  IsFiniteSet(Thread) /\ Root \in Thread /\ NoThread \notin Thread
ASSUME ChannelAssumption ==
  IsFiniteSet(Channel) /\ NoChannel \notin Channel /\ Freed \notin Channel /\ Freed # NoChannel
ASSUME BoundAssumption == MaxTime \in Nat /\ Fuel \in Nat
ASSUME ProgramAssumption ==
  /\ AltGuards \subseteq Seq(Guard)
  /\ Default \subseteq BOOLEAN /\ Bind \subseteq BOOLEAN
  /\ Loaded \subseteq BOOLEAN

VARIABLES
  rtl,            \* ready thread list; its head is cur_thd
  live,           \* the Thread structures that are allocated
  parent,         \* Thread.parent
  named,          \* threads whose dp is not NULL
  flags,          \* Thread.flags
  nchild,         \* Thread.nchild
  reg_t,          \* Thread.reg.t
  maxtime,        \* Thread.maxtime
  pb,             \* Thread.pb: the push-back stack, top first
  loop_count,     \* Thread.pb->loop_count
  eff,            \* the channel the wrap action of an attached effector signals
  all_chnls,      \* the existing channels, newest first
  mtop,           \* Channel.mtop: the messages in time order
  wtop,           \* Channel.wtop: the wait_thd's of its WaitStatus, newest first
  ws,             \* the WaitStatus of a channel and a wait_thd in its wtop
  total_blocked,  \* number of threads blocked by wait or alt
  phase,          \* what the compiler is doing, see Phase
  del,            \* the thread delete_thread has been called for, or NoThread
  level,          \* loops do_break has yet to leave
  undefs,         \* dictionary entries delete_dict has yet to delete
  fuel            \* commands left in the program

threadVars == <<live, parent, named, flags, nchild>>
timeVars == <<reg_t, maxtime>>
stackVars == <<pb, loop_count>>
chanVars == <<all_chnls, mtop, wtop, ws, total_blocked>>
ctlVars == <<phase, del, level, undefs>>
vars == <<rtl, threadVars, timeVars, stackVars, eff, chanVars, ctlVars, fuel>>

-----------------------------------------------------------------------------
(* Push-back elements (PBStack in pmml.h) and the flags of a thread.       *)
Flag == {"SFLAG", "PFLAG", "CFLAG", "WAITEX", "EXITING"}

Mark(type) == [type |-> type]
Bot(stime, avoid) == [type |-> "BOT", stime |-> stime, avoid_sync |-> avoid]
Ewait(c, w, b) == [type |-> "EWAIT", chnl |-> c, wait_thd |-> w, bind |-> b]
Ealt(gs, w, d) == [type |-> "EALT", guards |-> gs, wait_thd |-> w, default |-> d]

Item == [type : {"BODY", "EOF", "EOB", "EOT", "ESYNC"}]
        \cup [type : {"BOT"}, stime : Nat, avoid_sync : BOOLEAN]
        \cup [type : {"EWAIT"}, chnl : Channel, wait_thd : Thread, bind : BOOLEAN]
        \cup [type : {"EALT"}, guards : Seq([chnl : Channel \cup {Freed}, bind : BOOLEAN]),
              wait_thd : Thread, default : BOOLEAN]

(* "running" is parse_cmds; "break" and "undef" are inside do_break and    *)
(* do_undef; "cleanup" and "deadlock" are the end of do_eof, "blocked" is  *)
(* the check_dead_lock that do_wait and do_alt call.  "done", "error" and  *)
(* "crash" end the compiler: success, a reported error, undefined          *)
(* behaviour (a NULL or dangling pointer is dereferenced).                 *)
Phase == {"running", "break", "undef", "cleanup", "deadlock", "blocked",
          "done", "error", "crash"}
Halted == phase \in {"done", "error", "crash"}

cur == Head(rtl)
Ready == ToSet(rtl)
Top(h) == IF pb[h] = <<>> THEN "none" ELSE Head(pb[h]).type
Later(a, b) == IF a > b THEN a ELSE b

(* The ancestors of h, nearest first: up[1] is its parent.                 *)
Up(h) ==
  LET up[n \in 0..Cardinality(Thread)] ==
        IF n = 0 THEN h
        ELSE IF up[n-1] = NoThread THEN NoThread ELSE parent[up[n-1]]
  IN up
Ancestors(h) == {Up(h)[n] : n \in 1..Cardinality(Thread)} \ {NoThread}

(* The thread wait and alt receive for: the nearest thread at or above h   *)
(* that is named or was started with '&'.                                  *)
Receives(h) == h \in named \/ "SFLAG" \notin flags[h]
WaitsAs(h, w) ==
  \E n \in 0..Cardinality(Thread) :
    /\ w = Up(h)[n] /\ w # NoThread /\ Receives(w)
    /\ \A m \in 0..(n-1) : ~Receives(Up(h)[m])

NoStatus == [status |-> "Idle", sleep_thd |-> NoThread, last |-> 0]
HasStatus(c, w) == w \in ToSet(wtop[c])
IsBlocked(c, w) == ws[c][w].status \in {"WaitBlocked", "AltBlocked"}

-----------------------------------------------------------------------------
(* Halves of actions.  An operator whose name ends in an underscore and a   *)
(* word is a faulty variant of the one after it; no action uses it.  The   *)
(* variants show that the properties depend on what the code does.         *)

(* parse_cmds takes a command of the program.                              *)
Command(name) ==
  /\ phase = "running" /\ del = NoThread /\ rtl # <<>>
  /\ Top(cur) = "BODY"
  /\ name \in Commands
  /\ fuel > 0 /\ fuel' = fuel - 1

(* parse_cmds takes a pseudo token that an earlier command pushed back.    *)
Token(type) ==
  /\ phase = "running" /\ del = NoThread /\ rtl # <<>>
  /\ Top(cur) = type
  /\ UNCHANGED fuel

Halt(how) ==
  /\ phase' = how
  /\ UNCHANGED <<rtl, threadVars, timeVars, stackVars, eff, chanVars, del, level, undefs>>

rotate_thread_never == rtl' = rtl
rotate_thread == rtl' = Append(Tail(rtl), Head(rtl))

Pop(h) == pb' = [pb EXCEPT ![h] = SubSeq(@, 2, Len(@))]
Push(items) == pb' = [pb EXCEPT ![cur] = items \o @]

(* Unlink the first occurrence of e from a list.                           *)
Unlink(s, e) ==
  IF e \in ToSet(s) THEN RemoveAt(s, CHOOSE i \in DOMAIN s : s[i] = e) ELSE s

(* get_channel_name: the first use of a name creates the channel.  cs are  *)
(* the channels one command names, in order; the newest comes first.       *)
get_channel_name(cs) ==
  \E new \in SetToSeqs(ToSet(cs) \ ToSet(all_chnls)) :
    /\ \A i, j \in DOMAIN new : i < j =>
         \E m \in DOMAIN cs : cs[m] = new[j] /\ \A n \in 1..m : cs[n] # new[i]
    /\ all_chnls' = new \o all_chnls

(* The blocked receivers of c in the order of its wtop list.               *)
WakeOrders(c) ==
  {o \in SetToSeqs({w \in ToSet(wtop[c]) : IsBlocked(c, w)}) :
     \A i, j \in DOMAIN o : i < j =>
       \E m, n \in DOMAIN wtop[c] : m < n /\ wtop[c][m] = o[i] /\ wtop[c][n] = o[j]}

(* The threads an alt waits with: when one guard wakes it, the status of   *)
(* every guard of its EALT is changed.                                     *)
GuardChannels(item) == {item.guards[i].chnl : i \in DOMAIN item.guards}
WokenBy_one(c, d, w) == HasStatus(c, w) /\ IsBlocked(c, w) /\ d = c
WokenBy(c, d, w) ==
  /\ HasStatus(c, w) /\ IsBlocked(c, w)
  /\ \/ d = c
     \/ ws[c][w].status = "AltBlocked"
        /\ d \in GuardChannels(Head(pb[ws[c][w].sleep_thd]))

(* received_by is a history of the threads that are not freed.             *)
Forget(gone, msgs) ==
  [i \in DOMAIN msgs |-> [msgs[i] EXCEPT !.received_by = @ \ gone]]

(* A message is inserted before the first later one.                       *)
InsertsAt_end(c, time, p) == p = Len(mtop[c]) + 1
InsertsAt(c, time, p) ==
  /\ p \in 1..(Len(mtop[c]) + 1)
  /\ \A i \in 1..(p-1) : mtop[c][i].time <= time
  /\ p <= Len(mtop[c]) => mtop[c][p].time > time

(* do_signal: insert the message before the first later one, and make      *)
(* every blocked receiver ready, at the tail.  A WaitStatus keeps its      *)
(* lastmsg (an index into mtop, 0 for NULL); those of the threads in gone  *)
(* are freed by the caller.                                                *)
Send(c, time, obj, gone) ==
  \E p \in 1..(Len(mtop[c]) + 1), order \in WakeOrders(c) :
    /\ InsertsAt(c, time, p)
    /\ mtop' = [d \in Channel |-> Forget(gone,
                  IF d # c THEN mtop[d]
                  ELSE InsertAt(mtop[c], p, [time |-> time, obj |-> obj, received_by |-> {}]))]
    /\ rtl' = rtl \o [i \in DOMAIN order |-> ws[c][order[i]].sleep_thd]
    /\ total_blocked' = total_blocked - Len(order)
    /\ ws' = [d \in Channel |-> [w \in Thread |->
               IF w \in gone THEN NoStatus
               ELSE LET woken == WokenBy(c, d, w) IN
                    [status |-> IF woken THEN "Executing" ELSE ws[d][w].status,
                     sleep_thd |-> IF woken THEN NoThread ELSE ws[d][w].sleep_thd,
                     last |-> IF d = c /\ ws[d][w].last >= p
                              THEN ws[d][w].last + 1 ELSE ws[d][w].last]]]
    /\ get_channel_name(<<c>>)

-----------------------------------------------------------------------------
(* Creating threads.                                                       *)

(* create_thread(p, fs): registers and time come from the parent.          *)
create_thread(new, p, fs, stack, loops) ==
  /\ live' = live \cup {new}
  /\ parent' = [parent EXCEPT ![new] = p]
  /\ flags' = [flags EXCEPT ![new] = fs]
  /\ nchild' = [nchild EXCEPT ![p] = @ + 1, ![new] = 0]
  /\ reg_t' = [reg_t EXCEPT ![new] = reg_t[p]]
  /\ maxtime' = [maxtime EXCEPT ![new] = reg_t[p]]
  /\ pb' = [pb EXCEPT ![new] = stack]
  /\ loop_count' = [loop_count EXCEPT ![new] = loops]

(* defthread(x), in the scope of the current or of a named thread.         *)
do_defthread ==
  /\ Command("defthread")
  /\ \E p \in {cur} \cup named, new \in Thread \ live :
       /\ create_thread(new, p, {}, <<Mark("EOF")>>, 0)
       /\ named' = named \cup {new}
  /\ UNCHANGED <<rtl, eff, chanVars, ctlVars>>

(* '{ ... }' and '[ ... ]': without '&' the parent sleeps until the block  *)
(* ends, and break may leave a loop of the parent.                         *)
group(pf) ==
  \E new \in Thread \ live, amp \in BOOLEAN :
    /\ create_thread(new, cur, IF amp THEN pf ELSE pf \cup {"SFLAG"},
                     <<Mark("BODY"), Mark("EOB"), Mark("EOF")>>,
                     IF amp THEN 0 ELSE loop_count[cur])
    /\ rtl' = IF amp THEN <<new>> \o rtl ELSE <<new>> \o Tail(rtl)
    /\ UNCHANGED <<named, eff, chanVars, ctlVars>>
do_lbrace == Command("lbrace") /\ group({})
do_lbracket == Command("lbracket") /\ group({"PFLAG"})

(* A named thread runs unless it still has tokens.                         *)
awake_if_idle_always(x) == rtl' = <<x>> \o rtl
awake_if_idle(x) == rtl' = IF Top(x) = "EOF" THEN <<x>> \o rtl ELSE rtl

(* THREAD_NAME { ... } with an optional '+'.                               *)
do_thread ==
  /\ Command("thread")
  /\ \E x \in named, avoid \in BOOLEAN :
       /\ pb' = [pb EXCEPT ![x] = Front(@) \o
                  <<Bot(reg_t[cur], avoid), Mark("BODY"), Mark("EOT"), Mark("EOF")>>]
       /\ awake_if_idle(x)
  /\ UNCHANGED <<threadVars, timeVars, loop_count, eff, chanVars, ctlVars>>

begin_of_named_thread ==
  /\ Token("BOT")
  /\ LET bot == Head(pb[cur])
     IN /\ reg_t' = IF "CFLAG" \in flags[cur] THEN reg_t
                    ELSE [reg_t EXCEPT ![cur] = Later(@, bot.stime)]
        /\ flags' = [flags EXCEPT ![cur] = (@ \ {"CFLAG"}) \cup
                       (IF bot.avoid_sync THEN {"CFLAG"} ELSE {})]
  /\ Pop(cur)
  /\ UNCHANGED <<rtl, live, parent, named, nchild, maxtime, loop_count, eff,
                 chanVars, ctlVars>>

(* The time at the end of the block counts for every === above.            *)
end_of_named_thread ==
  /\ Token("EOT")
  /\ maxtime' = IF "CFLAG" \in flags[cur] THEN maxtime
                ELSE [h \in Thread |-> IF h \in {cur} \cup Ancestors(cur)
                                       THEN Later(maxtime[h], reg_t[cur])
                                       ELSE maxtime[h]]
  /\ Pop(cur)
  /\ UNCHANGED <<rtl, threadVars, reg_t, loop_count, eff, chanVars, ctlVars>>

end_of_block ==
  /\ Token("EOB")
  /\ Pop(cur)
  /\ UNCHANGED <<rtl, threadVars, timeVars, loop_count, eff, chanVars, ctlVars>>

(* get_token: the token list on top is exhausted.                          *)
end_of_tokens ==
  /\ Token("BODY")
  /\ Pop(cur)
  /\ UNCHANGED <<rtl, threadVars, timeVars, loop_count, eff, chanVars, ctlVars>>

-----------------------------------------------------------------------------
(* Time, effectors, ===.                                                   *)

(* A note: t advances unless '&' follows; in a chord only maxtime does.    *)
do_pitch ==
  /\ Command("pitch")
  /\ reg_t[cur] < MaxTime
  /\ \/ /\ "PFLAG" \notin flags[cur]
        /\ reg_t' = [reg_t EXCEPT ![cur] = @ + 1]
        /\ UNCHANGED maxtime
     \/ /\ "PFLAG" \in flags[cur]
        /\ maxtime' = [maxtime EXCEPT ![cur] = Later(@, reg_t[cur] + 1)]
        /\ UNCHANGED reg_t
  /\ UNCHANGED <<rtl, threadVars, stackVars, eff, chanVars, ctlVars>>

(* t = val                                                                 *)
do_reg ==
  /\ Command("reg")
  /\ \E t \in 0..MaxTime : reg_t' = [reg_t EXCEPT ![cur] = t]
  /\ UNCHANGED <<rtl, threadVars, maxtime, stackVars, eff, chanVars, ctlVars>>

(* Attach an effector whose wrap action signals a channel.                 *)
attach_effector ==
  /\ Command("attach")
  /\ eff[cur] = NoChannel
  /\ \E c \in Channel : eff' = [eff EXCEPT ![cur] = c]
  /\ UNCHANGED <<rtl, threadVars, timeVars, stackVars, chanVars, ctlVars>>

HasReadyDescendant_child(h) == \E g \in Ready : parent[g] = h
HasReadyDescendant_idle(h) == \E g \in live \ {h} : h \in Ancestors(g)
HasReadyDescendant(h) == \E g \in Ready \ {h} : h \in Ancestors(g)

sync ==
  /\ IF HasReadyDescendant(cur)
     THEN rotate_thread /\ UNCHANGED reg_t
     ELSE /\ reg_t' = [reg_t EXCEPT ![cur] = Later(@, maxtime[cur])]
          /\ UNCHANGED rtl
  /\ UNCHANGED <<threadVars, maxtime, loop_count, eff, chanVars, ctlVars>>
do_sync ==
  /\ Command("sync") /\ sync
  /\ pb' = IF HasReadyDescendant(cur)
           THEN [pb EXCEPT ![cur] = <<Mark("ESYNC")>> \o @] ELSE pb
end_sync ==
  /\ Token("ESYNC") /\ sync
  /\ IF HasReadyDescendant(cur) THEN UNCHANGED pb ELSE Pop(cur)

-----------------------------------------------------------------------------
(* Channels.                                                               *)

do_signal ==
  /\ Command("signal")
  /\ \E c \in Channel, obj \in Loaded : Send(c, reg_t[cur], obj, {})
  /\ UNCHANGED <<threadVars, timeVars, stackVars, eff, wtop, ctlVars>>

(* The next message of a receiver; a WaitStatus without a lastmsg has not  *)
(* received any.                                                           *)
HasNext(c, w) == ws[c][w].last < Len(mtop[c])
Next_(c, w) == mtop[c][ws[c][w].last + 1]

(* Both wait and alt read lastmsg->next of a WaitStatus they find, which   *)
(* is undefined when that WaitStatus has no lastmsg.                       *)
FoundUnused(c, w) == HasStatus(c, w) /\ ws[c][w].last = 0

do_wait ==
  /\ Command("wait")
  /\ \E c \in Channel, w \in Thread, b \in Bind :
       /\ WaitsAs(cur, w)
       /\ IF FoundUnused(c, w) THEN Halt("crash")
          ELSE /\ get_channel_name(<<c>>)
               /\ flags' = [flags EXCEPT ![w] = @ \cup {"WAITEX"}]
               /\ wtop' = IF HasStatus(c, w) THEN wtop
                          ELSE [wtop EXCEPT ![c] = <<w>> \o @]
               /\ Push(<<Ewait(c, w, b)>>)
               /\ IF HasNext(c, w)
                  THEN /\ ws' = [ws EXCEPT ![c][w] = [@ EXCEPT !.status = "Executing"]]
                       /\ rotate_thread
                       /\ UNCHANGED <<total_blocked, phase>>
                  ELSE /\ ws' = [ws EXCEPT ![c][w] = [@ EXCEPT !.status = "WaitBlocked",
                                                                !.sleep_thd = cur]]
                       /\ total_blocked' = total_blocked + 1
                       /\ rtl' = Tail(rtl)
                       /\ phase' = IF Tail(rtl) = <<>> THEN "blocked" ELSE phase
               /\ UNCHANGED <<live, parent, named, nchild, timeVars, loop_count,
                              eff, mtop, del, level, undefs>>

(* Receiver w takes its next message from c.                               *)
Marked(msg, w) == [msg EXCEPT !.received_by = @ \cup {w}]
Take(c, w) ==
  /\ reg_t' = [reg_t EXCEPT ![cur] = Later(@, Next_(c, w).time)]
  /\ mtop' = [mtop EXCEPT ![c][ws[c][w].last + 1] = Marked(Next_(c, w), w)]
Received_again(st, status) ==
  [st EXCEPT !.status = status, !.last = IF st.last = 0 THEN 1 ELSE st.last]
Received(st, status) == [st EXCEPT !.status = status, !.last = st.last + 1]
Receive(c, w, status) ==
  /\ Take(c, w)
  /\ ws' = [ws EXCEPT ![c][w] = Received(ws[c][w], status)]

(* The message is looked for again, because others may have been inserted  *)
(* since do_wait; it is dereferenced without a test.                       *)
end_wait ==
  /\ Token("EWAIT")
  /\ LET c == Head(pb[cur]).chnl
         w == Head(pb[cur]).wait_thd
     IN IF ~HasNext(c, w) THEN Halt("crash")
        ELSE IF Head(pb[cur]).bind /\ ~Next_(c, w).obj THEN Halt("error")
        ELSE /\ Receive(c, w, "Idle")
             /\ Pop(cur)
             /\ UNCHANGED <<rtl, threadVars, maxtime, loop_count, eff, all_chnls,
                            wtop, total_blocked, ctlVars>>

(* The status of every guard of an alt.                                    *)
SetGuards(gs, w, status, sleeper) ==
  [c \in Channel |-> [v \in Thread |->
    IF v = w /\ \E i \in DOMAIN gs : gs[i].chnl = c
    THEN [ws[c][v] EXCEPT !.status = status, !.sleep_thd = sleeper]
    ELSE ws[c][v]]]

Block(gs, w) ==
  /\ ws' = SetGuards(gs, w, "AltBlocked", cur)
  /\ total_blocked' = total_blocked + 1
  /\ rtl' = Tail(rtl)
  /\ phase' = IF Tail(rtl) = <<>> THEN "blocked" ELSE phase

MessageReady_first(gs, w) == HasNext(gs[1].chnl, w)
MessageReady(gs, w) == \E i \in DOMAIN gs : HasNext(gs[i].chnl, w)

do_alt ==
  /\ Command("alt")
  /\ \E gs \in AltGuards, w \in Thread, d \in Default :
       LET chnls == [i \in DOMAIN gs |-> gs[i].chnl]
       IN
       /\ WaitsAs(cur, w)
       /\ IF \E i \in DOMAIN gs :
               \/ FoundUnused(gs[i].chnl, w)
               \/ ws[gs[i].chnl][w].last = 0 /\ \E j \in 1..(i-1) : gs[j].chnl = gs[i].chnl
          THEN Halt("crash")
          ELSE /\ get_channel_name(chnls)
               /\ flags' = [flags EXCEPT ![w] = @ \cup {"WAITEX"}]
               /\ wtop' = [c \in Channel |->
                            IF c \in ToSet(chnls) /\ ~HasStatus(c, w)
                            THEN <<w>> \o wtop[c] ELSE wtop[c]]
               /\ Push(<<Ealt(gs, w, d)>>)
               /\ loop_count' = [loop_count EXCEPT ![cur] = @ + 1]
               /\ IF d \/ MessageReady(gs, w)
                  THEN /\ ws' = SetGuards(gs, w, "Executing", NoThread)
                       /\ rotate_thread
                       /\ UNCHANGED <<total_blocked, phase>>
                  ELSE Block(gs, w)
               /\ UNCHANGED <<live, parent, named, nchild, timeVars, eff, mtop,
                              del, level, undefs>>

(* The guard end_alt selects: the first of those with the earliest message. *)
IsEarliest(gs, w, i) ==
  /\ HasNext(gs[i].chnl, w)
  /\ \A j \in DOMAIN gs : HasNext(gs[j].chnl, w) =>
       \/ Next_(gs[i].chnl, w).time < Next_(gs[j].chnl, w).time
       \/ Next_(gs[i].chnl, w).time = Next_(gs[j].chnl, w).time /\ i <= j

(* end_alt(0): run the body of the earliest guard, else the default, else  *)
(* sleep.  The EALT element stays below the body.                          *)
end_alt ==
  /\ Token("EALT")
  /\ LET gs == Head(pb[cur]).guards
         w == Head(pb[cur]).wait_thd
         d == Head(pb[cur]).default
         earliest == {i \in DOMAIN gs : IsEarliest(gs, w, i)}
         taken == {i \in earliest : d => Next_(gs[i].chnl, w).time <= reg_t[cur]}
     IN IF Freed \in GuardChannels(Head(pb[cur])) THEN Halt("crash")
        ELSE \/ \E i \in taken :
                  IF gs[i].bind /\ ~Next_(gs[i].chnl, w).obj THEN Halt("error")
                  ELSE /\ Receive(gs[i].chnl, w, ws[gs[i].chnl][w].status)
                       /\ Push(<<Mark("BODY")>>)
                       /\ rotate_thread
                       /\ UNCHANGED <<threadVars, maxtime, loop_count, eff,
                                      all_chnls, wtop, total_blocked, ctlVars>>
             \/ /\ taken = {} /\ d
                /\ Push(<<Mark("BODY")>>)
                /\ rotate_thread
                /\ UNCHANGED <<threadVars, timeVars, loop_count, eff, chanVars, ctlVars>>
             \/ /\ ~MessageReady(gs, w) /\ ~d
                /\ Block(gs, w)
                /\ UNCHANGED <<threadVars, timeVars, stackVars, eff, all_chnls,
                               mtop, wtop, del, level, undefs>>

(* end_alt(BREAK_LOOP): leave the alt loop whose EALT is on top of h.      *)
leave_alt_loop(h) ==
  /\ Pop(h)
  /\ ws' = SetGuards(Head(pb[h]).guards, Head(pb[h]).wait_thd, "Idle", NoThread)
  /\ UNCHANGED loop_count
leave_alt(h) ==
  /\ Pop(h)
  /\ loop_count' = [loop_count EXCEPT ![h] = @ - 1]
  /\ ws' = SetGuards(Head(pb[h]).guards, Head(pb[h]).wait_thd, "Idle", NoThread)

(* undef(channel), and destroy_channel.                                    *)
destroy_channel ==
  /\ Command("undef_channel")
  /\ \E c \in ToSet(all_chnls) :
       IF \E w \in ToSet(wtop[c]) : ws[c][w].status # "Idle" THEN Halt("error")
       ELSE /\ all_chnls' = Unlink(all_chnls, c)
            /\ mtop' = [mtop EXCEPT ![c] = <<>>]
            /\ wtop' = [wtop EXCEPT ![c] = <<>>]
            /\ ws' = [ws EXCEPT ![c] = [w \in Thread |-> NoStatus]]
            /\ pb' = [h \in Thread |-> [i \in DOMAIN pb[h] |->
                       IF pb[h][i].type = "EALT"
                       THEN [pb[h][i] EXCEPT !.guards = [k \in DOMAIN @ |->
                              IF @[k].chnl = c THEN [@[k] EXCEPT !.chnl = Freed] ELSE @[k]]]
                       ELSE pb[h][i]]]
            /\ UNCHANGED <<rtl, threadVars, timeVars, loop_count, eff,
                           total_blocked, ctlVars>>

-----------------------------------------------------------------------------
(* The end of a thread.                                                    *)

Returns_amp(h) == h \notin named
Returns(h) == h \notin named /\ "SFLAG" \in flags[h]

(* The current thread has no tokens left.  A group returns its time to the *)
(* parent and wakes it; an unnamed thread is deleted; a named one is idle. *)
do_eof ==
  /\ phase \in {"running", "break"} /\ del = NoThread /\ rtl # <<>>
  /\ Top(cur) = "EOF"
  /\ LET p == parent[cur]
         t == IF "PFLAG" \in flags[cur] THEN maxtime[cur] ELSE reg_t[cur]
     IN IF Returns(cur)
        THEN /\ rtl' = <<p>> \o Tail(rtl)
             /\ \/ /\ "PFLAG" \notin flags[p]
                   /\ reg_t' = [reg_t EXCEPT ![p] = t] /\ UNCHANGED maxtime
                \/ /\ "PFLAG" \in flags[p]
                   /\ maxtime' = [maxtime EXCEPT ![p] = Later(@, t)] /\ UNCHANGED reg_t
        ELSE rtl' = Tail(rtl) /\ UNCHANGED timeVars
  /\ del' = IF cur \in named THEN NoThread ELSE cur
  /\ UNCHANGED <<threadVars, stackVars, eff, chanVars, phase, level, undefs, fuel>>

HasChildren_never(h) == FALSE
HasChildren(h) == nchild[h] > 0

(* delete_thread of a thread with children: the last child deletes it.     *)
postpone_delete ==
  /\ del # NoThread /\ HasChildren(del)
  /\ flags' = [flags EXCEPT ![del] = @ \cup {"EXITING"}]
  /\ del' = NoThread
  /\ UNCHANGED <<rtl, live, parent, named, nchild, timeVars, stackVars, eff, chanVars,
                 phase, level, undefs, fuel>>

(* delete_thread: detach the effector at the latest time of the thread,    *)
(* forget its receptions (not in cleanup_idle_threads, which passes        *)
(* nofree), free it, and go on with an exiting parent.                     *)
delete_thread ==
  /\ del # NoThread /\ ~HasChildren(del)
  /\ LET h == del
         p == parent[h]
         gone == IF phase = "cleanup" \/ "WAITEX" \notin flags[h] THEN {} ELSE {h}
     IN /\ \/ /\ eff[h] = NoChannel
              /\ ws' = [c \in Channel |-> [w \in Thread |->
                         IF w \in gone THEN NoStatus ELSE ws[c][w]]]
              /\ mtop' = [c \in Channel |-> Forget(gone, mtop[c])]
              /\ UNCHANGED <<rtl, total_blocked, all_chnls>>
           \/ /\ eff[h] # NoChannel
              /\ \E obj \in Loaded : Send(eff[h], Later(reg_t[h], maxtime[h]), obj, gone)
        /\ wtop' = [c \in Channel |-> IF gone = {} THEN wtop[c] ELSE Unlink(wtop[c], h)]
        /\ live' = live \ {h}
        /\ parent' = [parent EXCEPT ![h] = NoThread]
        /\ named' = named \ {h}
        /\ flags' = [flags EXCEPT ![h] = {}]
        /\ nchild' = [g \in Thread |-> IF g = p THEN nchild[g] - 1 ELSE nchild[g]]
        /\ reg_t' = [reg_t EXCEPT ![h] = 0]
        /\ maxtime' = [maxtime EXCEPT ![h] = 0]
        /\ pb' = [pb EXCEPT ![h] = <<>>]
        /\ loop_count' = [loop_count EXCEPT ![h] = 0]
        /\ eff' = [eff EXCEPT ![h] = NoChannel]
        /\ del' = IF p # NoThread /\ nchild[p] = 1 /\ "EXITING" \in flags[p]
                  THEN p ELSE NoThread
  /\ UNCHANGED <<phase, level, undefs, fuel>>

-----------------------------------------------------------------------------
(* break and undef.                                                        *)

(* break(n): drop tokens, through the ends of groups, up to the n-th EALT. *)
BreakPhase_once(n) == "break"
BreakPhase(n) == IF n > 0 THEN "break" ELSE "running"
do_break ==
  /\ Command("break")
  /\ \/ \E n \in 0..loop_count[cur] :
          /\ level' = n
          /\ phase' = BreakPhase(n)
          /\ UNCHANGED <<rtl, threadVars, timeVars, stackVars, eff, chanVars, del, undefs>>
     \/ Halt("error")

skip_token ==
  /\ phase = "break" /\ del = NoThread
  /\ rtl # <<>> /\ Top(cur) \notin {"none", "EOF", "EALT"}
  /\ Pop(cur)
  /\ UNCHANGED <<rtl, threadVars, timeVars, loop_count, eff, chanVars, ctlVars, fuel>>

break_alt ==
  /\ phase = "break" /\ del = NoThread
  /\ rtl # <<>> /\ Top(cur) = "EALT"
  /\ leave_alt(cur)
  /\ level' = level - 1
  /\ phase' = IF level = 1 THEN "running" ELSE phase
  /\ UNCHANGED <<rtl, threadVars, timeVars, eff, all_chnls, mtop, wtop, total_blocked,
                 del, undefs, fuel>>

(* undef(thread): the entries of the thread and of its named descendants.  *)
do_undef ==
  /\ Command("undef")
  /\ \E x \in named :
       IF x = Root THEN Halt("error")
       ELSE /\ undefs' = {h \in named : h = x \/ x \in Ancestors(h)}
            /\ phase' = "undef"
            /\ UNCHANGED <<rtl, threadVars, timeVars, stackVars, eff, chanVars, del, level>>

(* delete_dict, children first: the thread becomes unnamed and, if idle,   *)
(* is deleted.                                                             *)
delete_dict ==
  /\ phase = "undef" /\ del = NoThread
  /\ \E h \in undefs :
       /\ \A g \in undefs : h \notin Ancestors(g)
       /\ undefs' = undefs \ {h}
       /\ named' = named \ {h}
       /\ del' = IF Top(h) = "EOF" THEN h ELSE NoThread
       /\ phase' = IF undefs = {h} THEN "running" ELSE phase
  /\ UNCHANGED <<rtl, live, parent, flags, nchild, timeVars, stackVars, eff, chanVars,
                 level, fuel>>

-----------------------------------------------------------------------------
(* The end of do_eof when no thread is ready.                              *)

begin_cleanup_never ==
  /\ phase = "running" /\ del = NoThread /\ rtl = <<>>
  /\ phase' = "deadlock"
  /\ UNCHANGED <<rtl, threadVars, timeVars, stackVars, eff, chanVars, del, level,
                 undefs, fuel>>
begin_cleanup ==
  /\ phase = "running" /\ del = NoThread /\ rtl = <<>>
  /\ phase' = "cleanup"
  /\ UNCHANGED <<rtl, threadVars, timeVars, stackVars, eff, chanVars, del, level,
                 undefs, fuel>>

(* Delete the idle named threads, children first, to detach effectors.     *)
Idle(h) == h \in named /\ Top(h) = "EOF"
cleanup_idle_threads ==
  /\ phase = "cleanup" /\ del = NoThread
  /\ LET idle == {h \in named : Idle(h) /\ nchild[h] = 0}
     IN \/ \E h \in idle : del' = h /\ UNCHANGED phase
        \/ idle = {} /\ phase' = (IF rtl = <<>> THEN "deadlock" ELSE "running")
           /\ UNCHANGED del
  /\ UNCHANGED <<rtl, threadVars, timeVars, stackVars, eff, chanVars, level, undefs, fuel>>

(* The first blocked WaitStatus in the order of all_chnls and wtop.        *)
FirstBlocked(c, w) ==
  \E m \in DOMAIN all_chnls : c = all_chnls[m] /\
    \E n \in DOMAIN wtop[c] : w = wtop[c][n] /\
      /\ IsBlocked(c, w)
      /\ \A k \in 1..(n-1) : ~IsBlocked(c, wtop[c][k])
      /\ \A l \in 1..(m-1) : \A v \in ToSet(wtop[all_chnls[l]]) : ~IsBlocked(all_chnls[l], v)

(* A blocked wait is an error; a blocked alt is terminated.  After the     *)
(* list the caller returns to parse_cmds, which needs a current thread     *)
(* unless do_eof reported the end.                                         *)
check_dead_lock ==
  /\ phase \in {"deadlock", "blocked"}
  /\ \/ /\ total_blocked > 0
        /\ \E c \in Channel, w \in Thread :
             /\ FirstBlocked(c, w)
             /\ IF ws[c][w].status = "WaitBlocked" THEN Halt("error")
                ELSE /\ rtl' = <<ws[c][w].sleep_thd>> \o rtl
                     /\ total_blocked' = total_blocked - 1
                     /\ leave_alt(ws[c][w].sleep_thd)
                     /\ UNCHANGED <<threadVars, timeVars, eff, all_chnls, mtop, wtop,
                                    ctlVars>>
     \/ /\ total_blocked = 0 \/ ~ \E c \in Channel, w \in Thread : FirstBlocked(c, w)
        /\ phase' = IF rtl # <<>> THEN "running"
                    ELSE IF phase = "deadlock" THEN "done" ELSE "crash"
        /\ UNCHANGED <<rtl, threadVars, timeVars, stackVars, eff, chanVars, del, level, undefs>>
  /\ UNCHANGED fuel

terminated == Halted /\ UNCHANGED vars

-----------------------------------------------------------------------------
Init ==
  /\ rtl = <<Root>> /\ live = {Root} /\ named = {Root}
  /\ parent = [h \in Thread |-> NoThread]
  /\ flags = [h \in Thread |-> {}]
  /\ nchild = [h \in Thread |-> 0]
  /\ reg_t = [h \in Thread |-> 0]
  /\ maxtime = [h \in Thread |-> 0]
  /\ pb = [h \in Thread |-> IF h = Root THEN <<Mark("BODY"), Mark("EOF")>> ELSE <<>>]
  /\ loop_count = [h \in Thread |-> 0]
  /\ eff = [h \in Thread |-> NoChannel]
  /\ all_chnls = <<>>
  /\ mtop = [c \in Channel |-> <<>>]
  /\ wtop = [c \in Channel |-> <<>>]
  /\ ws = [c \in Channel |-> [w \in Thread |-> NoStatus]]
  /\ total_blocked = 0
  /\ phase = "running" /\ del = NoThread /\ level = 0 /\ undefs = {}
  /\ fuel = Fuel

Next ==
  \/ do_defthread \/ do_lbrace \/ do_lbracket \/ do_thread
  \/ begin_of_named_thread \/ end_of_named_thread \/ end_of_block \/ end_of_tokens
  \/ do_pitch \/ do_reg \/ attach_effector \/ do_sync \/ end_sync
  \/ do_signal \/ do_wait \/ end_wait \/ do_alt \/ end_alt \/ destroy_channel
  \/ do_eof \/ postpone_delete \/ delete_thread
  \/ do_break \/ skip_token \/ break_alt \/ do_undef \/ delete_dict
  \/ begin_cleanup \/ cleanup_idle_threads \/ check_dead_lock
  \/ terminated

Spec == Init /\ [][Next]_vars

(* One process runs the whole compiler: it takes a step while it can.      *)
FairSpec == Spec /\ WF_vars(Next)
=============================================================================
