-------------------------- MODULE ThreadProperties --------------------------
(***************************************************************************)
(* What the thread scheduler and the channels of comp/parse.c must do.     *)
(***************************************************************************)
EXTENDS Threads

-----------------------------------------------------------------------------
(* Type correctness: every variable holds a value of the C type it models. *)
Status == [status : {"Idle", "Executing", "WaitBlocked", "AltBlocked"},
           sleep_thd : Thread \cup {NoThread}, last : Nat]
Message == [time : Nat, obj : BOOLEAN, received_by : SUBSET Thread]

TypeOK ==
  /\ rtl \in Seq(Thread)
  /\ live \subseteq Thread /\ named \subseteq Thread /\ undefs \subseteq Thread
  /\ parent \in [Thread -> Thread \cup {NoThread}]
  /\ flags \in [Thread -> SUBSET Flag]
  /\ nchild \in [Thread -> Int]
  /\ reg_t \in [Thread -> Nat] /\ maxtime \in [Thread -> Nat]
  /\ pb \in [Thread -> Seq(Item)]
  /\ loop_count \in [Thread -> Int]
  /\ eff \in [Thread -> Channel \cup {NoChannel}]
  /\ all_chnls \in Seq(Channel)
  /\ mtop \in [Channel -> Seq(Message)]
  /\ wtop \in [Channel -> Seq(Thread)]
  /\ ws \in [Channel -> [Thread -> Status]]
  /\ total_blocked \in Int /\ level \in Nat
  /\ phase \in Phase
  /\ del \in Thread \cup {NoThread}
  /\ fuel \in 0..Fuel

-----------------------------------------------------------------------------
(* Thread states.                                                          *)
Blocked(h) ==
  \E c \in Channel : \E w \in ToSet(wtop[c]) : IsBlocked(c, w) /\ ws[c][w].sleep_thd = h
Exiting(h) == "EXITING" \in flags[h]
Suspending(k) == k \in live /\ "SFLAG" \in flags[k] /\ ~Exiting(k) /\ k # del
Suspended(h) == \E k \in Thread : Suspending(k) /\ parent[k] = h

(* Every thread structure is in exactly one of the six states a thread can *)
(* be in: ready, blocked in wait or alt, asleep until its group ends, idle *)
(* (named, no tokens), exiting until its children end, or being deleted.   *)
(* A thread in none of them would never run again and would never be       *)
(* deleted (awake_thread was lost); a ready thread that is also in another *)
(* would be woken twice, which makes the ready list circular.  The list    *)
(* holds no thread twice and none that was freed, and total_blocked, which *)
(* decides whether check_dead_lock looks at all, counts the blocked ones.  *)
States(h) ==
  {s \in {"ready", "blocked", "suspended", "idle", "exiting", "deleted"} :
     CASE s = "ready" -> h \in Ready
       [] s = "blocked" -> Blocked(h)
       [] s = "suspended" -> Suspended(h)
       [] s = "idle" -> Idle(h) /\ h \notin Ready \cup {del}
       [] s = "exiting" -> Exiting(h) /\ h # del
       [] s = "deleted" -> h = del}
OneState ==
  /\ \A h \in live : Cardinality(States(h)) = 1
  /\ IsInjective(rtl) /\ Ready \subseteq live
  /\ total_blocked = Cardinality({h \in live : Blocked(h)})

(* nchild counts the children that are still allocated, and no thread is   *)
(* freed before its children: parent pointers, which do_eof, === and the   *)
(* search of wait_thd follow, never dangle.                                *)
ChildCount ==
  \A h \in live :
    /\ nchild[h] = Cardinality({k \in live : parent[k] = h})
    /\ h # Root => parent[h] \in live

(* A break always reaches the EALT it leaves, even through the ends of     *)
(* groups: loop_count of a group includes the loops of its parent.         *)
Loops(h) == Cardinality({i \in DOMAIN pb[h] : pb[h][i].type = "EALT"})
BreakHasTarget ==
  /\ \A h \in live : ~Exiting(h) /\ h # del =>
       loop_count[h] = Loops(h) + (IF "SFLAG" \in flags[h] THEN loop_count[parent[h]] ELSE 0)
  /\ phase = "break" => rtl # <<>> /\ level \in 1..loop_count[cur]

(* No lost wake-up: a thread sleeps in wait or alt only while every        *)
(* channel it watches has no message after the last one it received.       *)
NoLostWakeup ==
  \A c \in Channel : \A w \in ToSet(wtop[c]) : IsBlocked(c, w) => ~HasNext(c, w)

(* A sleeping thread is found again through the WaitStatus it sleeps on:   *)
(* its top element is the EWAIT or EALT that refers to that WaitStatus.    *)
(* One is marked as executing only while some thread still has to finish   *)
(* that wait or alt; otherwise the channel could never be destroyed.       *)
Pending(h, i, c, w) ==
  \/ pb[h][i].type = "EWAIT" /\ pb[h][i].chnl = c /\ pb[h][i].wait_thd = w
  \/ pb[h][i].type = "EALT" /\ c \in GuardChannels(pb[h][i]) /\ pb[h][i].wait_thd = w
SleeperMatches ==
  \A c \in Channel : \A w \in ToSet(wtop[c]) :
    /\ IsBlocked(c, w) =>
         ws[c][w].sleep_thd \in live /\ Pending(ws[c][w].sleep_thd, 1, c, w)
    /\ ws[c][w].status = "Executing" =>
         \E h \in live : \E i \in DOMAIN pb[h] : Pending(h, i, c, w)

(* What receivers rely on: messages stay in time order, and lastmsg points *)
(* to a message that was received.                                         *)
MessageOrder ==
  \A c \in Channel :
    /\ \A i, j \in DOMAIN mtop[c] : i < j => mtop[c][i].time <= mtop[c][j].time
    /\ \A w \in ToSet(wtop[c]) : LET n == ws[c][w].last IN
         n # 0 => n \in DOMAIN mtop[c] /\ w \in mtop[c][n].received_by

(* A receiver gets each message at most once: what lies beyond its lastmsg *)
(* has not been received by it, whatever other threads insert meanwhile.   *)
ReceivedOnce ==
  \A c \in Channel : \A w \in ToSet(wtop[c]) : \A i \in DOMAIN mtop[c] :
    i > ws[c][w].last => w \notin mtop[c][i].received_by

(* Successful completion leaves nothing behind: every thread is deleted,   *)
(* hence every effector detached and its events flushed.                   *)
CompleteAtEnd == phase = "done" => live = {} /\ total_blocked = 0

(* A thread gets past === only when no command is left in its descendants  *)
(* but those behind a wait or an alt: whoever still has tokens is blocked, *)
(* or sleeps above a group that is.                                        *)
SyncWaits ==
  [][(do_sync \/ end_sync) /\ Head(pb'[cur]).type # "ESYNC"
     => \A g \in live : cur \in Ancestors(g) =>
          Top(g) = "EOF" \/ Blocked(g) \/ Suspended(g)]_vars

-----------------------------------------------------------------------------
(* Liveness.                                                               *)

(* A program that is not for ever inside an alt with a default guard ends: *)
(* no chain of ===, groups, signals and deletions runs for ever.           *)
Looping == \E h \in live : \E i \in DOMAIN pb[h] :
             pb[h][i].type = "EALT" /\ pb[h][i].default
Termination == <>Halted \/ []<>Looping

(* No ready thread is starved: even when others loop for ever in an alt    *)
(* with a default guard, each gets to the head of the ready list.          *)
NoStarvation ==
  \A h \in Thread : (h \in Ready) ~> (Halted \/ (rtl # <<>> /\ Head(rtl) = h))

-----------------------------------------------------------------------------
(* What comments and the manual say, and the code does not do.             *)

(* "wake up threads that are waiting for this message" (do_signal): a      *)
(* thread that is about to complete a wait finds a message to receive.     *)
WokenWaitReceives ==
  \A h \in Ready : Top(h) = "EWAIT" =>
    HasNext(Head(pb[h]).chnl, Head(pb[h]).wait_thd)

(* do_wait and do_alt follow wp->lastmsg when wait_thd has executed wait   *)
(* or alt for this channel; the compiler must not fail there.              *)
NoCrash == phase # "crash"

(* A message sent to a channel reaches every thread: a receiver may ignore *)
(* what comes after its last wait, but none of those before is passed over.*)
NoMessageSkipped ==
  \A c \in Channel : \A w \in ToSet(wtop[c]) : \A i \in 1..ws[c][w].last :
    w \in mtop[c][i].received_by

(* === does not wait for a thread whose last request was made with '+'.    *)
(* A group counts as the nearest thread above it that is named.            *)
LastRequestAvoids(x) ==
  LET bots == {i \in DOMAIN pb[x] : pb[x][i].type = "BOT"}
  IN IF bots = {} THEN "CFLAG" \in flags[x]
     ELSE pb[x][CHOOSE i \in bots : \A j \in bots : j <= i].avoid_sync
NotAwaited(g) ==
  \E n \in 0..Cardinality(Thread) :
    /\ Up(g)[n] \in named /\ LastRequestAvoids(Up(g)[n])
    /\ \A m \in 0..(n-1) : Up(g)[m] \notin named
SyncIgnoresPlus ==
  [][\A h \in Ready :
       (h = cur /\ Top(h) = "ESYNC" /\ pb'[h] = pb[h])
       => \E g \in Ready \ {h} : h \in Ancestors(g) /\ ~NotAwaited(g)]_vars
=============================================================================
