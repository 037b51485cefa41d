----------------------------- MODULE ThreadsMC -----------------------------
(* Instances of Threads for TLC.                                           *)
EXTENDS ThreadLifeImpl, TLC

CONSTANTS thd1, thd2, thd3, ch1, ch2

Alt(chnls) == [i \in DOMAIN chnls |-> [chnl |-> chnls[i], bind |-> FALSE]]
NoGuards == {}
OneGuard == {Alt(<<ch1>>)}
AltOfTwo == {Alt(<<ch1, ch2>>)}

No == {FALSE}
YesNo == BOOLEAN

(* The commands of each instance: creating and ending threads; blocking    *)
(* and waking them; leaving alts and loops; everything at once.            *)
Tree == {"defthread", "lbrace", "lbracket", "thread", "undef", "attach", "wait"}
Channels == {"defthread", "lbrace", "thread", "signal", "wait", "alt", "reg"}
Loops_ == {"defthread", "lbrace", "thread", "sync", "alt", "break"}
Everything == Tree \cup Channels \cup Loops_ \cup {"pitch", "undef_channel"}

(* For the violations: as little as each needs.                            *)
Waiting == {"lbrace", "signal", "wait", "sync", "pitch"}
LeavingAlt == {"alt", "break", "wait"}
Avoiding == {"defthread", "thread", "sync", "alt"}

(* Every thread but the root is interchangeable.                           *)
Interchangeable == Permutations(Thread \ {Root})
=============================================================================
