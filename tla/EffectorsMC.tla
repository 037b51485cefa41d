---------------------------- MODULE EffectorsMC ----------------------------
(* Instances of Effectors for TLC.                                         *)
EXTENDS EffectorProperties

act(does, dt, tk, reject) == [does |-> does, dt |-> dt, tk |-> tk, reject |-> reject]
rule(scope, acts) == [scope |-> scope, acts |-> acts]
class(rules, flags) == [rules |-> rules, flags |-> flags]

(* An effector of pairs of notes, one of controls, and one of single notes. *)
octaver == class(<<rule({"on", "off", "pair"},
                        {act("copy", 0, 0, FALSE), act("disable", 1, 2, FALSE), act("", -1, 0, TRUE)})>>,
                 {"MergeTracks"})
volup == class(<<rule({"ctrl"}, {act("copy", 1, 0, FALSE), act("", 0, 0, TRUE)})>>, {"MoveTimeEv"})
single == class(<<rule({"on"}, {act("", 1, 0, FALSE), act("", 0, 0, TRUE)}),
                  rule({"off"}, {act("", -1, 0, FALSE)})>>, {})
Several == {{octaver, volup}, {single}}

(* An effector with an empty action; one whose action attaches another.    *)
empty == class(<<rule({"ctrl"}, {})>>, {})
WithEmpty == {{octaver, empty}}
attacher == class(<<rule({"ctrl"}, {act("attach", 0, 0, FALSE)})>>, {})
WithAttach == {{attacher}}
=============================================================================
