------------------------------ MODULE Expansion ------------------------------
(* What macros and loops are to a program: texts.  A name has a text, an   *)
(* expansion reads a text from its first token to its last, whatever the   *)
(* name becomes meanwhile, and a loop reads the same text again and again. *)
EXTENDS Integers, Sequences, FiniteSets

CONSTANTS Thread, Name, \* who expands, what is expanded
          Text,         \* the texts
          NoText,       \* the text of a name that has none
          Size(_)       \* the number of tokens of a text

VARIABLES
  text,  \* the texts of the names
  stack  \* the expansions of each thread, the current one last

evars == <<text, stack>>

Whole(x) == [type |-> "expansion", text |-> x, rest |-> Size(x)]
Again(x) == [type |-> "loop", text |-> x]

(* A token is read from the current expansion, if there is one.            *)
Rest(f) ==
  IF f = <<>> \/ f[Len(f)].type # "expansion" THEN f
  ELSE [f EXCEPT ![Len(f)].rest = @ - 1]

(* Names get and lose texts: Renamed one at most, Lost any number.         *)
Changes == LET old == text  new == text' IN {n \in Name : new[n] # old[n]}
Renamed == Cardinality(Changes) <= 1
Lost == LET new == text' IN \A n \in Changes : new[n] = NoText

(* What the stack f of a thread may become, g.                             *)
Token(f, g) == g = Rest(f) /\ Renamed
Expand(f, g) == (\E n \in Name : text[n] # NoText /\ g = Append(Rest(f), Whole(text[n]))) /\ UNCHANGED text
Listed(f, g) == (\E x \in Text : g = Append(Rest(f), Whole(x))) /\ UNCHANGED text
Begin(f, g) == (\E x \in Text : g = Rest(f) \o <<Again(x), Whole(x)>>) /\ Renamed
Repeat(f, g) ==
  /\ f # <<>> /\ f[Len(f)].type = "loop" /\ g = Append(f, Whole(f[Len(f)].text))
  /\ Renamed
(* An expansion or a loop is over; a call takes its local names with it.   *)
End(f, g) == f # <<>> /\ g = SubSeq(f, 1, Len(f) - 1) /\ Lost
Becomes(f, g) ==
  Token(f, g) \/ Expand(f, g) \/ Listed(f, g) \/ Begin(f, g) \/ Repeat(f, g) \/ End(f, g)

(* A text for a thread, behind what it has; t and u may be the same.       *)
Behind(old, new) ==
  /\ \E t, u \in Thread, x \in Text :
       new = [[old EXCEPT ![t] = Rest(@)] EXCEPT ![u] = <<Whole(x)>> \o @]
  /\ UNCHANGED text

Init == stack = [t \in Thread |-> <<>>] /\ text \in [Name -> Text \cup {NoText}]
Next ==
  LET old == stack  new == stack'
  IN \/ old = new /\ Lost
     \/ \E t \in Thread : /\ \A u \in Thread \ {t} : new[u] = old[u]
                         /\ Becomes(old[t], new[t])
     \/ Behind(old, new)
Spec == Init /\ [][Next]_evars
=============================================================================
