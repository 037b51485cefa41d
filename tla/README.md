# A TLA+ model of PMML

PMML (Practical Music Macro Language) is a music language; its compiler reads a
program of notes, controls, macros, threads and effectors and writes a Standard
MIDI file.  The compiler is one C process.  It interprets the program with
cooperative threads, which all advance their own musical time, exchange messages
on channels, and put events into the buffers of effectors; when a thread ends, its
effectors sort and pair the events, run the user's actions on them, and output
them into the next effector, down to the one that writes the file.

This directory holds TLA+ modules that model the compiler, TLC configurations
that check them, and TLAPS proofs.  `PROJECT.json` maps every definition to the
lines it models, lists the runs with the mutants that break their properties, and
the hazards of the code with the properties that watch them.

## Inventory

| Component | Source | State | Operations | Hard because | Correct when |
|---|---|---|---|---|---|
| Threads and channels | `comp/parse.c`, with `input.c`, `dict.c`, `macro.c` | ready list, thread tree with child counts, flags, times, push-back stacks, channels with messages and receivers | `THREAD {}`, `{}`, `[]`, `===`, `signal`, `wait`, `alt`, `break`, `undef`, end of tokens, deletion, deadlock check | interleaving at every rotation; late and early messages; postponed deletion; deletions that wake threads | each thread is in one state, no wake-up is lost, no message is received twice, every thread ends or is reported, nothing is freed before its children |
| Event buffers | `comp/output.c` 200-450, 1339-1436 | per track a list of ordered sequences; note table | insert, merge sort, pair notes, merge tracks | in-place relinking; priorities that change while the list is walked | no event lost, stable sort, time order, pairs that nest |
| Effectors | `comp/parse.c` 2765-3500, `output.c` | instances, effector list of a thread with its enable bits, special macros | attach, enable, detach, init/wrap/event actions, routing | actions run PMML code that attaches, detaches and outputs, inside the deletion of a thread | every event passes the enabled effectors in order; none is lost; nothing refers to a detached effector |
| Post-processing | `comp/output.c` 480-1297 | playing counts, last notes, last controls | time range, retrigger, expansion of continuous controls, cut after the end | a scan with state tables, boundaries of the range | no note hangs; controls and signatures are in force from the start of the range |
| Rational arithmetic | `comp/rational.c`, `rational.h` | none | add, subtract, multiply, divide, modulo, compare, convert | 15-bit denominators, results that alias operands | exact while the denominator fits, near else; comparisons agree with values |
| Arrays | `comp/array.c` | ring buffers with reference counts | create, index, append, insert, shift, growth, `$*` | wrap-around, growth, arguments that become an array | equal to the sequence it stands for |
| Dictionary, macro calls | `comp/dict.c`, `comp/macro.c` | hash chains, scopes per thread and call, active counts | define, redefine, delete, call, return, loops, break | a macro may redefine or delete itself while it is expanded, in several threads | an expansion reads its text; memory is freed once and after its last use |
| Token input | `comp/input.c`, `comp/token.c` | push-back stacks with a shared free list, list of active token lists | get, probe and push back tokens, enter and leave lists | lists freed while they are being read | tokens come in the order of the program |
| Expressions | `comp/expr.c`, `comp/builtin.c` | operand and operator stacks | evaluate, built-in functions | conditionals and skipping on a precedence stack, nested calls | as in the grammar |
| Modifiers, arguments | `comp/parseut.c` | a temporary thread per modifier | parse a modifier, scan arguments | - | registers restored |
| SMF output | `comp/smfout.c`, `common/smf.c` | tracks of the song, chunk being written, running status, blocks | select, cut and merge tracks, supply the tempo, write events | delta times across empty, packed and unselected tracks; sizes that come first | the header counts the chunks, chunks end together, no note hangs, the bytes are those of the events |
| SMF input | `comp/load.c`, `common/smf.c` | slots of open files | open, read, close | slot reuse, running status, truncated input | what was written is read back; no false end |
| Driver, diagnostics | `comp/pmml.c`, `error.c`, `table.c`, `common/util.c` | options | parse options, report | - | - |
| m2p | `m2p/*.c` | event lists | split by channel and kind, pair notes, fit lines, write measures | quantisation of times | compiling the output gives the events back |
| Library, examples, emacs mode, manuals, `c_lib/random.c` | | | | | not part of the compiler's logic |

Components interact by direct calls in one process.  The threads component owns the
scheduler: every command handler runs to its end without interruption, and control
passes to another thread only where `rotate_thread`, `sleep_cur_thd` or
`awake_thread` is called.  So the interleavings that matter are those of *commands*.
What a handler does is one action, except where one command is a loop over other
routines that themselves run handlers (`break`, `undef`, deletion, the end of the
program, an effector's action): these are split at those calls, with an explicit
program counter or a stack of pending calls.

## Modules

    ThreadLife         abstract: the life of a thread
    Threads            comp/parse.c: scheduler, channels, deletion
    ThreadProperties   its properties         ThreadLifeImpl   it implements ThreadLife
    ThreadsMC          instances
    ThreadsProofs, StackProofs, StateProofs     proofs

    EventBuffer        comp/output.c: insert_evlist, sort_event, pair_notes
    EventProperties, EventsMC                         EventProofs  proofs
    Effectors          comp/parse.c, output.c: chains of effectors
    EffectorProperties, EffectorsMC                   EffectorProofs  proofs
    PostProcess        comp/output.c: post_process
    PostProperties, PostMC                            OutputProofs  proofs
    SmfOut             comp/smfout.c: extends PostProcess to all tracks and the file
    OutProperties, OutMC                    (proofs: OutputProofs)
    Smf                common/smf.c, comp/load.c: the bytes, written and loaded
    SmfProperties, SmfMC

    PmmlArray          abstract: the sequence that a program sees
    RingArray          comp/array.c
    RingProperties     properties and the refinement       RingProofs   proofs
    Rational           comp/rational.c, rational.h
    RationalProperties, RationalMC
    Expansion          abstract: names, texts and their expansions
    Macros             comp/macro.c, input.c, dict.c: calls, loops, push-back stacks
    MacroProperties    properties and the refinement       MacrosMC      MacroProofs  proofs
    Expr               comp/expr.c
    ExprProperties     the meaning of an expression        ExprMC

The events of a program go through EventBuffer (a buffer is sorted and paired),
Effectors (it is distributed), PostProcess and SmfOut (the last effector cuts,
merges and writes) and Smf (bytes).  Each takes as given what the one before it
shows: Effectors and PostProcess have buffers that are stably sorted, SmfOut has
messages for which Smf has the bytes.  In the same way Threads, Macros and Expr
divide the interpretation: Threads has the scheduling and takes any command for a
token list, Macros has the token lists and gives any thread its turn, Expr evaluates
one expression.

### Threads

`rtl` is the ready thread list and its head is `cur_thd`.  `pb` is the push-back
stack of each thread: `BODY` is a token list, `EOF` the bottom, `EOB` and `EOT` the
ends of a group and of a `THREAD {}` request, `BOT` its beginning, and `ESYNC`,
`EWAIT`, `EALT` the tokens by which `===`, `wait` and `alt` resume.  A PMML program
is abstracted to the commands it takes: while the top element is `BODY`, the model
takes any command the instance allows, or ends the list, at most `Fuel` commands in
all.  So a run covers *all* programs up to that length, whatever values their
conditions have.

Each command handler is an action of the same name.  `do_lbrace`, `do_lbracket`,
`do_thread`, `do_defthread` and `do_eof` handle creation and end; `delete_thread` is
what it is when the child count is zero and `postpone_delete` when it is not.  A
channel has its messages in time order (`mtop`) and its receivers (`wtop`, `ws`),
where `lastmsg` is an index.  `received_by` is a history variable: `received` in the
code is one bit for all receivers.  `attach_effector` gives the thread an effector
whose wrap action signals a channel; this is how deleting a thread can wake others,
also during the cleanup at the end.  When the code dereferences NULL or a freed
channel, `phase` becomes "crash".  `error()` ends the compiler: "error".

A thread in `Thread` is an address that `malloc` may return, so freed threads are
reused by new ones.  `Forget` keeps the history of a freed thread from being
attributed to its successor.

`ThreadLife` promises which state a thread may enter from which, that a thread which
awaits a group resumes exactly when that group ends, and that a thread is freed after
its children.  `ThreadLifeImpl` computes the state of a thread from the ready list,
the stacks and the channels, and checks that every step of Threads is one of
ThreadLife or a stutter.

### EventBuffer

Events are numbered in the order of output.  `eseq` is the list of sequences of a
track; `insert_evlist` begins a new one when the event comes before the last.
`sort_event` is one pass of pairwise merges per step.  `pair_notes` is one iteration
of its loop per step, with `pos` for `ep` and `ctop` for the insertion point: both
pointers into the list are positions, and `Moved` relinks.  Notes come from `do_pitch`
(already paired), or singly from `note_on` and `note_off`; "ctrl" stands for all
events of the priority between.  `npend` starts with a value of `Uninitialized`.

### Effectors

Threads (`thd`) have a list of effectors (`effs`, newest first) and its enable bits
(`eebv`), which children copy.  `output_event` finds the first effector whose bit is
set and whose masks do not let the event through, and gives the event the bits that
are left.  Deleting a thread detaches its own effectors; `calls` is the stack of C
calls that this involves, since the events of an effector are output one by one while
its actions run as PMML code in the thread of the effector, and this code may output,
attach, enable and disable.  An action is one of a few *acts* (move the event in time
or to a track, copy it, disable an effector, attach one, reject the event).  History
fields `on` record what was enabled when an event was output.

### PostProcess and SmfOut

The scan of `post_process` is two steps per event: `Check`-ing it against the range,
and the case for its type.  `note_tbl`, `nnotes`, `ctrl_tbl` are the tables of the
code, for one key each: a note or a controller on a channel.  `tmp` is the buffer to
which events are moved, `partner` the links between notes.  `SmfOut` extends it: for
each track that the options select it runs the scan, merges for format 0, and then
takes one step per event of `smfout_action`, with the decisions on empty tracks,
packing, tempo and the velocity factor.

### Smf

The writer has the two ways of the code: patching the size of a track, and, for a
pipe, blocks of `SMF_BLKSIZE` bytes that `malloc` may refuse (`Memory`).  Running
status, variable-length numbers and the end of a track are bytes.  The reader
(`load`, `loadtrk`, `getheader`, `close`) works on slots by file name, `cur_track`
and position included, and on files that were cut off after any byte.

### RingArray

The state is `struct array`: `size`, `offset`, `alloc_size` (the mask, -1 before the
first growth), `ref`, `ng_flag` and the memory `elms`, where `None` is what malloc
returns.  `PmmlArray` is the sequence, with the elements that each operation frees;
the refinement mapping reads `size` elements through `array_ref`.

### Rational

Two registers take the results of any sequence of operations, stored over an operand
or not; `last` is the operation with its operands.  Each routine is an operator, in
the way the code computes (with `gcd` before multiplying, the double division when the
denominator is too large).  `short(n)` wraps.

### Macros

`heap` is memory for token lists (a list is its length), `dict` names by scope, `thd`
the threads with the stack of what they read: token lists that belong to a name
("tokens"), tokens of loops ("loop"), strong lists, `T_BOT`.  `atl` is the list of
active token lists, `refs` the reference counts of calls.  `Expansion` says what this
is for: an expansion reads one text to its end, whatever happens to the name.

### Expr

One step per token read: `_get_expression` with its operand stack, its operator stack
with skip flags, the nested call for a subscript, and skipped braces.  Values are
fractions with their type.  `ExprProperties!Means` is the meaning of an expression by
splitting it at its weakest operator, which the evaluator must agree with; it is the
only recursive operator, and nothing is proved in that module.

## Checks

| Run | Asks | Instance |
|---|---|---|
| threads_all | Are threads in one state each, child counts right, is everything deleted at the end, does break find its loop, are wake-ups and messages right, with all commands together? | 3 threads, 2 channels, 5 commands |
| threads_fair | Does every program end unless it loops in an alt with a default guard, does each ready thread get its turn, does === wait, do threads live as ThreadLife says? | 3 threads, 1 channel, 5 commands |
| wait_woken | Does a woken wait find its message? It does not: see Disagreements | 1 channel, 7 commands |
| events | Is no event lost, is the sort stable, is time order kept, are partners right, do pairs nest? | 2 notes, 2 times, 5 events |
| effectors | Do flags stay with their effector, is no event lost or duplicated, does nothing dangle, are buffers ordered? | 3 effectors of one or two classes, 5 threads, 3 events, 4 commands |
| post_process | After cutting a range: do the right notes sound, do controls follow their lines, does the length cover the events, is the signature kept? | tracks of up to 4 events at 4 times, 7 requests |
| smf_out | Do chunks agree with the header and end together, does no note hang, is the tempo known from the start? | 2 tracks, up to 4 events, 7 sets of options |
| smf | Do both ways of writing agree, is what is loaded what was written, is no damaged file taken for a good one? | 2 tracks, 3 events, blocks of 4 bytes, one file under two names |
| ring_array | Does the ring buffer implement the sequence? | lengths 0, 1, 3 growing to 5 |
| rational | Are results exact or near, in normal form, and comparisons right? | shorts of 3 bits, denominators below 6 |
| macros | Does an expansion read its text, is memory freed once and after its last use, do calls end in order, does break find its loops? | 3 lists, 2 calls, one name, a block and a named thread |
| expr | Does the evaluator compute the meaning of every expression, skip what it must, and refuse only what has none? | all expressions up to 5-13 tokens over eleven alphabets |

Every property of a passing run is broken by the mutant that `PROJECT.json` names.
Mutants are operators of the modules whose names end in the change (`Ended_active`).

### Bounds, and why they are enough

*Threads.*  Three threads give a chain of three generations, two siblings, and reuse
of a freed address, which is what deletion distinguishes.  An alt with two guards needs
two channels; more guards repeat the second.  Times 0..2 let a message come before, at
and after another.  Five commands create a receiver, block it, send two messages and
block it again.  All threads but the root are interchangeable.

*Events.*  Two times separate "moved before an earlier time" from "moved within a
time"; five events allow three sequences, so an odd one left over in a merge pass,
and two overlapping pairs with a control between.  `npend` starts at 0 or 1.  Five events
are too few for one thing the proof attempt for NestedPairs met: two pairs of a note may
cross when the inner note has no length.  With note-ons n at 0, m at 0, m at 1, and note-offs
n, m, m at 1, the off of n moves to the insertion point, the first event of time 1, and
takes it behind the second on of m (output.c:1402-1412); the off of the first m, paired
last, then moves to there, between the on and the off of the second.  So NestedPairs exempts a
pair inside another whose note-on is at the time of the other's note-off; runs with six events
and three times, without controls, pass.

*Effectors.*  Two effectors above `$smfout` are the least for which one passes to
another with bits left over; five threads are the root, two of the program and those
of the effectors; two tracks and times let an action move an event either way.

*PostProcess, SmfOut.*  Four events overlap two notes of one key, or make a line with
two segments, or a line without a start, which is an error; ranges begin before 0, at 0, within the notes and end before, at and
behind the end.  Notes, controls and signatures meet only through the range, so each
has tracks of its own.  `MaxCount` is 255 as in the code and not reached.

*Smf.*  Events are chosen for running status (two of one status, one of another), a
delta time of two and one of three bytes, a system exclusive, and data that read as a
track header.  Blocks of 4 bytes make a track of several; `MAX_LOAD` is 1, so that two
names compete for the slot.

*RingArray.*  From length 3 to 5 the buffer grows twice (4, 8) with the rest moved and
not moved.  The proofs need no bound.

*Rational.*  With `Wrap` 8 and `DenLimit` 6, every routine takes each of its ways:
same denominators, cancelling, rounding through a double.  Intervals and integers
of the code are larger multiples of the same forms.

*Macros.*  A list of length 1 still has a state before and after its token, two calls
nest, a third list lets a redefinition coexist with two readers, `Depth` 5 holds a call
in a loop in a call.

*Expr.*  Each alphabet is one concern (conditionals, short circuit with braces,
precedence, subscripts, types, compound assignment), as long as TLC allows.

### Fairness

`FairSpec` has `WF_vars(Next)` and nothing more: the compiler is one process whose main
loop (`parse_cmds`) takes a step while it can.  In particular no fairness among threads
is assumed; that no thread is starved follows from `rotate_thread`.  The model does not
let a program take commands for ever (`Fuel`); the endless behaviours that remain are
`===` and `alt` polling.  They do not use `Fuel`, and the run shows that only an alt
with a default guard polls for ever.  The other modules are sequential computations
whose runs state safety only; deadlock is checked in all, where a finished computation
stutters (`terminated`).

## Disagreements with comments and the manual

`wait_woken` is a run of the project.  Each of the others is reproduced by
`tlc -config X.cfg M`, which stops at the property named:

| Configuration, module | Property | What happens |
|---|---|---|
| WaitWoken, ThreadsMC | WokenWaitReceives | `do_signal` wakes every thread blocked on the channel (parse.c:1028 "waiting for this message"), also one that has received a message of a later time. The new message lies before its `lastmsg`; `end_wait` (1289) dereferences `lastmsg->next`, NULL. |
| AltLeft, ThreadsMC | NoCrash | An alt that received nothing leaves a WaitStatus whose `lastmsg` is NULL (parse.c:1236); the next wait or alt of that thread on the channel dereferences it. |
| LateMessage, ThreadsMC | NoMessageSkipped | A message reaches every thread, says the manual (eng/pmml.texi:7615). One sent after a receiver took a message of a later time is inserted before that (parse.c:1024) and never received. |
| SyncPlus, ThreadsMC | SyncIgnoresPlus | The manual (pmml.texi:2980-2988) says that === does not wait for a thread whose last request ended in `+`; `do_sync` (parse.c:958) never looks. |
| Events with `INVARIANTS SortedAfterPairing`, EventsMC | SortedAfterPairing | "events are guaranteed to be sorted" (output.c:1341). After moving one note-off, `pair_notes` sets its insertion point behind the controls of that time (1402), and the second note-off stays behind them. |
| Events with `Uninitialized = {-1}`, EventsMC | TimeOrder | `npend` (output.c:1354) is not initialised; with -1 a note-off is moved to an earlier time. |
| PostProcess with `MaxCount = 1`, PostMC | NotesHeld | `nnotes` counts to 255 and stays there (output.c:658); with more notes of one key the first note-offs silence it too early. |
| SmfOut with `Parts <- Faded`, `Options <- Plainly`, `NTracks = 1`, OutMC | NoteDeleted | "delete the note event" of a note whose velocity became 0 (smfout.c): its note-off is written all the same. |
| Smf with `Memory = {20}`, `MaxEvents = 1`, `MaxCuts = 0`, SmfMC | LoadsAllTracks | `load` reads all of the tracks (pmml.texi:7902), but after `loadtrk` from the same open file it goes on behind the track that was loaded. |
| Effectors with `Programs <- WithEmpty`, EffectorsMC | ValidFlags | An event of a rule with an empty action is output in a thread whose `eebv` was not set to that of the event (parse.c:3161): effectors that were disabled for it get it. |
| Effectors with `Programs <- WithAttach`, EffectorsMC | NoneLost | An action that attaches an effector (parse.c:2877-2881) shifts the list, but not the `eebv` of the events still queued (3171): each bit is read for its neighbour, and an event may pass the whole chain and be freed. |
| Rational with `INVARIANTS AccurateInPlace`, RationalMC | AccurateInPlace | The result may be "possibly the same pointer as a or b" (rational.c:50). `radd` and `rsub` store the integer part first (53); when the denominator is too large they compute again from the changed operand. |
| ForVariable, MacrosMC | OneOwner | The body of a `for` may give its variable another type; `end_for` (macro.c:915) adds the step to the value, which then is the address of a token list. |
| Conditional, ExprMC | RightToLeft | Conditionals are evaluated from the right, says the manual. In `a ? b ? c : d ? e : f : g` only one `:` is closed (expr.c:315), and the expression is refused. |

Two smaller facts met in `Expr`: braces behind `&&`, `||`, `?` and `:` do not group (an
operator weaker than the one before takes what is before it too), and the manual has the
precedences of `|` and `xor` the other way round.  A passing run excludes exactly the cases above: `Stale`, `Retyped`,
`Chained` (the conditionals of the last row), `result.from = 0`, and the classes of programs in the MC modules.

## Proofs

All proofs hold for every value of the constants that satisfies the named assumptions
of the modules.

`ThreadsProofs` proves `Spec => []TypeOK` for any finite sets of threads and channels,
any command set, any bound.  TypeOK alone is not inductive: that `do_eof` wakes
a thread needs that the parent of a group exists (`GroupHasParent`); that
`do_signal` wakes a thread needs that a blocked WaitStatus has a sleeper
(`SleeperIsThread`); that `level` stays a natural number needs that it is positive
while breaking (`BreakLevel`).  Their conjunction with TypeOK is `TypeInv`, proved
inductive action by action.

It also proves NoLostWakeup, MessageOrder and ReceivedOnce from `TypeInv` and
`ChannelInv == Ordered /\ LastReceived /\ RestUnreceived /\ NoLostWakeup`.  The argument: an
insertion lies behind every message that is not later, and shifts each `lastmsg` that is
not before it, so what lies beyond `lastmsg` was never received
(`RestUnreceived`) and the order is kept.  A thread blocks only when nothing is beyond
its `lastmsg`, and whoever adds a message to a channel unmarks every receiver blocked on
it; receivers advance only when they are not blocked.

`ThreadsProofs` then proves ChildCount and the part of OneState that is about the ready list: it
holds no thread twice and none that was freed.  A thread is counted by its parent until
it is freed, so the proof must know that only threads that are there create, wake and
delete others; hence the invariant `TreeInv` is about all of the scheduler.  What
tells the threads apart is the element on top of the stack.  A thread that sleeps in wait
or alt is not ready and has the EWAIT or EALT of just that WaitStatus on top
(`Sleepers`); one that waits for its group has the tokens behind the group
(`Groups`: it is not ready, and has one such child); one that is exiting or being deleted
has nothing but EOF (`Exits`, `Deleted`), and no ready thread but the current one has
reached its EOF (`AtEnd`).  So whoever is woken (`do_signal`, the end of a group, undef)
is not ready yet and is not being deleted, and `Listed` is kept.  `Stacks` says that EOF is
at the bottom only and that tokens follow an EALT; `Names` is what undef and
cleanup rely on.  There is one lemma per action.  `StackStep` is shared by the steps
that create and delete no thread, `RotateStep` and `BlockStep` by those that move the
current thread in the list.  `do_signal` wakes a set of threads, and that these are as many as the
receivers is `OneReceiver`: the top of a stack names one `wait_thd`.

`StackProofs` proves BreakHasTarget and SleeperMatches.  For the first, `StackInv` says
that the loop count of every thread that can still run is the number of its EALTs and, in
a group, the loop count of its parent (`LoopsCounted`), that an EWAIT is only ever on top
of a stack (`WaitsOnTop`), and that a break in progress has a level within that count
(`Breaks`).  A parent whose count could change under a group is suspended, so the counts
agree (`CountKept`).  For the second, `DutyInv` says in whose name a thread waits: the
`wait_thd` of an EWAIT or EALT is the nearest thread at or above that is named or was
started with `&` (`Receivers`); as a group suspends its parent, at most one thread that
can run waits in one name (`OneActive`).  So what finishes a wait or an alt finds the WaitStatus
that is executing as it left it (`Finished`), and each WaitStatus on a stack is in the
list of its channel, and the channel in the list of all (`Registered`).  The ancestors of
a thread are a recursive function on `0..Cardinality(Thread)`; `MinimalSet`, a least
counterexample by the library's theorem on finite sets, takes the place of induction.

`StateProofs` proves OneState, SyncWaits and CompleteAtEnd, for programs in which every
alt has a guard (`Guarded`): an alt without any sleeps on no WaitStatus
(parse.c:1423), so nothing finds it again, and for such programs OneState is false.
Every instance satisfies the hypothesis.  `AccountInv` is the half of OneState that
TreeInv does not have: every thread is accounted for (`Accounted`) and `total_blocked` is the
number of those that sleep (`TotalBlocked`); `Exclusive` shows that the states exclude
one another.  CompleteAtEnd needs `EndInv`: parents form a forest, stated as "every set
of threads has one with no child in the set" (`Forest`), one that is exiting
has children (`ExitsLast`), and when the deadlock check comes with nothing ready
every idle thread has children too (`Drained`).  If no thread is blocked then, one of those left
would have no children, and none of the states is left to it (`NothingLeft`).

It also proves that Threads implements ThreadLife for the same programs: `LifeCycle`
is a theorem of Spec.  The refinement mapping (`StateOf`) asks what a thread is in the
order deleted, exiting, ready, suspended, idle, and calls the rest blocked, so which
WaitStatus a thread sleeps on matters only to those that wake it.  Under
`LifeInv == TypeInv /\ TreeInv /\ DutyInv /\ AccountInv` the mapping is decided by what
each step does to the ready list, the flags and the top of the stacks (`Mapping`), and
there is one lemma per action, with the step of ThreadLife it takes: `WakeLife`,
`SleepLife` and `StillLife` are shared by those that wake, block or move nobody.  That only
the last child continues its exiting parent (Free) is where the proof needs ChildCount,
and that a resumed thread is the one that awaited the group is `SameAwaits`.

`EventProofs` proves SortedStably, TimeOrder, Partners and NestedPairs, when `npend` does not start below
0 (`NonNegative`); with -1 TimeOrder is false, see above.  While events are collected
and sorted, `CollectInv` says that each sequence is sorted by time, priority and number,
and that all events of a sequence are older than those of the next (`Collected`): this
is why an event that begins a new sequence, and a merge that prefers its first operand,
keep the order stable.  `Merge` is a recursive function on pairs of positions;
`MergeSteps` shows that it exists, by taking a least counterexample, and `MergeIs` what
it returns.  While notes are paired, `PairInv` says that the list is a permutation of the
events (`Placing`), in the order of time (`Timed`); that an event with a partner is half
of a couple or a pending note-on (`Coupled`); that from the note table on, the pending
note-ons of a note are linked from the latest to the earliest and none is skipped
(`Chained`); that `npend` is at least their number (`Counted`); and that when it is not 0
the insertion point is in the time of the next event (`TopInTime`).  A note-off that
finds a note-on finds `npend` positive, so it moves within its own time, and behind
its note-on, which is earlier (`MovedInTime`).  `PendingNotes`, a recursive function too,
runs down these chains, so `end_pair` clears all links that are left (`ChainHolds`).
NestedPairs needs one invariant more, `NestInv`, about the pairs made so far (`Spans`): they
end before the event in hand (`Ended`), do not cross (`NotCrossed`), and no pending or isolated
event is within one (`NoneWithin`); an isolated note-off stands before every note-on of its
note that is pending (`LoneFirst`).  What a moving note-off could break is NotCrossed: it
passes the note-offs of its own time that were not moved.  `BeforeTop` says that these belong
to notes without length, or to notes that began earlier than every pending one.

`EffectorProofs` proves NoDangling for every program: any effector classes, and any number
of threads, effectors, events and tracks.  Its invariant `EffectorInv` has two halves.

* `ThreadInv` is about threads and lists.  A thread is younger than its parent and is not
  deleted before it, and every effector has an effector thread of its own (`Tree`).  A list runs from the
  newest effector to the oldest, those a thread attached before those that its parent had, and
  all are attached (`Lists`).  delete_thread and detach_effector call each other: the calls
  in progress are the effector threads of one chain, above the thread that began it
  (`Chained`), the effector of a live effector thread is in the list of the thread that attached
  it or among these calls (`Attached`), a thread that detaches has nothing below it that
  runs (`Detaching`), and `nchild` is the number of children until effector threads are
  deleted too, when it drops below 0 (`Counted`), which the test `nchild > 0` lets pass.
  The effector that is detached is the newest of its thread, which has no other
  threads below it, so it was in no other list (`NoOtherList`).
* `EventInv` is about events: an event is in one place of one buffer (`Buffered`) or in the queue of
  the effector that is being detached (`Queued`), and partners are partners of each other
  (`Mutual`).  Every routine is described by what it does to a state (`Does`): it keeps
  the types and `EventInv`, and moves no event but those in `Y`.  Outputs, copies, attachments
  and changed flags within an action compose (`DoesThen`), and so the action of a rule
  keeps the invariant whatever its commands are (`ActionKeeps`).

pair_notes and the pairing of all tracks are recursive functions on positions; `Recurs` and a
least counterexample show that each step of them keeps `Mutual`.

`OutputProofs` proves LengthCovers for every track, request, `Step` and number of keys; that
`end` is behind `begin` in a request, as the parser of time_range demands, is an assumption.  Its
invariant `ScanInv` says where the scan is (`Positions`), that the tables of notes, controls
and signatures hold events it has passed (`Tables`), what the state of `output` says about
the events before the scan and about `term_time` (`InRange`), and that each event of the
buffer has a time the scan has `Reached`: up to `cur_time` or `begin_time` and before
`end_time`, or, once the output has ended, up to the time it ended at.  What a continuous
control draws is a recursive function on a number of steps; `Recursion` shows by a least
counterexample that it exists, `Inductively` that a fact of its steps is one of the
result, so lines and curves lie between the two ends that `SegmentIn` gives them.  The
end of the scan shifts the list, and `FinishStep` computes in which interval it falls.

`ChunksEndTogether` in `OutputProofs` is for every song: the tracks, the options of smfout, the ranges
and the requests are constants, of which `TempoAssumption` says that some event sets the tempo,
and `OptionAssumption` that the options have the values the parser allows, a range
its begin before its end.  The invariant `OutInv` has a part for each phase of write_smf.  While
tracks are cut, the events of those that are finished lie within the length so far (`LengthCovers`
is the step).  A sort gives an event its rank, and ranks are places, so a sorted track rises
(`RenumberedRises`); merging and retriggering move events but not their times, and the missing
events are supplied at time 0 (`SuppliedRises`).  While the chunks are written, those in the file are the
tracks up to the last one begun, or its active ones when empty tracks are left out; no event to
come is earlier than `prev_time`, and none is behind `end_of_song`, so each end of track
adds what is missing to the same total (`ClosedTotal`).

`TempoFirst` in `OutputProofs` is TempoFromStart for every song, again for all constants.  That a
tempo found or supplied at time 0 is still the first thing in the file depends on what happens to
notes: smfout deletes the partner of a note-on it does not write, and if a partner were ever a tempo
or a time signature, that would be lost.  So the invariant `HeadInv`, beside `OutInv`, says through
all of post_process that the partner of a note is a note: of the tracks (`Mates`: events are named
by their places, `Matched`), and of the scan in progress (`Scanned`: what is written, flushed or kept
back has the type of the event it is named after, or is new and no note-on).  Sorting
and renumbering keep that (`RenumberedMated`), and so does merging, where names move by the length of the tracks
before (`MovedSourced`).  Once the file is open, `TracksHeaded` says that each track which must
begin with a tempo and a signature does, and `FileHeaded` that the chunk being written holds, behind
no delay, those the place in the track has passed (`Led`); an event at time 0 is behind no delay
because `prev_time` is 0 until one is later.

`RingProofs` proves that RingArray implements PmmlArray (`Implements`), and that the
mask is a power of two less one, no routine leaves the memory of an array, and an index
finds an element (`OnlyElements`).  The invariant is `RingInv`: InBounds and Elements, with
"only an active call makes an array that cannot grow" and "a live array has references".
An index is `Place(i, offset, n)`, its sum with the offset less n if need be
(`PlaceIsMod`), and two indices never share a place (`RefInjective`).  `Growth` is the
heart: when the buffer is full, either the part before the offset is copied behind the old
buffer, or the part from it to the end of the new one, and either way the new offset and
mask find each element where the old ones did.  A power of two is a number without an odd
divisor but 1, which doubling keeps (`Doubled`); the remainder is what the code's `&` is
for such a mask.

`MacroProofs` proves LoopCount, of Macros, for every set of lists, names, calls and threads and every
bound.  It assumes that the first thread, the blocks and the named threads are different ones
(`ThreadAssumption`) and that the names are finitely many (`MacroAssumption`), for the end of a call
deletes its macros one by one.  Its invariant `MacroInv` says of each thread (`Fine`) what its stack
may look like: T_EOF at the bottom only, no list of a macro call below a T_BOT or T_EOT, the tokens
behind the block on top while it waits; that only a block is waited for, by
a thread that waits for nobody else (`Family`); that each thread has a call for every list on its
stack that ends one (`Covered`), which is what end_of_macro takes; and that the loop counts are right
(`Counted`).  A handler passes through states in which a count is off by the loop it
is about to push or has just popped, so `Sound(s, t, n, k)` allows thread `t` to lack `n` loops and `k`
calls: pushing, popping, beginning and ending a loop or call are each one lemma (`GoodPush`, `GoodPop`,
`GoodLoops`, `GoodCalls`), and an action is a sequence of them that ends with 0 and 0.  Freeing lists,
redefining and deleting names, and locking and unlocking calls change no thread but for the marks on
its elements (`Frame`); deleting the macros of a call and unlocking the calls of a thread are folds,
and that each step of a fold keeps the threads is shown by a least counterexample (`FoldFrame`).
That a parent's count does not change under its block is `Fine` again: it waits, so it reads nothing.

Only model-checked: everything of the modules that are not named here; liveness, which
needs fairness and ENABLED and is out of the prover's reach.  Rational's rounding is nonlinear arithmetic with `gcd`, Expr uses
Bitwise, and the properties of Smf and ExprProperties are recursive over data: these
stay with TLC.  So do NotesHeld, ControlsFollow and SignatureKept, which compare the notes and
controls in force before and after post_process at every time, NotesEnd, which also needs
that every note-on finds its note-off through the whole of post_process, the
order and the completeness of an effector's buffers (SequencesOrdered, NoneLost, ValidFlags), and
OneOwner, CallsMatch and ReadsItsText of Macros.  The proofs of Macros treat a token list as
unknown: the marks that free_tklist leaves on the stacks may differ.  These three need to know
who refers to which list, and in which order the calls end.

## Not modelled

* Modifiers run in a temporary thread that cannot wait, signal or sync, and are part of the
  command they modify.
* In Threads, loops other than alt share its loop count and break; Macros has them.  Every alt
  has a guard; `alt {}` sleeps on nothing.
* Effectors: the init, detach and wrap actions of a class, the wait of a rule on several
  conditions, arguments of an effector, C effectors other than smfout, the limit of 31 (the test
  is there, the instances are smaller).  What pair_notes does to the order of the events is
  an abstract sort by time and the priority that pairing leaves; EventBuffer has the code's way.
* In Threads, delete_thread does not meet the error for a dictionary entry that is active
  (dict.c:294); Macros has it.  threads_fair has no undef, so that undef keeps to ThreadLife is shown by the
  theorem LifeImplements alone.
* In PostProcess the curve of a control is a straight line: the properties use its ends only.
* Doubles are exact in Rational and Expr, and printing is left out.
* Macros: tokens are any command; the condition of a loop is a choice, without effects, and
  the token of a loop stays on the stack while the loop goes on (`pushbk_token(NULL)` takes
  back the element that get_token has just freed, input.c:593); blocks are not nested; arguments,
  arrays and the `T_LOCALID` tokens are left out (so the array references that `do_break`
  drops without freeing, macro.c:1086, and `mp->macro` after undef, 162, are not seen).
* Expr: registers, pitches, shifts, macro commands within operands, the built-in functions.  The
  table of precedences and the handlers of the operators are the same in the evaluator
  and in the meaning it is compared with, so Evaluates is about grouping and skipping; and with
  braces it does not say what must be refused.
* Smf: the status bytes f1 to f6, for which `read_track` leaves the type of the event
  uninitialised (load.c:256).
* The scanner, `include`, predefined macros, options and messages: input and output
  without state that others rely on.
* m2p: a second program in one pass over a list of events, without concurrency or callbacks.  Its
  correctness is that of rounding to a grid of ticks.

## Plan

1. Proofs: CallsMatch and OneOwner of Macros, from `MacroInv` and who refers to each token list.
2. Arguments and `T_LOCALID` in Macros, with arrays whose elements are assigned while they grow.
3. The composition of Effectors with EventBuffer in place of its abstract sort.
4. m2p: the split by channel and kind, and the fit of lines.
