-------------------------------- MODULE Smf --------------------------------
(***************************************************************************)
(* Standard MIDI files (common/smf.c) and their loading (comp/load.c).     *)
(*                                                                         *)
(* A writer puts tracks of events into a file; when the file is a pipe,    *)
(* the bytes of a track are buffered, since its size comes first.  Then    *)
(* the commands load, loadtrk and close and the functions that look at the *)
(* header read it.  Files are sequences of bytes.  Time is in ticks.       *)
(***************************************************************************)
EXTENDS Integers, Sequences, FiniteSets, SequencesExt, FiniteSetsExt

CONSTANTS Events,      \* the events written: [dtime, type, data]
          MaxTracks, MaxEvents,  \* bounds: tracks, and events in all
          MaxCuts,     \* bound: files of this many events are also cut off
          SMF_BLKSIZE, \* 1000
          Memory,      \* how many blocks malloc may have left
          Rests,       \* delta times of the end of a track
          MAX_LOAD,    \* 16
          Name         \* file names, all of the same file

ASSUME BoundAssumption ==
  /\ MaxTracks \in Nat /\ MaxEvents \in Nat /\ MaxCuts \in Nat
  /\ SMF_BLKSIZE \in Nat \ {0} /\ MAX_LOAD \in Nat \ {0}
  /\ Memory \subseteq Nat /\ Rests \subseteq Nat

VARIABLES
  stage,     \* "write", "read" or "error"
  script,    \* what was written: tracks of events with the rest at the end
  failed,    \* the tracks whose smf_endtrack returned MF_ERROR
  w,         \* MFILE of the writer
  file,      \* the bytes
  cut,       \* whether the file was cut off
  slots,     \* ldslots: the open files, by name
  result     \* of the last command: [op, from (cur_track before), status, tracks]

vars == <<stage, script, failed, w, file, cut, slots, result>>

EOF == -1
MF_MIDI == 256
MF_SYSEX == 257
MF_ARBIT == 258
MF_SEQNO == 0
MF_EOT == 47
MF_TEMPO == 81
NOVELOC == -1
LOAD == 0      \* op of load; that of loadtrk is the track
NOLOAD == -1
MThd == <<77, 84, 104, 100>>
MTrk == <<77, 84, 114, 107>>

-----------------------------------------------------------------------------
(* Numbers.                                                                *)
Int16(n) == <<(n \div 256) % 256, n % 256>>
Int32(n) == <<(n \div 16777216) % 256, (n \div 65536) % 256>> \o Int16(n)

(* smf_putvarlen: seven bits a byte, the highest first, all but the last   *)
(* marked.                                                                 *)
VarLen_one(v) == <<v % 128>>
VarLen(v) ==
  LET high[n \in 0..v] == IF n = 0 THEN <<>> ELSE high[n \div 128] \o <<128 + (n % 128)>>
  IN high[v \div 128] \o <<v % 128>>

midi_size(st) ==
  CASE st \div 16 \in {8, 9, 10, 11, 14} \/ st = 242 -> 3
    [] st \div 16 \in {12, 13} \/ st \in {241, 243} -> 2
    [] OTHER -> 1

-----------------------------------------------------------------------------
(* Writing.  putc in its three kinds: direct_putc, buffer_putc (a block    *)
(* more when the last is full) and error_putc.                             *)
Header(ntrks) == MThd \o Int32(6) \o Int16(1) \o Int16(ntrks) \o Int16(480)

Full(blocks) == blocks = <<>> \/ Len(Last(blocks)) = SMF_BLKSIZE
Out == [w |-> w, file |-> file]

buffer_putc(o, c) ==
  IF ~Full(o.w.blocks)
  THEN [o EXCEPT !.w.blocks[Len(o.w.blocks)] = Append(@, c), !.w.loc = @ + 1]
  ELSE IF o.w.memory = 0 THEN [o EXCEPT !.w.fn_putc = "error"]
  ELSE [o EXCEPT !.w.blocks = Append(@, <<c>>), !.w.memory = @ - 1, !.w.loc = @ + 1]

putc(o, c) ==
  CASE o.w.fn_putc = "direct" -> [o EXCEPT !.file = Append(@, c)]
    [] o.w.fn_putc = "buffer" -> buffer_putc(o, c)
    [] OTHER -> o
Put(o, bytes) == FoldLeft(putc, o, bytes)

(* A track: its size is patched later, or the buffer is begun.             *)
smf_bgntrack ==
  /\ stage = "write" /\ ~w.open /\ Len(script) < MaxTracks
  /\ script' = Append(script, [events |-> <<>>, rest |-> 0])
  /\ file' = file \o MTrk \o (IF w.seekok THEN Int32(0) ELSE <<>>)
  /\ w' = [w EXCEPT !.open = TRUE, !.run_st = 0,
                    !.loc = IF w.seekok THEN Len(file) ELSE 0,
                    !.fn_putc = IF w.seekok THEN @ ELSE "buffer",
                    !.blocks = IF w.seekok THEN @ ELSE <<>>]
  /\ UNCHANGED <<stage, failed, cut, slots, result>>

(* The status of a MIDI message is left out if it is that of the one       *)
(* before; other events make it unknown.                                   *)
RunningStatus_kept(e) == IF e.type = MF_MIDI THEN e.data[1] ELSE w.run_st
RunningStatus(e) == IF e.type = MF_MIDI THEN e.data[1] ELSE 0

Body(e) ==
  CASE e.type = MF_MIDI -> IF e.data[1] = w.run_st /\ w.run_st < 240 /\ w.runstat THEN Tail(e.data) ELSE e.data
    [] e.type = MF_SYSEX -> <<240>> \o VarLen(Len(e.data)) \o e.data
    [] e.type = MF_ARBIT -> <<247>> \o VarLen(Len(e.data)) \o e.data
    [] OTHER -> <<255, e.type>> \o VarLen(Len(e.data)) \o e.data

Size == FoldSet(LAMBDA k, n : n + Len(script[k].events), 0, DOMAIN script)
smf_putevent ==
  /\ stage = "write" /\ w.open /\ Size < MaxEvents
  /\ \E e \in Events :
       LET o == Put(Out, VarLen(e.dtime) \o Body(e))
       IN /\ script' = [script EXCEPT ![Len(script)].events = Append(@, e)]
          /\ file' = o.file
          /\ w' = [o.w EXCEPT !.run_st = RunningStatus(e)]
  /\ UNCHANGED <<stage, failed, cut, slots, result>>

(* The size is written back; or, with the buffer that has been gathered,   *)
(* in front of it.  A track that did not fit in memory is an error, and    *)
(* nothing but its first four bytes is in the file.                        *)
BackPatched(f, loc) ==
  SubSeq(f, 1, loc + 4) \o Int32(Len(f) - loc - 8) \o SubSeq(f, loc + 9, Len(f))

smf_endtrack ==
  /\ stage = "write" /\ w.open
  /\ \E dtime \in Rests :
       LET o == Put(Out, VarLen(dtime) \o <<255, MF_EOT, 0>>)
       IN /\ script' = [script EXCEPT ![Len(script)].rest = dtime]
          /\ IF w.seekok
             THEN /\ file' = BackPatched(o.file, o.w.loc)
                  /\ w' = [o.w EXCEPT !.open = FALSE] /\ UNCHANGED failed
             ELSE IF o.w.fn_putc = "error"
             THEN /\ failed' = failed \cup {Len(script)}
                  /\ w' = [o.w EXCEPT !.open = FALSE] /\ UNCHANGED file
             ELSE /\ file' = file \o Int32(o.w.loc) \o FlattenSeq(o.w.blocks)
                  /\ w' = [o.w EXCEPT !.open = FALSE, !.fn_putc = "direct", !.blocks = <<>>,
                                      !.memory = @ + Len(o.w.blocks)]
                  /\ UNCHANGED failed
  /\ UNCHANGED <<stage, cut, slots, result>>

(* Options of the writer: smf_runstat.                                     *)
smf_runstat ==
  /\ stage = "write" /\ script = <<>> /\ w.runstat
  /\ w' = [w EXCEPT !.runstat = FALSE]
  /\ UNCHANGED <<stage, script, failed, file, cut, slots, result>>

(* smf_close; the header counted the tracks.                               *)
smf_close ==
  /\ stage = "write" /\ ~w.open /\ script # <<>>
  /\ stage' = "read"
  /\ file' = Header(Len(script)) \o SubSeq(file, Len(Header(0)) + 1, Len(file))
  /\ UNCHANGED <<script, failed, w, cut, slots, result>>

(* The disk was full, or the writer was stopped.                           *)
crash ==
  /\ stage = "read" /\ ~cut /\ Size <= MaxCuts /\ slots = <<>> /\ result.op = NOLOAD
  /\ \E n \in 14..(Len(file) - 1) : file' = SubSeq(file, 1, n)
  /\ cut' = TRUE
  /\ UNCHANGED <<stage, script, failed, w, slots, result>>

-----------------------------------------------------------------------------
(* Reading.  A reader is [pos, run_st, cur_track, loc]; EOF is read behind *)
(* the end.                                                                *)
getc(p) == IF p <= Len(file) THEN file[p] ELSE EOF

(* read_mthd and read_mtrk skip garbage until the four bytes were found;   *)
(* the place behind them, or 0.                                            *)
Find(word, from) ==
  LET scan[p \in from..(Len(file)+1), s \in 0..3] ==
        CASE getc(p) = EOF -> 0
          [] getc(p) = word[s+1] -> IF s = 3 THEN p + 1 ELSE scan[p+1, s+1]
          [] getc(p) # word[s+1] /\ getc(p) = word[1] -> scan[p+1, 1]
          [] OTHER -> scan[p+1, 0]
  IN IF from > Len(file) + 1 THEN 0 ELSE scan[from, 0]

Signed(b) == IF b >= 128 THEN b - 256 ELSE b
getint32(p) ==
  LET byte(i) == (getc(p+i) % 256)
  IN ((Signed(getc(p)) * 256 + byte(1)) * 256 + byte(2)) * 256 + byte(3)
getint16(p) == Signed(getc(p)) * 256 + (getc(p+1) % 256)

(* smf_getvarlen: zero at the end of the file.                             *)
getvarlen(p) ==
  LET more[q \in p..(Len(file)+1), v \in Nat] ==
        CASE getc(q) = EOF -> [value |-> 0, pos |-> q]
          [] getc(q) >= 128 -> more[q+1, v * 128 + (getc(q) % 128)]
          [] OTHER -> [value |-> v * 128 + getc(q), pos |-> q + 1]
  IN IF p > Len(file) THEN [value |-> 0, pos |-> p] ELSE more[p, 0]

(* smf_ropen: NULL if there is no header, or a bad one.                    *)
smf_ropen ==
  LET p == Find(MThd, 1)
      size == getint32(p)
      loc == p + 10 + (IF size > 6 THEN size - 6 ELSE 0)
  IN IF p = 0 \/ size < 6 \/ getint16(p+4) \notin 0..2 \/ getint16(p+6) < 0
        \/ getint16(p+8) <= 0
     THEN [ntrk |-> 0]
     ELSE [ntrk |-> getint16(p+6), pos |-> loc, loc |-> loc, cur_track |-> 0, run_st |-> 0]

Failing(r) == r.pos = 0
NULLReader == [pos |-> 0, size |-> -1]

smf_nexttrack(r) ==
  LET p == Find(MTrk, r.pos)
  IN IF p = 0 \/ getint32(p) < 0 THEN NULLReader
     ELSE [r EXCEPT !.pos = p + 4, !.run_st = 0, !.cur_track = @ + 1]

(* smf_gototrack rewinds if the track lies behind, and skips the contents  *)
(* of the tracks before it by their sizes.                                 *)
Rewound_never(r, track) == [r EXCEPT !.cur_track = IF track <= @ THEN 0 ELSE @]
Rewound(r, track) ==
  IF track <= r.cur_track THEN [r EXCEPT !.pos = r.loc, !.cur_track = 0] ELSE r
smf_gototrack(r, track) ==
  LET at == Rewound(r, track)
      goto[n \in at.cur_track..track] ==
        IF n = at.cur_track THEN at
        ELSE LET before == goto[n-1]
                 skipped == IF n = at.cur_track + 1 THEN before
                            ELSE [before EXCEPT !.pos = @ + getint32(@ - 4)]
             IN IF Failing(before) \/ skipped.pos > Len(file) + 1 THEN NULLReader
                ELSE smf_nexttrack(skipped)
  IN goto[track]

(* smf_getevent with maxlen 0: data are left to the caller.                *)
Bad == [status |-> "error", event |-> [dtime |-> 0, type |-> MF_EOT, data |-> <<>>], pos |-> 0,
        run_st |-> 0]
Got(d, type, data, pos, run_st) ==
  [status |-> "ok", event |-> [dtime |-> d, type |-> type, data |-> data], pos |-> pos,
   run_st |-> run_st]
Bytes(p, n) == [i \in 1..n |-> getc(p + i - 1) % 256]

(* Exclusive, arbitrary and meta events; d is the delta time.              *)
Impossible(type, len) ==
  \/ type = EOF
  \/ (type = MF_SEQNO /\ len < 2)
  \/ (type = MF_TEMPO /\ len < 3)
DataEvent(d, type, len, run_st) ==
  IF Impossible(type, len.value) THEN Bad
  ELSE Got(d.value, type, Bytes(len.pos, len.value), len.pos + len.value, run_st)

(* MIDI messages, with their status or under the running status.           *)
StatusEvent(d, st, run_st) ==
  Got(d.value, MF_MIDI, Bytes(d.pos, midi_size(st)), d.pos + midi_size(st),
      IF st < 240 THEN st ELSE run_st)
RunningEvent(d, run_st) ==
  IF run_st = 0 THEN Bad
  ELSE Got(d.value, MF_MIDI, <<run_st>> \o Bytes(d.pos, midi_size(run_st) - 1),
           d.pos + midi_size(run_st) - 1, run_st)

Event(d, c, run_st) ==
  CASE c = EOF -> Bad
    [] c = 240 -> DataEvent(d, MF_SYSEX, getvarlen(d.pos + 1), run_st)
    [] c = 247 -> DataEvent(d, MF_ARBIT, getvarlen(d.pos + 1), run_st)
    [] c = 255 -> DataEvent(d, getc(d.pos + 1), getvarlen(d.pos + 2), run_st)
    [] c >= 128 /\ c \notin {240, 247, 255} -> StatusEvent(d, c, run_st)
    [] OTHER -> RunningEvent(d, run_st)
smf_getevent(p, run_st) ==
  LET d == getvarlen(p) IN Event(d, getc(d.pos), run_st)

-----------------------------------------------------------------------------
(* Loading.  read_track outputs the events up to the end of the track, each *)
(* at its time: a note-on without velocity is a note-off, programs count    *)
(* from one, and meta events that cannot be are left out.                   *)
Heard(type, data) ==
  CASE type # MF_MIDI -> data
    [] data[1] \div 16 = 9 /\ data[3] = 0 -> <<data[1] - 16, data[2], NOVELOC>>
    [] data[1] \div 16 = 12 -> <<data[1], data[2] + 1>>
    [] OTHER -> data
Loadable(type) == type \notin 128..255 \cup {MF_EOT}

(* t is what has been read of the track, g the next event.                 *)
OneMore(t, g, atime) ==
  IF g.status = "error" THEN [t EXCEPT !.status = "error"]
  ELSE [status |-> IF g.event.type = MF_EOT THEN "end" ELSE "ok",
        pos |-> g.pos, run_st |-> g.run_st, length |-> atime,
        events |-> IF ~Loadable(g.event.type) THEN t.events
                   ELSE Append(t.events, [time |-> atime, type |-> g.event.type,
                                          data |-> Heard(g.event.type, g.event.data)])]
read_event(t, g) == OneMore(t, g, t.length + g.event.dtime)

read_track(r) ==
  LET run[n \in 0..Len(file)] ==
        IF n = 0 THEN [status |-> "ok", pos |-> r.pos, run_st |-> r.run_st, length |-> 0,
                       events |-> <<>>]
        ELSE LET t == run[n-1]
             IN IF t.status = "ok" THEN read_event(t, smf_getevent(t.pos, t.run_st)) ELSE t
  IN run[Len(file)]
Track(t) == [events |-> t.events, length |-> t.length]

(* open_midi_file: the slot of the file, or a new one.                     *)
IsOpen(name) == \E s \in ToSet(slots) : s.name = name
SlotOf(name) == (CHOOSE s \in ToSet(slots) : s.name = name).r
Opened(name) == IF IsOpen(name) THEN SlotOf(name) ELSE smf_ropen
CanOpen(name) == IsOpen(name) \/ (Len(slots) < MAX_LOAD /\ smf_ropen.ntrk # 0)
Without(name) == SelectSeq(slots, LAMBDA s : s.name # name)
With(name, r) == Append(Without(name), [name |-> name, r |-> r])

(* An error ends the program.                                              *)
Fails(op, from) ==
  /\ stage' = "error"
  /\ result' = [op |-> op, from |-> from, status |-> "error", tracks |-> <<>>]
  /\ UNCHANGED slots
Returns(op, from, tracks) ==
  /\ result' = [op |-> op, from |-> from, status |-> "end", tracks |-> tracks]
  /\ UNCHANGED stage
CannotOpen(name) ==
  /\ stage = "read" /\ ~CanOpen(name)
  /\ Fails(NOLOAD, 0)
  /\ UNCHANGED <<script, failed, w, file, cut>>

(* load reads the tracks one after another and closes the file.            *)
Behind(r, t) == [r EXCEPT !.pos = t.pos, !.run_st = t.run_st]
WithTrack(song, r, t) ==
  [r |-> Behind(r, t), ok |-> t.status = "end", tracks |-> Append(song.tracks, Track(t))]
NextTrack(song, r) ==
  IF Failing(r) THEN [song EXCEPT !.ok = FALSE] ELSE WithTrack(song, r, read_track(r))
read_tracks(first) ==
  LET read[n \in 0..first.ntrk] ==
        IF n = 0 THEN [r |-> first, ok |-> TRUE, tracks |-> <<>>]
        ELSE LET song == read[n-1]
             IN NextTrack(song, IF song.ok THEN smf_nexttrack(song.r) ELSE NULLReader)
  IN read[first.ntrk]

Loaded(name, from, song) ==
  IF ~song.ok THEN Fails(LOAD, from)
  ELSE Returns(LOAD, from, song.tracks) /\ slots' = Without(name)
load_midi_file(name) ==
  /\ stage = "read" /\ CanOpen(name)
  /\ LET first == Opened(name) IN Loaded(name, first.cur_track, read_tracks(first))
  /\ UNCHANGED <<script, failed, w, file, cut>>

(* loadtrk leaves the file open behind the track.                          *)
TrackLoaded(name, track, from, r, t) ==
  IF t.status # "end" THEN Fails(track, from)
  ELSE Returns(track, from, <<Track(t)>>) /\ slots' = With(name, Behind(r, t))
FoundTrack(name, track, from, r) ==
  IF Failing(r) THEN Fails(track, from)
  ELSE TrackLoaded(name, track, from, r, read_track(r))
load_single_track(name, track) ==
  /\ stage = "read" /\ CanOpen(name)
  /\ LET first == Opened(name)
     IN IF track > first.ntrk THEN Fails(track, first.cur_track)
        ELSE FoundTrack(name, track, first.cur_track, smf_gototrack(first, track))
  /\ UNCHANGED <<script, failed, w, file, cut>>

(* ntrk, format and resolution open the file only.                         *)
get_ntrk(name) ==
  /\ stage = "read" /\ CanOpen(name)
  /\ Returns(NOLOAD, 0, <<>>) /\ slots' = With(name, Opened(name))
  /\ UNCHANGED <<script, failed, w, file, cut>>

close_midi_file(name) ==
  /\ stage = "read" /\ IsOpen(name)
  /\ Returns(NOLOAD, 0, <<>>)
  /\ slots' = Without(name)
  /\ UNCHANGED <<script, failed, w, file, cut>>

stopped == stage = "error" /\ UNCHANGED vars

Init ==
  /\ stage = "write" /\ script = <<>> /\ failed = {} /\ cut = FALSE
  /\ \E seekok \in BOOLEAN : \E memory \in (IF seekok THEN {0} ELSE Memory) :
       w = [open |-> FALSE, run_st |-> 0, loc |-> 0, seekok |-> seekok, runstat |-> TRUE,
            fn_putc |-> "direct", blocks |-> <<>>, memory |-> memory]
  /\ file = Header(0)
  /\ slots = <<>> /\ result = [op |-> NOLOAD, from |-> 0, status |-> "end", tracks |-> <<>>]

Next ==
  \/ smf_bgntrack
  \/ smf_putevent
  \/ smf_endtrack
  \/ smf_runstat
  \/ smf_close
  \/ crash
  \/ \E name \in Name : \/ load_midi_file(name)
                        \/ CannotOpen(name)
                        \/ get_ntrk(name)
                        \/ close_midi_file(name)
                        \/ \E track \in 1..MaxTracks : load_single_track(name, track)
  \/ stopped

Spec == Init /\ [][Next]_vars
=============================================================================
