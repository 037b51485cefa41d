------------------------------- MODULE SmfOut -------------------------------
(***************************************************************************)
(* The smfout effector (comp/smfout.c): smfout_detach selects tracks, cuts *)
(* them with post_process, merges them for format 0 and supplies the       *)
(* tempo; smfout_action writes an event, starting and ending tracks of the *)
(* file as the events come; smfout_wrap ends the last ones.                *)
(*                                                                         *)
(* post_process is that of PostProcess, run for one track after another.   *)
(* The file is a sequence of track chunks, each a sequence of messages     *)
(* with their delta times; module Smf has its bytes.  A control number     *)
(* that the file cannot express (vmag, the velocity factor) is one of      *)
(* Vmag, with the values 0 and 1.                                          *)
(***************************************************************************)
EXTENDS PostProcess

CONSTANTS NTracks,     \* number of tracks
          Vmag,        \* the controller of the velocity factor
          Options,     \* the arguments of smfout
          Resolution   \* ticks of the file per two units of time

ASSUME TrackAssumption == NTracks \in Nat \ {0} /\ Resolution \in Nat \ {0}
ASSUME VmagAssumption == Vmag \subseteq Ctrl \ (Tempo \cup Change)
ASSUME TempoAssumption == Tempo # {}
ASSUME OptionAssumption ==
  /\ Options \subseteq [format : {-1, 0, 1, 2}, pack_tracks : BOOLEAN, no_retrigger : BOOLEAN,
                        all : BOOLEAN, range : BOOLEAN, begin : Int, end : Int,
                        detached : Int]
  /\ \A o \in Options : o.range => o.begin < o.end

VARIABLES
  trks,       \* MTracks.trks: [events, partners]; the partner of an event is a place
  ntrks,      \* MTracks.ntrks
  phase,      \* what smfout does
  tk,         \* the track it is at
  opt,        \* the arguments: format, pack_tracks, no_retrigger, req
  end_of_song,\* p->end_time
  prev_tk, prev_time,
  vmag,       \* the velocity factor
  mfp         \* the file: header and chunks

outVars == <<trks, ntrks, phase, tk, opt, end_of_song, prev_tk, prev_time, vmag, mfp>>
allVars == <<vars, outVars>>

Track(events, partners) == [events |-> events, partners |-> partners]
EmptyTrack == Track(<<>>, <<>>)
NoFile == [open |-> FALSE, ntracks |-> 0, chunks |-> <<>>]

ConvTime(t) == (t * Resolution) \div 2

(* Sorting a track; events are named by their new places.                  *)
Renumbered(events, p) ==
  LET s == sort_event(events)
      place(i) == IF i # 0 /\ \E j \in DOMAIN s : s[j].id = i
                  THEN CHOOSE j \in DOMAIN s : s[j].id = i ELSE 0
  IN Track([j \in DOMAIN s |-> [s[j] EXCEPT !.id = j]],
           [j \in DOMAIN s |-> IF s[j].id = 0 THEN 0 ELSE place(p[s[j].id])])

-----------------------------------------------------------------------------
(* The tracks of the program, and the number of events before a track.     *)
Offset(k) == Len(FlattenSeq([j \in 1..(k-1) |-> trks[j].events]))
gather ==
  /\ phase = "collect"
  /\ \E k \in tk..NTracks, part \in Parts, t \in 0..MaxTime : \E kind \in part.kinds :
       LET before == trks[k].events
           i == Len(before) + 1
           new == Event(i, kind.type, t, kind.key, kind.ctype, kind.val, FALSE)
           p == PartnerOf(Append(before, new), i)
           e == [new EXCEPT !.irregular = kind.type = "off" /\ (p = 0 \/ before[p].time = t)]
           all == Append(before, e)
       IN /\ Offset(NTracks + 1) < part.len
          /\ \A j \in 1..NTracks : \A m \in DOMAIN trks[j].events :
               Kind(trks[j].events[m]) \in part.kinds
          /\ before # <<>> => ~EV_LESS(e, Last(before))
          /\ trks' = [trks EXCEPT ![k] = Track(all, Paired(all))]
          /\ tk' = k
  /\ UNCHANGED <<vars, ntrks, phase, opt, end_of_song, prev_tk, prev_time, vmag, mfp>>

(* The number of tracks is that of the last track that was used.           *)
Used == {k \in 1..NTracks : trks[k].events # <<>>}

(* smfout_detach: the format, and the tracks outside track_range destroyed.*)
smfout_detach ==
  /\ phase = "collect" /\ Used # {}
  /\ \E o \in Options, selected \in SUBSET (1..NTracks) :
       LET n == Max(Used)
       IN /\ o.all => selected = 1..NTracks
          /\ opt' = [o EXCEPT !.format = IF @ # -1 THEN @ ELSE IF n > 1 THEN 1 ELSE 0]
          /\ ntrks' = n
          /\ trks' = [k \in 1..n |-> IF k \in selected THEN trks[k] ELSE EmptyTrack]
  /\ phase' = "post" /\ tk' = 0
  /\ stage' = "done"
  /\ UNCHANGED <<input, req, scanVars, max_time, end_of_song, prev_tk, prev_time, vmag, mfp>>

(* post_process passes over tracks without events.                         *)
Cutting ==
  [oprs |-> {"ExpandCtrl", "CutAfterEnd"}
            \cup (IF opt.no_retrigger THEN {} ELSE {"Retrigger"})
            \cup (IF opt.range THEN {"TimeRange"} ELSE {}),
   begin |-> IF opt.range THEN opt.begin ELSE 0, end |-> IF opt.range THEN opt.end ELSE r_max]
Again == [oprs |-> {"Retrigger"}, begin |-> 0, end |-> r_max]
Asked == IF phase = "post" THEN Cutting ELSE Again
Following == {k \in (tk+1)..ntrks : trks[k].events # <<>>}

(* The track just scanned is replaced by its result, which the re-sort     *)
(* after post_process puts in order.                                       *)
replaced ==
  IF tk = 0 THEN trks ELSE [trks EXCEPT ![tk] = Renumbered(tmp, partner)]

next_track ==
  /\ phase \in {"post", "again"} /\ stage = "done" /\ Following # {}
  /\ LET k == Min(Following)
     IN Begin(trks[k].events, trks[k].partners, Asked) /\ tk' = k
  /\ trks' = replaced
  /\ UNCHANGED <<max_time, ntrks, phase, opt, end_of_song, prev_tk, prev_time, vmag, mfp>>

scan ==
  /\ phase \in {"post", "again"}
  /\ Scan
  /\ UNCHANGED outVars

(* The length of the song: that of its events or the time of the detach,   *)
(* both measured from begin_time.                                          *)
end_post ==
  /\ phase = "post" /\ stage = "done" /\ Following = {}
  /\ trks' = replaced
  /\ LET len == max_time - Cutting.begin
         len2 == opt.detached - Cutting.begin
     IN end_of_song' = ConvTime(Max({0, len, len2}))
  /\ phase' = IF opt.format = 0 /\ ntrks > 1 THEN "merge" ELSE "supply"
  /\ tk' = 0
  /\ UNCHANGED <<vars, ntrks, opt, prev_tk, prev_time, vmag, mfp>>

(* merge_all_tracks.                                                       *)
merge_all_tracks ==
  /\ phase = "merge"
  /\ LET moved(k) == [i \in DOMAIN trks[k].events |->
                       [trks[k].events[i] EXCEPT !.id = i + Offset(k)]]
         far(k) == [i \in DOMAIN trks[k].events |->
                     IF trks[k].partners[i] = 0 THEN 0 ELSE trks[k].partners[i] + Offset(k)]
         list(F(_)) == FlattenSeq([k \in 1..ntrks |-> F(k)])
     IN trks' = <<Renumbered(list(moved), list(far))>>
  /\ ntrks' = 1 /\ tk' = 0
  /\ phase' = IF opt.no_retrigger THEN "supply" ELSE "again"
  /\ UNCHANGED <<vars, opt, end_of_song, prev_tk, prev_time, vmag, mfp>>

(* The notes of all the tracks sound on one: they are retriggered again.   *)
end_again ==
  /\ phase = "again" /\ stage = "done" /\ Following = {}
  /\ trks' = replaced
  /\ phase' = "supply"
  /\ UNCHANGED <<vars, ntrks, tk, opt, end_of_song, prev_tk, prev_time, vmag, mfp>>

(* supply_tempo_map: a tempo and a time signature at the beginning.        *)
Tempo120 == Event(0, "ctrl", 0, CHOOSE k \in Tempo : TRUE, "", 0, FALSE)
TimeSig44 == Event(0, "timesig", 0, NoKey, "", 0, FALSE)
IsTempo(e) == e.type = "ctrl" /\ e.key \in Tempo
IsTimeSig(e) == e.type = "timesig"
AtStart(s) == {s[i] : i \in {j \in DOMAIN s : s[j].time <= 0}}
Supplied(t) ==
  LET new == (IF \E e \in AtStart(t.events) : IsTimeSig(e) THEN <<>> ELSE <<TimeSig44>>)
             \o (IF \E e \in AtStart(t.events) : IsTempo(e) THEN <<>> ELSE <<Tempo120>>)
      n == Len(new)
  IN Track(new \o t.events,
           [i \in 1..(n + Len(t.events)) |->
             IF i <= n \/ t.partners[i-n] = 0 THEN 0 ELSE t.partners[i-n] + n])
NeedsTempo_any(k) == trks[k].events # <<>>
NeedsTempo(k) ==
  /\ opt.format < 2 => k = 1
  /\ opt.format = 2 /\ opt.pack_tracks => trks[k].events # <<>>

(* The header promises as many chunks as there will be.                    *)
HeaderTracks(ts) ==
  IF opt.pack_tracks THEN Cardinality({k \in 1..ntrks : ts[k].events # <<>>}) ELSE ntrks

open_file ==
  /\ phase = "supply"
  /\ IF \A k \in 1..ntrks : trks[k].events = <<>>
     THEN phase' = "no_genfile" /\ UNCHANGED <<trks, mfp>>
     ELSE /\ trks' = [k \in 1..ntrks |-> IF NeedsTempo(k) THEN Supplied(trks[k]) ELSE trks[k]]
          /\ mfp' = [open |-> FALSE, ntracks |-> HeaderTracks(trks'), chunks |-> <<>>]
          /\ phase' = "action"
  /\ tk' = 1 /\ pos' = 1
  /\ UNCHANGED <<stage, input, req, output, cur_time, term_time, nnotes, note_tbl, ctrl_tbl,
                 timesig, partner, tmp, max_time, ntrks, opt, end_of_song, prev_tk,
                 prev_time, vmag>>

-----------------------------------------------------------------------------
(* The calls of smf.c; a track that is begun must be ended before the next.*)
bgntrack(f) == [f EXCEPT !.open = TRUE, !.chunks = Append(@, [msgs |-> <<>>, rest |-> 0])]
putevent(f, dtime, e) ==
  [f EXCEPT !.chunks[Len(f.chunks)].msgs = Append(@, [dtime |-> dtime, ev |-> e])]
endtrack(f, dtime) ==
  IF f.open THEN [f EXCEPT !.open = FALSE, !.chunks[Len(f.chunks)].rest = dtime]
  ELSE [f EXCEPT !.chunks = Append(@, [msgs |-> <<>>, rest |-> -1])]

(* What the end-of-track event of a track and of an empty track wait.      *)
Rest_all(prev) == IF opt.format < 2 THEN end_of_song ELSE 0
Rest(prev) == IF opt.format < 2 THEN end_of_song - prev ELSE 0

(* Tracks that are ended as soon as they are begun.                         *)
EmptyTracks(f, n) ==
  [f EXCEPT !.chunks = @ \o [i \in 1..n |-> [msgs |-> <<>>, rest |-> Rest(0)]]]

(* Tracks are numbered from 0 as in the code.                              *)
Switched(track) ==
  LET ended == IF prev_tk # -1 THEN endtrack(mfp, Rest(prev_time)) ELSE mfp
  IN bgntrack(IF opt.pack_tracks THEN ended ELSE EmptyTracks(ended, track - 1 - prev_tk))

(* The messages the file can hold.                                         *)
Written(e, factor) ==
  \/ e.type = "ctrl" /\ e.key \notin Vmag
  \/ e.type \in {"meta", "text", "lyric", "timesig", "off", "reset", "rpn", "alloff"}
  \/ e.type = "on" /\ e.val * factor > 0

(* A note-on whose velocity becomes zero is dropped, and its partner with  *)
(* it (E_Deleted).                                                         *)
Dropped(e) ==
  IF e.type = "on" /\ trks[tk].partners[pos] # 0
  THEN [trks EXCEPT ![tk].events[trks[tk].partners[pos]].type = "deleted"]
  ELSE trks

smfout_action ==
  /\ phase = "action" /\ tk <= ntrks /\ pos <= Len(trks[tk].events)
  /\ LET e == trks[tk].events[pos]
         track == tk - 1
         switch == track # prev_tk
         f == IF switch THEN Switched(track) ELSE mfp
         prev == IF switch THEN 0 ELSE prev_time
         factor == IF switch THEN 1 ELSE vmag
         t == ConvTime(e.time)
         w == Written(e, factor)
     IN /\ mfp' = IF w THEN putevent(f, t - prev, e) ELSE f
        /\ prev_time' = IF w THEN t ELSE prev
        /\ prev_tk' = track
        /\ vmag' = IF e.type = "ctrl" /\ e.key \in Vmag THEN e.val ELSE factor
        /\ trks' = IF w THEN trks ELSE Dropped(e)
  /\ pos' = pos + 1
  /\ UNCHANGED <<stage, input, req, output, cur_time, term_time, nnotes, note_tbl, ctrl_tbl,
                 timesig, partner, tmp, max_time, ntrks, phase, tk, opt, end_of_song>>

(* The effector gets the events of one track after another.                *)
next_action ==
  /\ phase = "action" /\ tk <= ntrks /\ pos > Len(trks[tk].events)
  /\ tk' = tk + 1 /\ pos' = 1
  /\ UNCHANGED <<stage, input, req, output, cur_time, term_time, nnotes, note_tbl, ctrl_tbl,
                 timesig, partner, tmp, max_time, trks, ntrks, phase, opt, end_of_song,
                 prev_tk, prev_time, vmag, mfp>>

(* smfout_wrap: the tracks behind the last event are written empty.        *)
TrailingTracks(f, prev) ==
  EmptyTracks(endtrack(f, Rest(prev)), IF opt.pack_tracks THEN 0 ELSE ntrks - 1 - prev_tk)

smfout_wrap ==
  /\ phase = "action" /\ tk > ntrks
  /\ mfp' = TrailingTracks(mfp, prev_time)
  /\ prev_tk' = IF opt.pack_tracks THEN prev_tk ELSE ntrks - 1
  /\ prev_time' = IF ~opt.pack_tracks /\ prev_tk # ntrks - 1 THEN 0 ELSE prev_time
  /\ phase' = "closed"
  /\ UNCHANGED <<vars, trks, ntrks, tk, opt, end_of_song, vmag>>

closed == phase \in {"closed", "no_genfile"} /\ UNCHANGED allVars
failed == stage = "error" /\ UNCHANGED allVars

OutInit ==
  /\ Init
  /\ trks = [k \in 1..NTracks |-> EmptyTrack] /\ ntrks = 0
  /\ phase = "collect" /\ tk = 1
  /\ opt = [format |-> 0] /\ end_of_song = 0
  /\ prev_tk = -1 /\ prev_time = 0 /\ vmag = 1 /\ mfp = NoFile

OutNext ==
  \/ gather
  \/ smfout_detach
  \/ next_track
  \/ scan
  \/ end_post
  \/ merge_all_tracks
  \/ end_again
  \/ open_file
  \/ smfout_action
  \/ next_action
  \/ smfout_wrap
  \/ closed
  \/ failed

OutSpec == OutInit /\ [][OutNext]_allVars
=============================================================================
