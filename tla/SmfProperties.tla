--------------------------- MODULE SmfProperties ---------------------------
(* What files and their loading must be.                                   *)
EXTENDS Smf

(* The bytes of a track, as the format has them.                           *)
TrackBytes(k) ==
  LET evs == script[k].events
      Status(i) == IF i = 0 \/ evs[i].type # MF_MIDI THEN 0 ELSE evs[i].data[1]
      Message(i) == IF Status(i) # 0 /\ Status(i) = Status(i-1) /\ w.runstat
                    THEN Tail(evs[i].data) ELSE evs[i].data
      Kind(i) == CASE evs[i].type = MF_SYSEX -> <<240>> [] evs[i].type = MF_ARBIT -> <<247>>
                   [] OTHER -> <<255, evs[i].type>>
      Written(i) == VarLen(evs[i].dtime) \o
                    IF evs[i].type = MF_MIDI THEN Message(i)
                    ELSE Kind(i) \o VarLen(Len(evs[i].data)) \o evs[i].data
  IN FlattenSeq([i \in DOMAIN evs |-> Written(i)]) \o VarLen(script[k].rest) \o <<255, MF_EOT, 0>>

(* A track as it must be loaded: its events at the sums of their delta     *)
(* times, its length that of the end of the track.                         *)
AsWritten(k) ==
  LET evs == script[k].events
      upto(n) == FoldLeft(LAMBDA t, e : t + e.dtime, 0, SubSeq(evs, 1, n))
  IN [events |-> [i \in DOMAIN evs |-> [time |-> upto(i), type |-> evs[i].type,
                                        data |-> Heard(evs[i].type, evs[i].data)]],
      length |-> upto(Len(evs)) + script[k].rest]
Loads(op) == IF op = LOAD THEN DOMAIN script ELSE {op}
Song(op) == [k \in 1..Cardinality(Loads(op)) |-> AsWritten(IF op = LOAD THEN k ELSE op)]
IsLoad == result.op = LOAD \/ result.op \in DOMAIN script

-----------------------------------------------------------------------------
(* The two ways to write a track give the same file: whether its size was  *)
(* patched afterwards or its bytes were gathered in blocks, a track that   *)
(* was ended is its size and the bytes of its events (the self test of     *)
(* smf.c compares the two files of one song).  A track that did not fit in *)
(* memory leaves its name only.                                            *)
SameEitherWay ==
  ~w.open /\ ~cut =>
    LET chunk(k) == MTrk \o IF k \in failed THEN <<>> ELSE Int32(Len(TrackBytes(k))) \o TrackBytes(k)
    IN SubSeq(file, 15, Len(file)) = FlattenSeq([k \in DOMAIN script |-> chunk(k)])

(* Every track is loaded with the events that were written and in time,    *)
(* tracks in any order and as often as wanted, under running status,       *)
(* behind data that look like a header, and after the file was closed or   *)
(* asked for its header.  So is the whole song, unless a track was loaded  *)
(* from the file that is still open.                                       *)
ReadBack ==
  IsLoad /\ ~cut /\ failed = {} /\ (result.op = LOAD => result.from = 0) =>
    result.status = "end" /\ result.tracks = Song(result.op)

(* What is loaded without an error is right, also from a file that was cut *)
(* off anywhere or that lacks a track.                                     *)
NoFalseEnd ==
  IsLoad /\ result.status = "end" => result.tracks = Song(result.op)

-----------------------------------------------------------------------------
(* What the manual says, and the code does not do.                         *)

(* "load reads all of the tracks of a MIDI file into the event buffer"     *)
(* (manual/eng/pmml.texi:7902).                                            *)
LoadsAllTracks ==
  result.op = LOAD /\ ~cut /\ failed = {} =>
    result.status = "end" /\ result.tracks = Song(LOAD)
=============================================================================
