--------------------------- MODULE OutProperties ---------------------------
(* What the SMF file of smfout must be.                                    *)
EXTENDS SmfOut

Chunks == mfp.chunks
Sum(s) == LET sum[i \in 0..Len(s)] == IF i = 0 THEN 0 ELSE sum[i-1] + s[i]
          IN sum[Len(s)]
Total(chunk) == Sum([i \in DOMAIN chunk.msgs |-> chunk.msgs[i].dtime]) + chunk.rest

-----------------------------------------------------------------------------
(* The header counts the chunks that follow, whichever tracks are empty,   *)
(* unselected or packed; time goes forwards in each (of a negative delta   *)
(* time only the low 7 bits would be written), each is ended, and all      *)
(* chunks of a song end together.                                          *)
ChunksEnd ==
  phase = "closed" =>
    /\ Len(Chunks) = mfp.ntracks /\ ~mfp.open
    /\ \A i \in DOMAIN Chunks :
         /\ Chunks[i].rest >= 0
         /\ \A j \in DOMAIN Chunks[i].msgs : Chunks[i].msgs[j].dtime >= 0
         /\ opt.format < 2 => Total(Chunks[i]) = end_of_song

(* No note hangs: with retriggering each note-on of a key is ended by a    *)
(* note-off before the next, also where tracks were merged and where notes *)
(* without velocity were dropped.                                          *)
NotesEnd ==
  phase = "closed" /\ ~opt.no_retrigger => \A i \in DOMAIN Chunks, k \in Note :
    LET s == SelectSeq(Chunks[i].msgs,
                       LAMBDA m : m.ev.type \in {"on", "off"} /\ m.ev.key = k)
    IN \A j \in DOMAIN s : s[j].ev.type = "on" => j < Len(s) /\ s[j+1].ev.type = "off"

(* The tempo and the time signature are known from the start of the song;  *)
(* of format 2, of each track.                                             *)
TempoFromStart ==
  phase = "closed" => \A i \in DOMAIN Chunks : opt.format = 2 \/ i = 1 =>
    LET upto(j) == Sum([m \in 1..j |-> Chunks[i].msgs[m].dtime])
    IN /\ \E j \in DOMAIN Chunks[i].msgs : upto(j) = 0 /\ IsTempo(Chunks[i].msgs[j].ev)
       /\ \E j \in DOMAIN Chunks[i].msgs : upto(j) = 0 /\ IsTimeSig(Chunks[i].msgs[j].ev)
-----------------------------------------------------------------------------
(* What a comment says, and the code does not do.                          *)

(* "delete the note event" (smfout_action) of a note without velocity: its *)
(* note-off, the partner, is not written either.                           *)
NoteDeleted ==
  phase = "closed" /\ ~opt.no_retrigger => \A i \in DOMAIN Chunks, k \in Note :
    LET s == SelectSeq(Chunks[i].msgs,
                       LAMBDA m : m.ev.type \in {"on", "off"} /\ m.ev.key = k)
    IN \A j \in DOMAIN s : s[j].ev.type = "off" => j > 1 /\ s[j-1].ev.type = "on"
=============================================================================
