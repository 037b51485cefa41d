(* From the events of two tracks to the file. *)
CONSTANTS
  a = a  tempo = tempo  v = v  none = none
  Note = {a}
  Ctrl = {tempo, v}
  Change = {}
  DataEntry = {}
  Tempo = {tempo}
  Vmag = {v}
  NoKey = none
  MaxTime = 2
  MaxCount = 255
  Step = 1
  Thres = 0
  NTracks = 2
  Resolution = 1
  Parts <- Some
  Requests <- NoRequests
  Options <- Several
SPECIFICATION OutSpec
INVARIANTS ChunksEnd NotesEnd TempoFromStart
