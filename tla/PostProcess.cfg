(* post_process on tracks of notes, controls or signatures. *)
CONSTANTS
  a = a  c = c  d = d  none = none
  Note = {a}
  Ctrl = {c, d}
  Change = {d}
  DataEntry = {d}
  Tempo = {c}
  NoKey = none
  MaxTime = 3
  MaxCount = 255
  Step = 1
  Thres = 5
  Parts <- Small
  Requests <- AllRequests
SPECIFICATION Spec
INVARIANTS NotesHeld ControlsFollow LengthCovers SignatureKept
