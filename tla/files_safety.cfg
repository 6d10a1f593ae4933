SPECIFICATION Spec
CONSTANTS
  p1 = p1
  p2 = p2
  none = none
  some = some
  Procs <- TwoProcs
  Lists <- TwoLists
  EmptyList = none
  Layouts = {"fresh", "split", "combined"}
  MaxSaves = 4
  Absent = Absent
  NoFields = NoFields
  Torn = Torn
  Nothing = Nothing
  Nobody = Nobody
SYMMETRY Alike
INVARIANTS TypeOK Recoverable SavedStays
PROPERTIES OneWriter
