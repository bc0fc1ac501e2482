\* Two campaigns that call get_or_create again and again and can be killed.
CONSTANTS
  Procs = {p1, p2}
  Chunks = 2
  Absent = Absent
  Torn = Torn
  p1 = p1
  p2 = p2
SPECIFICATION Spec
SYMMETRY Symmetry
INVARIANTS SizeTellsAll ArtifactSound RepairUnderWay
PROPERTIES EntryKept
