SPECIFICATION Spec
CONSTANTS
  Procs = {p1, p2}
  Requests = {r1, r2}
  Goals = {g1, g2}
  Imported <- MCImported
  None = None
  Torn = Torn
SYMMETRY Symmetry
INVARIANTS
  TypeOK
  NoLostUpdate
  AckedRecorded
  NoTempLeft
PROPERTIES
  NeverOverwritten
  ImplementsAtomic
