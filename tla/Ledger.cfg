SPECIFICATION Spec
CONSTANTS
  Operations = {o1, o2}
  Diagnoses = {d1}
  Inputs = {i1, i2}
  FirstInput = i1
  Classes = {c1, c2}
  Refs = {e1, e2}
  FailureRefs = {f1}
  RetryLimit = 1
  MaxFailures = 4
  None = None
SYMMETRY Symmetry
INVARIANTS
  TypeOK
  FailuresCounted
  EvidenceSpentOnce
  RepeatsBounded
PROPERTIES
  LegacyKept
  ActiveBounded
