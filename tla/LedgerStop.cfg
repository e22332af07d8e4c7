SPECIFICATION Spec
CONSTANTS
  Operations = {o1}
  Diagnoses = {d1}
  Inputs = {i1}
  FirstInput = i1
  Classes = {c1}
  Refs = {e1}
  FailureRefs = {f1}
  RetryLimit = 1
  MaxFailures = 4
  None = None
SYMMETRY Symmetry
INVARIANTS
  ActionStopHolds
