SPECIFICATION Spec
CONSTANTS
  Operations = {o1}
  Diagnoses = {}
  Inputs = {i1, i2}
  FirstInput = i1
  Classes = {c1}
  Refs = {e1, e2}
  FailureRefs = {e1, e2}
  RetryLimit = 1
  MaxFailures = 4
  None = None
SYMMETRY Symmetry
PROPERTIES
  CorrectionIsNew
