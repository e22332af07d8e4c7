SPECIFICATION FairSpec
CONSTANTS
  Procs = {p1, p2}
  Requests = {r1}
  Goals = {g1}
  Imported <- MCImported
  None = None
  Torn = Torn
PROPERTIES
  CallReturns
