SPECIFICATION Spec
CONSTANTS
  Requests = {r1, r2}
  KeyPrefixes = {"p1", "p2", "p3", "p4"}
  Names = {"n1", "n2", "n3"}
  ScopeLists = {{"fetch"}, {"admin", "keys"}}
  Overlap = 1
  MaxTime = 1
  MaxRequests = 3
  MaxRows = 4
SYMMETRY RequestSymmetry
CHECK_DEADLOCK FALSE
INVARIANTS
  LookupsFindOneRow
  ScopesAreGranted
  RotationsAreSound
PROPERTY RevokedIsFinal
