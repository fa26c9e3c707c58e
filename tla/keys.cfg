CONSTANTS
  c1 = c1
  f1 = f1
  o1 = o1
  r1 = r1
  r2 = r2
  Creators <- OneCreator
  Forms <- OneForm
  Operators <- OneOperator
  Requests <- TwoRequests
  Limits <- TwoLimits
  MaxMinute = 2
  Expiry = 2
SYMMETRY Symmetry
CHECK_DEADLOCK FALSE
SPECIFICATION Spec
INVARIANTS
  AdmittedWithinLimit
  RefusedOnlyOverLimit
  NoAccessAfterRevocation
  UsesAreCounted
  ChangesAreAudited
