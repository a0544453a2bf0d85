CONSTANTS
  Visitors = {a1, a2}
  Cost = 2
  Burst = 4
  Idle = 4
  MaxNow = 7
  None = None
SPECIFICATION Spec
SYMMETRY VisitorSymmetry
INVARIANTS
  TypeOK
  NoMoreThanPaid
PROPERTIES
  IsATokenBucket
  PatientIsAllowed
