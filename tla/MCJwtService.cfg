SPECIFICATION Spec
CONSTANTS
  j1 = j1
  j2 = j2
  j3 = j3
  NoJti = NoJti
  r1 = r1
  r2 = r2
  Jti = {j1, j2, j3}
  Request = {r1, r2}
  Lifetimes = {0, 1}
  MaxTime = 1
  Preissued = {j1}
SYMMETRY Interchangeable
INVARIANTS
  TypeOK
  SupersedeAtomic
  ChainRooted
  IssuedIsAudited
  CreditedOnce
  AnswersSound
PROPERTY ImplementsLedger
