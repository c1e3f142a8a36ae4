SPECIFICATION Spec
CONSTANTS
  Sessions = {s1, s2}
  Loads = {l1, l2}
  SerialLoads = {l2}
  NoLoad = NoLoad
  MaxKg = 2
  MaxWeighments = 2
SYMMETRY Symmetry
INVARIANTS
  TypeOK
  ReceivedOnce
  LotWasWeighedAndGraded
  SomeFinalWeighment
PROPERTY
  ImplementsAtomic
CHECK_DEADLOCK FALSE
