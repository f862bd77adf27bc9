SPECIFICATION Spec
CONSTANT Statuses = {{}, {"C"}}
INVARIANTS
  AddIsExact
  SubIsExact
  CmpIsSubtraction
  ShiftsKeepEveryBit
