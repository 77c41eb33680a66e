SPECIFICATION Spec
CONSTANTS
    Width <- MCWidth
    Limit = 4
    MaxPrint = 5
CHECK_DEADLOCK FALSE
INVARIANTS
    DamageIsLocal
