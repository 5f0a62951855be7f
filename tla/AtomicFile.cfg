SPECIFICATION Spec
CONSTANTS
    Writers   = {w1, w2}
    Data      = {d1, d2}
    Torn      = Torn
    MaxWrites = 4
INVARIANTS
    NeverPartial
PROPERTIES
    ReturnedSurvives
    IsAtomic
