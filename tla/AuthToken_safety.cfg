\* A lifetime of five units, a clock that may be off by one, mints of up to a unit.
CONSTANTS
    Senders = {t1, t2}
    Lifetime = 5
    Valid = 8
    Fetch = 1
    Hold = 1
    MaxSkew = 1
    NoOne = NoOne
    MaxTime = 13
SPECIFICATION Spec
INVARIANTS TypeOK TokensAreFresh
PROPERTIES MintsAreApart
SYMMETRY Symmetry
