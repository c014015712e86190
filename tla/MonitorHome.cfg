CONSTANTS
    Runs = {r1, r2, r3}
    Hooks = {p1, p2}
    Reset = Reset
    NoOne = NoOne
SPECIFICATION Spec
CHECK_DEADLOCK FALSE
SYMMETRY HomeSymmetry
INVARIANTS
    DaemonKeepsItsHome
    StrandedOnlyByCrash
    FreshLogStartsAtOne
