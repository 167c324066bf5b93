CONSTANTS
    Openers = {o1, o2}
    Last = 1
    Size <- Initial
    Commands = {}
    Faults = {"crash"}
SPECIFICATION Spec
SYMMETRY Symmetry
INVARIANTS FailsOnlyInARace
CHECK_DEADLOCK FALSE
