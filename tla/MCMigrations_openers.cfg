CONSTANTS
    Openers = {o1, o2, o3, o4}
    Last = 2
    Size <- Two
    Commands = {o4}
    Faults = {"crash", "lock"}
SPECIFICATION FairSpec
INVARIANTS SchemaComplete RecordsOnce MInv RaisesBehindAnother
PROPERTIES ImplementsUpgrade SomeoneOpens
CHECK_DEADLOCK FALSE
