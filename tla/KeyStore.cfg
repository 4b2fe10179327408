SPECIFICATION KeySpec
CONSTANTS
    i1 = i1
    i2 = i2
    r1 = r1
    r2 = r2
    r3 = r3
    Instances = {i1, i2}
    Readers = {r1, r2, r3}
    Home <- MCHome
    AdminInstance = i1
    L1TTL = 1
    L2TTL = 2
    MaxDelay = 1
    LastSecond = 5
INVARIANTS
    RevocationTakesEffect
    CleanRevocationIsFinal
CHECK_DEADLOCK FALSE
