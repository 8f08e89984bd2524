SPECIFICATION FairSpec
CONSTANTS
    i1 = i1
    i2 = i2
    i3 = i3
    k1 = k1
    k2 = k2
    Item = {i1, i2, i3}
    Key = {k1, k2}
    KeyOf <- TwoKeys
    Drainer = {d1}
    Closer = {c1}
CHECK_DEADLOCK FALSE
INVARIANTS TypeOK SerialInOrder NoLostWakeup DrainWaits CloseFinishesAll
PROPERTIES AdmittedAreHandled CloseReturns
