SPECIFICATION Spec
CONSTANTS
    Procs = {p1, p2, a1}
    Acknowledgers = {a1}
    Duts = {d1}
    Ids = {i1, i2, i3}
    Readbacks = {r1, r2}
    Times = {t1}
    Faults = {"open", "write", "sync", "replace", "unlink"}
    None = None
SYMMETRY Symmetry
INVARIANT TypeOK
INVARIANT LockNotLost
INVARIANT RetryCanComplete
PROPERTY UnlockOnlyByItsAck
PROPERTY StoreIsLock
