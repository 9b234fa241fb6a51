SPECIFICATION Spec
CONSTANTS
    Procs = {p1, a1, a2}
    Acknowledgers = {a1, a2}
    Duts = {d1}
    Ids = {i1, i2}
    Readbacks = {r1}
    Times = {t1}
    Faults = {}
    None = None
INVARIANT LockNotLost
