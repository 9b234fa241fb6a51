SPECIFICATION FairSpec
CONSTANTS
    Procs = {p1, a1}
    Acknowledgers = {a1}
    Duts = {d1}
    Ids = {i1}
    Readbacks = {r1, r2}
    Times = {t1}
    Faults = {"sync", "replace", "unlink"}
    None = None
PROPERTY LockEventuallyReleased
