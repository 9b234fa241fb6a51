SPECIFICATION Spec
CONSTANTS
    Procs = {a1, a2}
    Acknowledgers = {a1, a2}
    Duts = {d1, d2}
    Ids = {i1, i2}
    Readbacks = {r1, r2}
    Times = {t1}
    Faults = {"replace", "unlink"}
    None = None
SYMMETRY Symmetry
INVARIANT AckArchived
PROPERTY ArchiveWriteOnce
