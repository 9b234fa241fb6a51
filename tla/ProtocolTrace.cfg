SPECIFICATION Spec
CONSTANTS
    Capacities = {1, 2, 3}
    MaxSequence = 5
    Batches = {1, 2}
INVARIANT CompleteIsWhole
INVARIANT RepliesAccepted
PROPERTY RingIsQueue
