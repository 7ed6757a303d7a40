SPECIFICATION FairSpec
CONSTANTS
    Writers = {w1, w2}
    Readers = {r1, r2}
    Subjects = {s}
    History = 2
    Bound = 3
INVARIANTS Bounded NothingSkipped HandledOnce
PROPERTY Delivered
