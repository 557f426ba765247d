CONSTANTS
    Bufs = {b1, b2}
    Msgs = {m1, m2}
    Slots = {s1, s2}
    Fds = {f1, f2}
    Ids = {1}
    Vals = {0, 1}
    NULL = NULL
    MaxFdCount = 1
    AllocStep = 2
    MaxReuse = 2
    MaxArgs = 1
SYMMETRY Interchangeable
SPECIFICATION Spec
INVARIANTS
    RefsMatch
    FdsOwned
    HolderUndisturbed
    FinishedIsSound
