SPECIFICATION Spec
CONSTANTS
    k1 = k1
    k2 = k2
    Keys = {k1, k2}
    Threads = {t1, t2}
    Main = Main
    Workers = {w1, w2}
    MaxBatches = 1
    NoState = NoState
    NoJob = NoJob
    Shapes <- MCShapes
SYMMETRY Symmetry
INVARIANTS
    AnswerIsExact
    DroppedStaysDropped
PROPERTIES
    ImplementsGroups
CHECK_DEADLOCK FALSE
