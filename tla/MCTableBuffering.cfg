\* A query of two batches on two threads next to a query of one batch.
SPECIFICATION Spec
CONSTANTS
    q1 = q1
    q2 = q2
    t1 = t1
    t2 = t2
    t3 = t3
    Queries = {q1, q2}
    Threads <- MCThreads
    Pooled = {t2}
    Main = Main
    Inputs <- MCInputs
    Sources = 2
    Kinds <- MCKinds
INVARIANTS
    OutputExact
    OnlyDeadRefused
    DeadStaysEmpty
CHECK_DEADLOCK FALSE
