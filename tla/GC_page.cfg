SPECIFICATION Spec
CONSTANTS
    Cell = {1, 2, 3}
    Page = {p0, p1}
    Cells <- TwoPages
    heap0 = p0
    MARK_STACK_MAX = 1
    GC_LEVEL_MAX = 0
    FREE_MIN = 1
    MaxNesting = 2
    MaxRefs = 2
    MaxFinalRefs = 1
    Nil = Nil
INVARIANTS FreelistInHeap
CHECK_DEADLOCK FALSE
