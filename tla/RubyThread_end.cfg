SPECIFICATION Spec
CONSTANTS
    main_thread = main
    Thread = {main, t1, t2}
    Fd = {}
    Prio <- Equal
    Null = Null
    SelectClears = FALSE
    Calls = {"start", "exit", "error", "raise", "value", "limited_join", "critical", "join_in_critical", "abort_on_exception"}
SYMMETRY Symmetry
INVARIANTS RunningAwake
CHECK_DEADLOCK FALSE
