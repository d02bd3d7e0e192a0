SPECIFICATION Spec
CONSTANTS
    main_thread = main
    Thread = {main, t1, t2}
    Fd = {}
    Prio <- Equal
    Null = Null
    SelectClears = FALSE
    Calls = {"start", "stop", "wakeup", "kill", "critical", "preempt", "polling", "rescue"}
SYMMETRY Symmetry
INVARIANTS TypeOK RingOK CurrOK ContextSaved
PROPERTIES ImplementsGreenThreads SchedulesAwake
CHECK_DEADLOCK FALSE
