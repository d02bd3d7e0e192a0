SPECIFICATION Spec
CONSTANTS
    main_thread = main
    Thread = {main, t1}
    NSIG = 3
    MaxSignals = 3
    MaxStack = 4
INVARIANTS ImmediateInSyscall PendingNoticed
PROPERTIES StopsUntilWoken
CHECK_DEADLOCK FALSE
