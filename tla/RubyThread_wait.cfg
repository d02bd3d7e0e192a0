SPECIFICATION Spec
CONSTANTS
    main_thread = main
    Thread = {main, t1, t2}
    Fd = {f1}
    Prio <- Equal
    Null = Null
    SelectClears = TRUE
    Calls = {"start", "join", "kill", "wait_fd", "fd_writable", "select", "preempt", "pass"}
SYMMETRY Symmetry
PROPERTIES JoinWaits KillKept DeadlockIsReal FdWakesOne
CHECK_DEADLOCK FALSE
