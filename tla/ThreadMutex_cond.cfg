SPECIFICATION Spec
CONSTANTS
    main_thread = main
    Thread = {main, t1, t2}
    Lockers = {main, t1, t2}
    Signallers = {main, t1, t2}
    Nil = Nil
    MaxWaiting = 0
    MaxWaiters = 1
    MaxAlive = 3
    Calls = {"try_lock", "wait", "signal", "broadcast"}
SYMMETRY Symmetry
INVARIANTS TypeOK MutualExclusion NoPhantomLock WaiterListed CondListed
CHECK_DEADLOCK FALSE
