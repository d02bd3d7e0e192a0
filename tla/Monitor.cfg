SPECIFICATION Spec
CONSTANTS
    main_thread = main
    Thread = {main, t1, t2}
    Timed = {main, t1}
    MaxDepth = 2
    MaxQueue = 2
    Nil = Nil
    Calls = {"try", "signal", "broadcast"}
INVARIANTS MonitorHeld HandedOn TimerConfined
CHECK_DEADLOCK FALSE
