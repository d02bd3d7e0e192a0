SPECIFICATION FairSpec
CONSTANTS
    main_thread = main
    Thread = {main, t1, t2}
    Lockers = {main, t1}
    Signallers = {t2}
    Nil = Nil
    MaxWaiting = 0
    MaxWaiters = 1
    MaxAlive = 2
    Calls = {"wait", "broadcast", "kill", "raise"}
INVARIANTS CriticalReleased
PROPERTIES BroadcastDelivered
CHECK_DEADLOCK FALSE
