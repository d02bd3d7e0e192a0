SPECIFICATION FairSpec
CONSTANTS
    main_thread = main
    Thread = {main, t1, t2}
    Fd = {}
    Prio <- Two
    Null = Null
    SelectClears = FALSE
    Calls = {"start", "sleep", "sleep_forever", "pass", "kill", "priority_set", "preempt"}
PROPERTIES KillDelivered SleeperWakes NoStarvation
CHECK_DEADLOCK FALSE
