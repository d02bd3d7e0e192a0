SPECIFICATION FairSpec
CONSTANTS
    main_thread = main
    Thread = {main, t1, t2}
    Nil = Nil
    Producer = {main, t1}
    Consumer = {t2}
    SizedConsumer = {t1, t2}
    Max <- OneTwo
    MaxItems = 2
    MaxWaiting = 0
    Calls = {"non_block", "kill", "raise", "clear", "max="}
    SizedCalls = {"clear", "max="}
INVARIANTS TypeOK CriticalReleased WaiterListed
PROPERTIES RoomForPush PopWoken
CHECK_DEADLOCK FALSE
