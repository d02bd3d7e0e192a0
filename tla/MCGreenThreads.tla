--------------------------- MODULE MCGreenThreads ---------------------------
(* RubyThread implements GreenThreads.                                     *)
EXTENDS MCRubyThread

(* A sleep with something to wait for, and Thread.stop.                    *)
StateOf(t) ==
    IF status[t] = "UNBORN" THEN "unborn"
    ELSE IF status[t] = "KILLED" THEN "dead"
    ELSE IF status[t] # "STOPPED" THEN "awake"
    ELSE IF wait_for[t] = {} THEN "stopped" ELSE "sleeping"

Green == INSTANCE GreenThreads
             WITH state <- [t \in Thread |-> StateOf(t)],
                  curr <- curr_thread,
                  over <- exited # "no" \/ fatal \/ pc[main_thread] = "cleanup"

(* Every step of the scheduler, of a thread operation and of its           *)
(* environment is a step GreenThreads allows, or none: in particular no    *)
(* operation that thread.rb uses takes the processor from an awake thread  *)
(* in a critical section, and no stopped thread wakes by itself.           *)
ImplementsGreenThreads == Green!GreenSpec
=============================================================================
