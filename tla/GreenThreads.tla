---------------------------- MODULE GreenThreads ----------------------------
(***************************************************************************)
(* What the scheduler of ruby/eval.c promises to Ruby code: one thread     *)
(* runs at a time, a thread that sleeps does not run, a thread in a        *)
(* critical section keeps the processor as long as it stays awake, and a   *)
(* stopped thread is woken only by another thread.  RubyThread implements  *)
(* it (MCGreenThreads); the thread library is modelled on top of it.       *)
(*                                                                         *)
(* The promise holds until the process shuts down: when the main thread    *)
(* has ended, or a deadlock was reported to it.                            *)
(***************************************************************************)
CONSTANTS Thread, main_thread,
          Calls      \* the operations a program uses

VARIABLES state,     \* "unborn", "awake", "sleeping", "stopped" or "dead"
          curr,      \* the running thread
          critical,  \* Thread.critical
          over       \* the process shuts down

greenVars == <<state, curr, critical, over>>

Asleep == {t \in Thread : state[t] \in {"sleeping", "stopped"}}

GreenInit ==
    /\ state = [t \in Thread |-> IF t = main_thread THEN "awake" ELSE "unborn"]
    /\ curr = main_thread
    /\ critical = FALSE
    /\ over = FALSE

Awaken(W) == [t \in Thread |-> IF t \in W THEN "awake" ELSE state[t]]

(* The scheduler: delays, descriptors and joins wake the threads of W, and *)
(* t is next: the thread that runs now is t itself, is not in a critical   *)
(* section, or cannot go on.  Stopped threads are not woken here.          *)
Switch(t, W) ==
    /\ ~over
    /\ W \subseteq {u \in Thread : state[u] = "sleeping"}
    /\ t \in W \/ state[t] = "awake"
    /\ t = curr \/ ~critical \/ state[curr] # "awake"
    /\ state' = Awaken(W)
    /\ curr' = t
    /\ UNCHANGED <<critical, over>>

(* The running thread creates a thread, or raises an exception in one:     *)
(* that thread runs at once, critical section or not.                      *)
Interrupt(t) ==
    /\ ~over /\ state[curr] = "awake"
    /\ state[t] = "unborn" \/ ("raise" \in Calls /\ state[t] # "dead")
    /\ state' = [state EXCEPT ![t] = "awake"]
    /\ curr' = t
    /\ UNCHANGED <<critical, over>>

(* The running thread wakes one.                                           *)
Wake(t) ==
    /\ ~over /\ state[curr] = "awake"
    /\ t \in Asleep
    /\ state' = [state EXCEPT ![t] = "awake"]
    /\ UNCHANGED <<curr, critical, over>>

(* It goes to sleep; Thread.stop leaves the critical section.              *)
Sleep ==
    /\ ~over /\ state[curr] = "awake"
    /\ \/ state' = [state EXCEPT ![curr] = "sleeping"] /\ UNCHANGED critical
       \/ state' = [state EXCEPT ![curr] = "stopped"] /\ critical' = FALSE
    /\ UNCHANGED <<curr, over>>

SetCritical ==
    /\ ~over /\ state[curr] = "awake"
    /\ critical' \in BOOLEAN
    /\ UNCHANGED <<state, curr, over>>

(* It ends; a fatal end wakes others, to be killed.                        *)
Die(W) ==
    /\ ~over /\ state[curr] = "awake" /\ curr # main_thread
    /\ W \subseteq Asleep
    /\ state' = [Awaken(W) EXCEPT ![curr] = "dead"]
    /\ UNCHANGED <<curr, critical, over>>

(* From the shutdown on nothing is promised but that the dead stay dead.   *)
Shutdown ==
    /\ over'
    /\ \A t \in Thread : state[t] = "dead" => state'[t] = "dead"

GreenNext ==
    \/ SetCritical \/ Sleep \/ Shutdown
    \/ \E t \in Thread : Interrupt(t) \/ Wake(t)
    \/ \E W \in SUBSET Asleep : Die(W) \/ \E t \in Thread : Switch(t, W)

(* For the library: Thread#wakeup and Thread#run of t, which raise         *)
(* ThreadError if it is dead; and the thread Thread.stop refuses to stop.  *)
Rouse(t) ==
    /\ state' = [state EXCEPT ![t] = IF @ = "dead" THEN "dead" ELSE "awake"]
    /\ UNCHANGED <<curr, critical, over>>
OnlyThread == \A t \in Thread \ {curr} : state[t] \in {"dead", "unborn"}

GreenSpec == GreenInit /\ [][GreenNext]_greenVars
=============================================================================
