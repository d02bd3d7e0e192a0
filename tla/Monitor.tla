------------------------------- MODULE Monitor -------------------------------
(***************************************************************************)
(* MonitorMixin of ruby/lib/monitor.rb: a re-entrant monitor with one      *)
(* condition variable, on the threads of GreenThreads.  The monitor works  *)
(* in critical sections, which nobody interrupts: from Thread.critical =   *)
(* true to the Thread.stop or the Thread.critical = false that ends it a   *)
(* section is one step.  Before it, any awake thread may be scheduled.     *)
(*                                                                         *)
(* The program enters and leaves as mon_synchronize does (mon_enter;       *)
(* begin; ...; ensure; mon_exit; end), with blocks inside blocks, and an   *)
(* exception leaves all of them.  It calls the condition variable inside   *)
(* the block.  The timer of a wait with a timeout, itself a thread, does   *)
(* nothing before and after it raises Timeout: it is one step of its own.  *)
(* A program uses timeouts, or kills threads, not both.                    *)
(***************************************************************************)
EXTENDS GreenThreads, Arrays

CONSTANTS Timed,      \* the threads that wait with a timeout, the others wait without
          MaxDepth,   \* bound: blocks inside blocks
          MaxQueue,   \* bound: no new mon_enter while its queue is longer
          Nil

ASSUME MonitorAssumption ==
    /\ main_thread \in Thread /\ Timed \subseteq Thread /\ Nil \notin Thread 
    /\ MaxDepth \in Nat /\ MaxQueue \in Nat

VARIABLES kills,       \* the program kills threads
          mon_owner, mon_count,
          mon_entering_queue, mon_waiting_queue,
          waiters,     \* @waiters of the condition variable
          timer,       \* whether the wait of the thread has a timer running
          depth,       \* the blocks of synchronize the thread is in
          saved,       \* its local count, in wait
          pc,          \* where it is, see Pcs
          pending      \* the exit that unwinds it: "none", "raise" or "kill"

monitor == <<mon_owner, mon_count, mon_entering_queue, mon_waiting_queue>>
local == <<depth, saved, pc, pending>>
monVars == <<monitor, waiters, timer, local>>
vars == <<greenVars, monVars, kills>>

(* run: in the program; enter, exit: in mon_enter and mon_exit; wait: in   *)
(* wait, before begin; stop: in Thread.stop; ensure: in the ensure part,   *)
(* and reenter: in its mon_acquire.                                        *)
Pcs == {"run", "enter", "exit", "wait", "stop", "ensure", "reenter"}

Init ==
    /\ state = [t \in Thread |-> "awake"]
    /\ curr = main_thread
    /\ critical = FALSE /\ over = FALSE
    /\ kills \in BOOLEAN
    /\ mon_owner = Nil /\ mon_count = 0
    /\ mon_entering_queue = << >> /\ mon_waiting_queue = << >>
    /\ waiters = << >>
    /\ timer = [t \in Thread |-> FALSE]
    /\ depth = [t \in Thread |-> 0]
    /\ saved = [t \in Thread |-> 0]
    /\ pc = [t \in Thread |-> "run"]
    /\ pending = [t \in Thread |-> "none"]

-----------------------------------------------------------------------------
At(l) == ~over /\ state[curr] = "awake" /\ pc[curr] = l
InProgram == At("run") /\ pending[curr] = "none"
Goto(l) == pc' = [pc EXCEPT ![curr] = l]

(* The section ends: with Thread.critical = false, the threads of W woken; *)
(* or with Thread.stop, which raises ThreadError in the only thread.       *)
Open(W) ==
    /\ state' = Awaken(W)
    /\ critical' = FALSE
    /\ UNCHANGED <<curr, over>>
Alone == OnlyThread /\ \A t \in Thread : ~timer[t]
Stop(W, l, error) ==
    /\ critical' = FALSE
    /\ UNCHANGED <<curr, over>>
    /\ \/ /\ ~Alone /\ state' = [Awaken(W) EXCEPT ![curr] = "stopped"]
          /\ Goto(l) /\ UNCHANGED pending
       \/ /\ Alone /\ UNCHANGED state
          /\ Goto(error) /\ pending' = [pending EXCEPT ![curr] = IF @ = "kill" THEN @ ELSE "raise"]

(* An exception leaves the method in the middle of the section.            *)
Fail ==
    /\ critical' = TRUE
    /\ Goto("run")
    /\ pending' = [pending EXCEPT ![curr] = IF @ = "kill" THEN @ ELSE "raise"]
    /\ UNCHANGED <<state, curr, over>>

(* mon_release: the thread to wake, if any; wakeup raises ThreadError if   *)
(* it is dead.                                                             *)
First(q) == IF q = << >> THEN Nil ELSE Head(q)
NextIn == First(mon_waiting_queue \o mon_entering_queue)
Shifted(q) == IF q = << >> THEN << >> ELSE Tail(q)
ShiftBoth ==               \* mutant: the entering queue is shifted as well
    /\ mon_waiting_queue' = Shifted(mon_waiting_queue)
    /\ mon_entering_queue' = Shifted(mon_entering_queue)
ShiftOne ==
    /\ mon_waiting_queue' = Shifted(mon_waiting_queue)
    /\ mon_entering_queue' = IF mon_waiting_queue = << >> THEN Shifted(mon_entering_queue)
                             ELSE mon_entering_queue
mon_release == mon_owner' = Nil /\ ShiftOne
Dead(t) == t # Nil /\ state[t] = "dead"

-----------------------------------------------------------------------------
(* Entering and leaving                                                    *)

mon_try_enter ==
    /\ "try" \in Calls /\ InProgram /\ depth[curr] < MaxDepth
    /\ Open({})
    /\ \/ /\ mon_owner \in {Nil, curr}
          /\ mon_owner' = curr /\ mon_count' = mon_count + 1
          /\ depth' = [depth EXCEPT ![curr] = @ + 1]
       \/ /\ mon_owner \notin {Nil, curr}
          /\ UNCHANGED <<mon_owner, mon_count, depth>>
    /\ UNCHANGED <<mon_entering_queue, mon_waiting_queue, waiters, timer, saved, pc, pending>>

CallEnter ==
    /\ InProgram /\ depth[curr] < MaxDepth /\ Len(mon_entering_queue) <= MaxQueue
    /\ Goto("enter")
    /\ UNCHANGED <<greenVars, monitor, waiters, timer, depth, saved, pending>>

(* mon_acquire(@mon_entering_queue), which begins again when it is woken   *)
mon_enter ==
    /\ At("enter")
    /\ \/ /\ mon_owner \notin {Nil, curr}
          /\ mon_entering_queue' = Append(mon_entering_queue, curr)
          /\ Stop({}, "enter", "run")
          /\ UNCHANGED <<mon_owner, mon_count, depth>>
       \/ /\ mon_owner \in {Nil, curr}
          /\ mon_owner' = curr /\ mon_count' = mon_count + 1
          /\ depth' = [depth EXCEPT ![curr] = @ + 1]
          /\ Open({}) /\ Goto("run")
          /\ UNCHANGED <<mon_entering_queue, pending>>
    /\ UNCHANGED <<mon_waiting_queue, waiters, timer, saved>>

(* The block ends, or an exception or a kill leaves it.                    *)
CallExit ==
    /\ At("run") /\ depth[curr] > 0
    /\ Goto("exit")
    /\ UNCHANGED <<greenVars, monitor, waiters, timer, depth, saved, pending>>

mon_exit ==
    /\ At("exit")
    /\ depth' = [depth EXCEPT ![curr] = @ - 1]
    /\ \/ /\ mon_owner # curr      \* mon_check_owner
          /\ Goto("run")
          /\ pending' = [pending EXCEPT ![curr] = IF @ = "kill" THEN @ ELSE "raise"]
          /\ UNCHANGED <<greenVars, monitor>>
       \/ /\ mon_owner = curr /\ mon_count > 1
          /\ mon_count' = mon_count - 1
          /\ Open({}) /\ Goto("run")
          /\ UNCHANGED <<mon_owner, mon_entering_queue, mon_waiting_queue, pending>>
       \/ /\ mon_owner = curr /\ mon_count = 1
          /\ mon_count' = 0 /\ mon_release
          /\ \/ Dead(NextIn) /\ Fail
             \/ /\ ~Dead(NextIn)
                /\ Open({NextIn}) /\ Goto("run") /\ UNCHANGED pending
    /\ UNCHANGED <<waiters, timer, saved>>

-----------------------------------------------------------------------------
(* ConditionVariable                                                       *)

(* create_timer: the new thread runs at once, passes and sleeps.           *)
create_timer(t) ==
    /\ timer' = [timer EXCEPT ![curr] = TRUE]
    /\ state[t] = "awake" /\ curr' = t
    /\ UNCHANGED <<state, critical, over>>
CallWait ==
    /\ InProgram /\ mon_owner = curr
    /\ Goto("wait")
    /\ \/ curr \in Timed /\ ~kills /\ \E t \in Thread : create_timer(t)
       \/ ~(curr \in Timed /\ ~kills) /\ UNCHANGED <<greenVars, timer>>
    /\ UNCHANGED <<monitor, waiters, depth, saved, pending>>

(* count = mon_exit_for_cond; @waiters.push; Thread.stop                   *)
wait ==
    /\ At("wait")
    /\ mon_count' = 0 /\ mon_release
    /\ UNCHANGED <<timer, depth>>
    /\ \/ Dead(NextIn) /\ Fail /\ UNCHANGED <<waiters, saved>>
       \/ /\ ~Dead(NextIn)
          /\ saved' = [saved EXCEPT ![curr] = mon_count]
          /\ waiters' = Append(waiters, curr)
          /\ Stop({NextIn}, "stop", "ensure")

(* Thread.stop returns.                                                    *)
Woken ==
    /\ At("stop")
    /\ Goto("ensure")
    /\ UNCHANGED <<greenVars, monitor, waiters, timer, depth, saved, pending>>

(* The ensure part: kill the timer, leave @waiters, then mon_acquire.      *)
Without(q) == Filter(q, Thread \ {curr})
mon_enter_for_cond ==
    \/ /\ mon_owner \notin {Nil, curr}
       /\ mon_waiting_queue' = Append(mon_waiting_queue, curr)
       /\ Stop({}, "reenter", "run")
       /\ UNCHANGED <<mon_owner, mon_count, saved>>
    \/ /\ mon_owner \in {Nil, curr}
       /\ mon_owner' = curr /\ mon_count' = saved[curr]
       /\ saved' = [saved EXCEPT ![curr] = 0]
       /\ Open({}) /\ Goto("run")
       /\ UNCHANGED <<mon_waiting_queue, pending>>
LeaveTimer == UNCHANGED timer     \* mutant: the timer is not killed
KillTimer == timer' = [timer EXCEPT ![curr] = FALSE]
Ensure ==
    /\ At("ensure")
    /\ KillTimer
    /\ waiters' = Without(waiters)
    /\ mon_enter_for_cond
    /\ UNCHANGED <<mon_entering_queue, depth>>
ReenterAnyway ==           \* mutant: mon_acquire is an if, not a while
    /\ At("reenter")
    /\ mon_owner' = curr /\ mon_count' = saved[curr]
    /\ saved' = [saved EXCEPT ![curr] = 0]
    /\ Open({}) /\ Goto("run")
    /\ UNCHANGED <<mon_waiting_queue, mon_entering_queue, pending, waiters, timer, depth>>
Reenter ==
    /\ At("reenter")
    /\ mon_enter_for_cond
    /\ UNCHANGED <<mon_entering_queue, waiters, timer, depth>>

signal ==
    /\ "signal" \in Calls /\ InProgram /\ mon_owner = curr
    /\ waiters' = Shifted(waiters)
    /\ \/ Dead(First(waiters)) /\ Fail
       \/ /\ ~Dead(First(waiters))
          /\ Open({First(waiters)})
          /\ UNCHANGED <<pc, pending>>
    /\ UNCHANGED <<monitor, timer, depth, saved>>

(* A dead thread ends the loop before @waiters.clear.                      *)
broadcast ==
    /\ "broadcast" \in Calls /\ InProgram /\ mon_owner = curr
    /\ \/ /\ ~\E t \in Elements(waiters) : Dead(t)
          /\ Open(Elements(waiters))
          /\ waiters' = << >>
          /\ UNCHANGED <<pc, pending>>
       \/ \E i \in 1 .. Len(waiters) :
          /\ Dead(waiters[i]) /\ \A j \in 1 .. i - 1 : ~Dead(waiters[j])
          /\ state' = Awaken(Elements(SubSeq(waiters, 1, i - 1)))
          /\ critical' = TRUE
          /\ Goto("run") /\ pending' = [pending EXCEPT ![curr] = "raise"]
          /\ UNCHANGED <<curr, over, waiters>>
    /\ UNCHANGED <<monitor, timer, depth, saved>>

-----------------------------------------------------------------------------
(* Exceptions from outside, and the scheduler                              *)

(* Only Thread.stop of wait is inside a begin; mon_exit that is left has   *)
(* been called nevertheless.                                               *)
Unwind(t, tag, rescued) ==
    /\ pc' = [pc EXCEPT ![t] = IF @ = "stop" THEN "ensure" ELSE "run"]
    /\ pending' = [pending EXCEPT ![t] = IF @ = "kill" \/ (pc[t] = "stop" /\ rescued) THEN @
                                         ELSE tag]
    /\ depth' = [depth EXCEPT ![t] = IF pc[t] = "exit" THEN @ - 1 ELSE @]
    /\ saved' = [saved EXCEPT ![t] = IF pc[t] = "stop" THEN @ ELSE 0]
    /\ UNCHANGED <<monitor, waiters>>

(* The timer: Thread.critical = true; waiter.raise(Timeout.new), which     *)
(* wait rescues.  Nothing happens to a dead thread.                        *)
Timeout(t) ==
    /\ ~over /\ timer[t]
    /\ ~critical \/ state[curr] # "awake"
    /\ critical' = TRUE /\ UNCHANGED over
    /\ timer' = [timer EXCEPT ![t] = FALSE]
    /\ \/ /\ state[t] # "dead"
          /\ state' = [state EXCEPT ![t] = "awake"]
          /\ curr' = t
          /\ Unwind(t, "raise", TRUE)
       \/ /\ state[t] = "dead"
          /\ \E u \in Thread : state[u] = "awake" /\ curr' = u
          /\ UNCHANGED <<state, monitor, waiters, local>>

Kill(t) ==
    /\ kills /\ InProgram
    /\ t \notin {curr, main_thread} /\ state[t] # "dead" /\ pending[t] # "kill"
    /\ Rouse(t)
    /\ Unwind(t, "kill", FALSE)
    /\ UNCHANGED timer

(* Outside of all blocks the program rescues the exception.                *)
Rescue ==
    /\ At("run") /\ pending[curr] = "raise" /\ depth[curr] = 0
    /\ pending' = [pending EXCEPT ![curr] = "none"]
    /\ UNCHANGED <<greenVars, monitor, waiters, timer, depth, saved, pc>>

EndThread == At("run") /\ depth[curr] = 0 /\ Die({}) /\ UNCHANGED monVars

Schedule(t) == t # curr /\ Switch(t, {}) /\ UNCHANGED monVars

(* Everybody sleeps, and no timer will end.                                *)
Deadlock ==
    /\ ~over
    /\ \A t \in Thread : state[t] # "awake" /\ ~timer[t]
    /\ over' = TRUE
    /\ UNCHANGED <<state, curr, critical, monVars>>

Step ==
    \/ mon_try_enter \/ CallEnter \/ mon_enter \/ CallExit \/ mon_exit
    \/ CallWait \/ wait \/ Woken \/ Ensure \/ Reenter \/ signal \/ broadcast
    \/ \E t \in Thread : Timeout(t) \/ Kill(t) \/ Schedule(t)
    \/ Rescue \/ EndThread \/ Deadlock
Next == Step /\ UNCHANGED kills

Spec == Init /\ [][Next]_vars

-----------------------------------------------------------------------------
(* Properties.                                                             *)

Killed == \E t \in Thread : pending[t] = "kill"

(* A thread that executes its block owns the monitor, as many times as it  *)
(* is inside: also after a wait, which gives the monitor up altogether and *)
(* takes it back with the same count, and after exceptions that have left  *)
(* wait or mon_enter half way.                                             *)
MonitorHeld ==
    /\ mon_count \in Nat /\ mon_owner \in Thread \cup {Nil}
    /\ \A t \in Thread :
         pc[t] \in {"run", "enter", "exit", "wait"} /\ pending[t] = "none" /\ depth[t] > 0
             => mon_owner = t /\ mon_count = depth[t]

(* The monitor is handed on: when it is free, a thread asleep in mon_enter *)
(* or at the end of wait is in its queue, and one has been woken and will  *)
(* try to enter, or try to.  (When a thread is killed in mon_enter, its    *)
(* entry stays, and mon_release wakes nobody else.)                        *)
HandedOn ==
    ~Killed /\ ~over =>
        \A t \in Thread : state[t] = "stopped" =>
            /\ pc[t] = "enter" => t \in Elements(mon_entering_queue)
            /\ pc[t] = "reenter" => t \in Elements(mon_waiting_queue)
            /\ pc[t] \in {"enter", "reenter"} /\ mon_owner = Nil =>
                 \E u \in Thread : state[u] = "awake" /\ pc[u] \in {"enter", "reenter"}

(* Timeout is raised in a thread only during the wait that asked for it: a *)
(* wait that was signalled, or has timed out, leaves no timer behind.      *)
TimerConfined == \A t \in Thread : timer[t] => pc[t] \in {"wait", "stop", "ensure"}
=============================================================================
