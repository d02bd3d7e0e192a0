----------------------------- MODULE ThreadQueue -----------------------------
(***************************************************************************)
(* Queue and SizedQueue of ruby/lib/thread.rb, statement by statement, on  *)
(* the threads of GreenThreads (see ThreadMutex for how).  The objects in  *)
(* the queue are not told apart: @que is its length.                       *)
(***************************************************************************)
EXTENDS GreenThreads, Arrays, Integers

CONSTANTS Producer,     \* the threads that push
          Consumer,     \* the threads that pop from a Queue
          SizedConsumer,   \* the threads that pop from a SizedQueue
          SizedCalls,   \* of Calls, what a program with a SizedQueue uses
          Max,          \* the values of @max; a Queue has none
          MaxItems,     \* bound: no new push while @que is as long
          MaxWaiting,   \* bound: no new call while a waiting list is longer
          Nil

ASSUME QueueAssumption ==
    /\ main_thread \in Thread /\ Nil \notin Thread
    /\ SizedCalls \subseteq Calls
    /\ Producer \subseteq Thread /\ Consumer \cup SizedConsumer \subseteq Thread
    /\ Max \subseteq Nat \ {0} /\ Max # {}
    /\ MaxItems \in Nat /\ MaxWaiting \in Nat

VARIABLES sized,       \* the object is a SizedQueue, not a Queue
          que,         \* the length of @que
          waiting,     \* @waiting: the threads in pop
          max,         \* @max
          queue_wait,  \* @queue_wait: the threads in push
          pc,          \* the statement the thread is at
          target,      \* its local t
          diff,        \* its local diff, in max=
          pending      \* the exit that unwinds it: "none", "raise" or "kill"

queue == <<sized, que, waiting, max, queue_wait>>
local == <<pc, target, diff, pending>>
queueVars == <<queue, local>>
vars == <<greenVars, queueVars>>

PushPcs == {"push_full", "push_test", "push_wait", "push_again", "push_critical", "push_add",
            "push_shift", "push_wakeup", "push_open", "push_run"}
PopPcs == {"try_critical", "try_test", "pop_critical", "pop_test", "pop_stop", "pop_take",
           "pop_ensure"}
SizedPopPcs == {"sized_critical", "sized_test", "sized_shift", "sized_wakeup", "sized_open",
                "sized_run"}
MaxPcs == {"max_critical", "max_set", "max_open", "max_shift", "max_run"}
Pcs == {"run"} \cup PushPcs \cup PopPcs \cup SizedPopPcs \cup MaxPcs

(* All threads have been started, and the queue is new.                    *)
Init ==
    /\ state = [t \in Thread |-> "awake"]
    /\ curr = main_thread
    /\ critical = FALSE /\ over = FALSE
    /\ sized \in BOOLEAN
    /\ que = 0
    /\ waiting = << >> /\ queue_wait = << >>
    /\ max \in Max
    /\ pc = [t \in Thread |-> "run"]
    /\ target = [t \in Thread |-> Nil]
    /\ diff = [t \in Thread |-> 0]
    /\ pending = [t \in Thread |-> "none"]

-----------------------------------------------------------------------------
(* The statements of a method.                                             *)

At(l) == ~over /\ state[curr] = "awake" /\ pc[curr] = l
Goto(m) == pc' = [pc EXCEPT ![curr] = m]

(* Thread.critical = b *)
Set(l, b, m) ==
    /\ At(l)
    /\ critical' = b
    /\ Goto(m)
    /\ UNCHANGED <<state, curr, over, queue, target, diff, pending>>

(* Only pop has an ensure clause an exception meets; elsewhere it leaves   *)
(* the method, to be rescued by the program.                               *)
InPop(t) == pc[t] \in PopPcs \ {"pop_ensure"}
Unwind(t, tag) ==
    /\ pc' = [pc EXCEPT ![t] = IF InPop(t) THEN "pop_ensure" ELSE "run"]
    /\ pending' = [pending EXCEPT ![t] = IF "kill" \in {@, tag} THEN "kill"
                                         ELSE IF InPop(t) THEN tag ELSE "none"]
    /\ target' = [target EXCEPT ![t] = Nil]
    /\ diff' = [diff EXCEPT ![t] = 0]

(* Thread.stop; ThreadError in the only living thread                      *)
StopAt(l, m) ==
    /\ At(l)
    /\ critical' = FALSE
    /\ \/ /\ OnlyThread /\ UNCHANGED state /\ Unwind(curr, "raise")
       \/ /\ ~OnlyThread /\ state' = [state EXCEPT ![curr] = "stopped"] /\ Goto(m)
          /\ UNCHANGED <<target, diff, pending>>
    /\ UNCHANGED <<curr, over, queue>>

Dropped(q) == << >>        \* mutant: the list is emptied
Shifted(q) == IF q = << >> THEN << >> ELSE Tail(q)
First(q) == IF q = << >> THEN Nil ELSE Head(q)

(* t.wakeup if t, or t.run if t, at statement l, of which ThreadError is   *)
(* rescued by going to dead.                                               *)
RouseAt(l, dead, m) ==
    /\ At(l)
    /\ \/ target[curr] = Nil /\ Goto(m) /\ UNCHANGED greenVars
       \/ /\ target[curr] # Nil
          /\ Goto(IF state[target[curr]] = "dead" THEN dead ELSE m)
          /\ Rouse(target[curr])
    /\ UNCHANGED <<queue, diff, pending>>

(* Two programs: one with a Queue and one with a SizedQueue.               *)
Popper == IF sized THEN SizedConsumer ELSE Consumer
MayUse(c) == c \in (IF sized THEN SizedCalls ELSE Calls)

(* The program calls a method.                                             *)
Call(l) ==
    /\ At("run") /\ pending[curr] = "none"
    /\ Len(waiting) <= MaxWaiting /\ Len(queue_wait) <= MaxWaiting
    /\ Goto(l)
    /\ UNCHANGED <<greenVars, queue, target, diff, pending>>

-----------------------------------------------------------------------------
(* Queue#push, after what SizedQueue#push does first                       *)

Push ==
    /\ curr \in Producer /\ que < MaxItems
    /\ Call(IF sized THEN "push_full" ELSE "push_critical")

(* SizedQueue: Thread.critical = true; while @que.length >= @max           *)
PushFull == Set("push_full", TRUE, "push_test")
PushTest ==
    /\ At("push_test")
    /\ \/ /\ que >= max
          /\ queue_wait' = Append(queue_wait, curr)
          /\ Goto("push_wait")
       \/ que < max /\ Goto("push_critical") /\ UNCHANGED queue_wait
    /\ UNCHANGED <<greenVars, sized, que, waiting, max, target, diff, pending>>
(*   Thread.stop; Thread.critical = true; end *)
PushWait == StopAt("push_wait", "push_again")
PushAgainUncritical == Set("push_again", FALSE, "push_test")   \* mutant: not critical again
PushAgain == Set("push_again", TRUE, "push_test")

(* super: Thread.critical = true; @que.push obj *)
PushCritical == Set("push_critical", TRUE, "push_add")
PushAdd ==
    /\ At("push_add")
    /\ que' = que + 1
    /\ Goto("push_shift")
    /\ UNCHANGED <<greenVars, sized, waiting, max, queue_wait, target, diff, pending>>

(* t = @waiting.shift *)
PushShift ==
    /\ At("push_shift")
    /\ target' = [target EXCEPT ![curr] = First(waiting)]
    /\ waiting' = Shifted(waiting)
    /\ Goto("push_wakeup")
    /\ UNCHANGED <<greenVars, sized, que, max, queue_wait, diff, pending>>

(* t.wakeup if t; rescue ThreadError; retry; ensure critical = false       *)
PushWakeup == RouseAt("push_wakeup", "push_shift", "push_open") /\ UNCHANGED target
PushOpen == Set("push_open", FALSE, "push_run")

(* t.run if t; rescue ThreadError *)
PushRun ==
    /\ RouseAt("push_run", "run", "run")
    /\ target' = [target EXCEPT ![curr] = Nil]

-----------------------------------------------------------------------------
(* Queue#pop, and what SizedQueue#pop does afterwards                      *)

Pop == curr \in Popper /\ Call("pop_critical")

(* while (Thread.critical = true; @que.empty?) *)
PopUncritical == Set("pop_critical", FALSE, "pop_test")   \* mutant: not critical
PopCritical == Set("pop_critical", TRUE, "pop_test")
(*   @waiting.push Thread.current *)
PopTestUnlisted ==         \* mutant: it goes to sleep without it
    /\ At("pop_test")
    /\ Goto(IF que = 0 THEN "pop_stop" ELSE "pop_take")
    /\ UNCHANGED <<greenVars, queue, target, diff, pending>>
PopTest ==
    /\ At("pop_test")
    /\ \/ /\ que = 0
          /\ waiting' = Append(waiting, curr)
          /\ Goto("pop_stop")
       \/ que > 0 /\ Goto("pop_take") /\ UNCHANGED waiting
    /\ UNCHANGED <<greenVars, sized, que, max, queue_wait, target, diff, pending>>
(*   Thread.stop; end *)
PopStop == StopAt("pop_stop", "pop_critical")

(* pop(true): raise ThreadError, "queue empty" *)
TryPop == MayUse("non_block") /\ curr \in Popper /\ Call("try_critical")
TryCritical == Set("try_critical", TRUE, "try_test")
TryTest ==
    /\ At("try_test")
    /\ \/ que = 0 /\ Unwind(curr, "raise")
       \/ que > 0 /\ Goto("pop_take") /\ UNCHANGED <<target, diff, pending>>
    /\ UNCHANGED <<greenVars, queue>>

(* @que.shift *)
PopTake ==
    /\ At("pop_take")
    /\ que' = que - 1
    /\ Goto("pop_ensure")
    /\ UNCHANGED <<greenVars, sized, waiting, max, queue_wait, target, diff, pending>>

(* ensure Thread.critical = false *)
PopEnsureReturn ==         \* mutant: the ensure clause is for a return only
    /\ At("pop_ensure")
    /\ critical' = (critical /\ pending[curr] # "none")
    /\ Goto(IF sized /\ pending[curr] = "none" THEN "sized_critical" ELSE "run")
    /\ pending' = [pending EXCEPT ![curr] = IF @ = "kill" THEN "kill" ELSE "none"]
    /\ UNCHANGED <<state, curr, over, queue, target, diff>>
PopEnsure ==
    /\ At("pop_ensure")
    /\ critical' = FALSE
    /\ Goto(IF sized /\ pending[curr] = "none" THEN "sized_critical" ELSE "run")
    /\ pending' = [pending EXCEPT ![curr] = IF @ = "kill" THEN "kill" ELSE "none"]
    /\ UNCHANGED <<state, curr, over, queue, target, diff>>

(* SizedQueue: Thread.critical = true; if @que.length < @max               *)
SizedCritical == Set("sized_critical", TRUE, "sized_test")
SizedTest ==
    /\ At("sized_test")
    /\ Goto(IF que < max THEN "sized_shift" ELSE "run")
    /\ UNCHANGED <<greenVars, queue, target, diff, pending>>

(*   t = @queue_wait.shift *)
ShiftWait(l, m) ==
    /\ At(l)
    /\ target' = [target EXCEPT ![curr] = First(queue_wait)]
    /\ queue_wait' = Shifted(queue_wait)
    /\ Goto(m)
    /\ UNCHANGED <<greenVars, sized, que, waiting, max, pending>>
SizedShift == ShiftWait("sized_shift", "sized_wakeup") /\ UNCHANGED diff

(*   t.wakeup if t; rescue ThreadError; retry; ensure critical = false     *)
SizedWakeup == RouseAt("sized_wakeup", "sized_shift", "sized_open") /\ UNCHANGED target
SizedOpen == Set("sized_open", FALSE, "sized_run")

(*   t.run if t; rescue ThreadError *)
SizedRun ==
    /\ RouseAt("sized_run", "run", "run")
    /\ target' = [target EXCEPT ![curr] = Nil]

-----------------------------------------------------------------------------
(* SizedQueue#max= and Queue#clear                                         *)

MaxSet == sized /\ MayUse("max=") /\ Call("max_critical")
MaxCritical == Set("max_critical", TRUE, "max_set")

(* diff = max - @max; @max = max *)
SetMax(m) ==
    /\ At("max_set")
    /\ max' = m
    /\ diff' = [diff EXCEPT ![curr] = IF m <= max THEN 0 ELSE m - max]
    /\ Goto("max_open")
    /\ UNCHANGED <<greenVars, sized, que, waiting, queue_wait, target, pending>>
MaxOpen == Set("max_open", FALSE, "max_shift")

(* diff.times: t = @queue_wait.shift, outside of any critical section      *)
MaxShift ==
    \/ /\ diff[curr] > 0
       /\ ShiftWait("max_shift", "max_run")
       /\ UNCHANGED diff
    \/ /\ At("max_shift") /\ diff[curr] = 0
       /\ Goto("run")
       /\ UNCHANGED <<greenVars, queue, target, diff, pending>>

(*   t.run if t; rescue ThreadError; retry *)
MaxRun ==
    /\ At("max_run")
    /\ LET t == target[curr]
       IN  /\ \/ t = Nil /\ UNCHANGED greenVars
              \/ t # Nil /\ Rouse(t)
           /\ diff' = [diff EXCEPT ![curr] = IF t # Nil /\ state[t] = "dead" THEN @ ELSE @ - 1]
    /\ target' = [target EXCEPT ![curr] = Nil]
    /\ Goto("max_shift")
    /\ UNCHANGED <<queue, pending>>

Clear ==
    /\ MayUse("clear")
    /\ At("run") /\ pending[curr] = "none"
    /\ que' = 0
    /\ UNCHANGED <<greenVars, sized, waiting, max, queue_wait, local>>

-----------------------------------------------------------------------------
(* The rest of the program, and the scheduler.                             *)

Kill(t) ==
    /\ MayUse("kill")
    /\ At("run") /\ pending[curr] = "none"
    /\ t \notin {curr, main_thread} /\ state[t] # "dead" /\ pending[t] # "kill"
    /\ Rouse(t)
    /\ Unwind(t, "kill")
    /\ UNCHANGED queue

Raise(t) ==
    /\ MayUse("raise")
    /\ At("run") /\ pending[curr] = "none"
    /\ t # curr
    /\ Interrupt(t)
    /\ Unwind(t, "raise")
    /\ UNCHANGED queue

(* The thread ends, or has been unwound by a kill.                         *)
EndThread == At("run") /\ Die({}) /\ UNCHANGED queueVars

Schedule(t) == t # curr /\ Switch(t, {}) /\ UNCHANGED queueVars

(* Everybody sleeps: the scheduler reports a deadlock.                     *)
Deadlock ==
    /\ ~over
    /\ \A t \in Thread : state[t] # "awake"
    /\ over' = TRUE
    /\ UNCHANGED <<state, curr, critical, queueVars>>

Statement ==
    \/ PushFull \/ PushTest \/ PushWait \/ PushAgain
    \/ PushCritical \/ PushAdd \/ PushShift \/ PushWakeup \/ PushOpen \/ PushRun
    \/ PopCritical \/ PopTest \/ PopStop \/ TryCritical \/ TryTest \/ PopTake \/ PopEnsure
    \/ SizedCritical \/ SizedTest \/ SizedShift \/ SizedWakeup \/ SizedOpen \/ SizedRun
    \/ MaxCritical \/ (\E m \in Max : SetMax(m)) \/ MaxOpen \/ MaxShift \/ MaxRun

Next ==
    \/ Push \/ Pop \/ TryPop \/ MaxSet \/ Clear
    \/ Statement
    \/ \E t \in Thread : Kill(t) \/ Raise(t) \/ Schedule(t)
    \/ EndThread \/ Deadlock

Spec == Init /\ [][Next]_vars

(* As in ThreadMutex. *)
FairSpec ==
    /\ Spec
    /\ \A t \in Thread : SF_vars(Schedule(t)) /\ SF_vars(curr = t /\ Statement)

-----------------------------------------------------------------------------
(* Properties.                                                             *)

TypeOK ==
    /\ state \in [Thread -> {"awake", "stopped", "dead"}]
    /\ curr \in Thread
    /\ critical \in BOOLEAN /\ over \in BOOLEAN
    /\ sized \in BOOLEAN /\ que \in Nat
    /\ waiting \in Seq(Thread) /\ queue_wait \in Seq(Thread)
    /\ max \in Max
    /\ pc \in [Thread -> Pcs]
    /\ target \in [Thread -> Thread \cup {Nil}]
    /\ diff \in [Thread -> Nat]
    /\ pending \in [Thread -> {"none", "raise", "kill"}]

(* An object is added to a SizedQueue only when there is room for it: the  *)
(* room push has seen is still there when it adds, because the critical    *)
(* section goes on into the inherited push.                                *)
RoomForPush == [][sized /\ que' > que => que' <= max]_vars

(* Thread.critical is never left set by a Queue: no thread executes the    *)
(* program, or ends, with the scheduler switched off.  (SizedQueue#pop     *)
(* leaves it set when another thread has filled the queue again before its *)
(* test.)                                                                  *)
CriticalReleased ==
    ~sized /\ (pc[curr] = "run" \/ state[curr] # "awake") => ~critical

Sleeps(t, l) == state[t] = "stopped" /\ pc[t] = l

(* A thread that sleeps in pop or push is in the list of those to be       *)
(* woken, or another thread is about to run it.                            *)
WaiterListed ==
    \A t \in Thread :
        /\ Sleeps(t, "pop_critical") =>
             \/ t \in Elements(waiting)
             \/ pc[curr] = "push_wakeup" /\ target[curr] = t
        /\ Sleeps(t, "push_again") =>
             \/ t \in Elements(queue_wait)
             \/ pc[curr] = "sized_wakeup" /\ target[curr] = t
             \/ \E u \in Thread : pc[u] = "max_run" /\ target[u] = t

(* The consumer of a Queue that sleeps in pop when an object is pushed     *)
(* goes on.  (With two consumers it may not: the spurious second wakeup of *)
(* push leaves stale entries in @waiting.)                                 *)
PopWoken ==
    \A t \in Thread :
        ~sized /\ Sleeps(t, "pop_critical") /\ que > 0 ~> state[t] # "stopped"
=============================================================================
