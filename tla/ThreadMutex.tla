----------------------------- MODULE ThreadMutex -----------------------------
(***************************************************************************)
(* Mutex and ConditionVariable of ruby/lib/thread.rb, statement by         *)
(* statement, on the threads of GreenThreads.  A statement is a step of    *)
(* the running thread; between two of them any other awake thread may be   *)
(* scheduled, unless Thread.critical is set.                               *)
(*                                                                         *)
(* The program uses one mutex, always as "synchronize" does (lock; begin;  *)
(* ...; ensure; unlock; end), and one condition variable, whose wait is    *)
(* called inside the block.  Threads may be killed, and exceptions raised  *)
(* in them, wherever they are.  Which threads call what is a parameter.    *)
(***************************************************************************)
EXTENDS GreenThreads, Arrays, FiniteSets

CONSTANTS Lockers,      \* the threads that use the mutex
          Signallers,   \* the threads that call signal and broadcast
          MaxWaiting,   \* bound: no new synchronize while @waiting is longer
          MaxWaiters,   \* bound: no new wait while @waiters is longer
          MaxAlive,     \* bound: no kill or raise while more threads are alive
          Nil

ASSUME MutexAssumption ==
    /\ main_thread \in Thread /\ Nil \notin Thread
    /\ Lockers \subseteq Thread /\ Signallers \subseteq Thread
    /\ MaxWaiting \in Nat /\ MaxWaiters \in Nat /\ MaxAlive \in Nat

VARIABLES locked,    \* @locked of the mutex
          waiting,   \* @waiting of the mutex
          waiters,   \* @waiters of the condition variable
          frame,     \* the method the thread is in, see Frames
          pc,        \* the statement it is at
          target,    \* its local t, in unlock, exclusive_unlock and signal
          rest,      \* what is left of waiters0 in broadcast
          old,       \* _old of Thread.exclusive
          pending    \* the exit that unwinds it: "none", "raise" or "kill"

sync == <<locked, waiting, waiters>>
local == <<frame, pc, target, rest, old, pending>>
mutexVars == <<sync, local>>
vars == <<greenVars, mutexVars>>

(* user: outside; enter: in lock; body: in the block of synchronize; wait: *)
(* in the begin part of ConditionVariable#wait, relock: in its ensure      *)
(* part; leave: in unlock, called by the ensure part of synchronize.       *)
Frames == {"user", "enter", "body", "wait", "relock", "leave"}

LockPcs == {"lock_critical", "lock_test", "lock_stop", "lock_take", "lock_open"}
UnlockPcs == {"unlock_test", "unlock_critical", "unlock_free", "unlock_shift",
              "unlock_wakeup", "unlock_open", "unlock_run"}
WaitPcs == {"wait_test", "wait_old", "wait_critical", "unlock_free", "unlock_shift", "unlock_wakeup",
            "wait_push", "wait_stop", "wait_open"}
TryPcs == {"try_critical", "try_test", "try_open"}
SignalPcs == {"signal_shift", "signal_run"}
BroadcastPcs == {"broadcast_old", "broadcast_critical", "broadcast_take", "broadcast_open", "broadcast_run"}
Pcs == {"run"} \cup LockPcs \cup UnlockPcs \cup WaitPcs \cup TryPcs \cup SignalPcs \cup BroadcastPcs

(* All threads have been started; nobody is in the library.                *)
Init ==
    /\ state = [t \in Thread |-> "awake"]
    /\ curr = main_thread
    /\ critical = FALSE /\ over = FALSE
    /\ locked = FALSE
    /\ waiting = << >> /\ waiters = << >>
    /\ frame = [t \in Thread |-> "user"]
    /\ pc = [t \in Thread |-> "run"]
    /\ target = [t \in Thread |-> Nil]
    /\ rest = [t \in Thread |-> << >>]
    /\ old = [t \in Thread |-> FALSE]
    /\ pending = [t \in Thread |-> "none"]

-----------------------------------------------------------------------------
(* The statements of a method.                                             *)

(* The running thread is at statement l; it goes on at m.                  *)
At(l) == ~over /\ state[curr] = "awake" /\ pc[curr] = l
Goto(m) == pc' = [pc EXCEPT ![curr] = m]

(* Thread.critical = b *)
Critical(b) == critical' = b /\ UNCHANGED <<state, curr, over>>

Set(l, b, m) ==
    /\ At(l) /\ Critical(b) /\ Goto(m)
    /\ UNCHANGED <<sync, frame, target, rest, old, pending>>

(* An exception leaves the methods of t, up to the next ensure clause:     *)
(* that of Thread.exclusive, of ConditionVariable#wait or of synchronize.  *)
(* Outside of synchronize the program rescues it.                          *)
InExclusive(t) == frame[t] = "wait" /\ pc[t] \in {"wait_stop", "wait_open"}
UnwindFrame(t) ==
    IF frame[t] \in {"body", "relock"} THEN "leave"
    ELSE IF InExclusive(t) THEN "wait"
    ELSE IF frame[t] = "wait" THEN "relock" ELSE "user"
UnwindPc(t) ==
    IF frame[t] \in {"body", "relock"} THEN "unlock_test"
    ELSE IF InExclusive(t) THEN "wait_open"
    ELSE IF frame[t] = "wait" THEN "lock_critical" ELSE "run"
Unwind(t, tag) ==
    /\ frame' = [frame EXCEPT ![t] = UnwindFrame(t)]
    /\ pc' = [pc EXCEPT ![t] = UnwindPc(t)]
    /\ pending' = [pending EXCEPT ![t] = IF "kill" \in {@, tag} THEN "kill"
                                         ELSE IF UnwindFrame(t) = "user" THEN "none" ELSE tag]
    /\ target' = [target EXCEPT ![t] = Nil]
    /\ rest' = [rest EXCEPT ![t] = << >>]
    /\ UNCHANGED old

(* Thread.stop at statement l; the thread goes on at m when it is woken.   *)
StopAt(l, m) ==
    /\ At(l)
    /\ critical' = FALSE
    /\ \/ /\ OnlyThread /\ UNCHANGED state /\ Unwind(curr, "raise")
       \/ /\ ~OnlyThread /\ state' = [state EXCEPT ![curr] = "stopped"] /\ Goto(m)
          /\ UNCHANGED <<frame, target, rest, old, pending>>
    /\ UNCHANGED <<curr, over, sync>>

(* The thread is in the program's code, in frame f, and calls a method     *)
(* whose first statement is l.                                             *)
Call(f, g, l) ==
    /\ At("run") /\ frame[curr] = f /\ pending[curr] = "none"
    /\ frame' = [frame EXCEPT ![curr] = g]
    /\ Goto(l)
    /\ UNCHANGED <<greenVars, sync, target, rest, old, pending>>

-----------------------------------------------------------------------------
(* Mutex#synchronize and Mutex#lock                                        *)

MayLock == curr \in Lockers /\ Len(waiting) <= MaxWaiting
Synchronize == MayLock /\ Call("user", "enter", "lock_critical")

(* while (Thread.critical = true; @locked) *)
LockUncritical == Set("lock_critical", FALSE, "lock_test")   \* mutant: not critical
LockCritical == Set("lock_critical", TRUE, "lock_test")

(*   @waiting.push Thread.current *)
LockTestUnlisted ==        \* mutant: only the first waiter is listed
    /\ At("lock_test")
    /\ \/ /\ locked
          /\ waiting' = IF waiting = << >> THEN << curr >> ELSE waiting
          /\ Goto("lock_stop")
       \/ ~locked /\ Goto("lock_take") /\ UNCHANGED waiting
    /\ UNCHANGED <<greenVars, locked, waiters, frame, target, rest, old, pending>>
LockTest ==
    /\ At("lock_test")
    /\ \/ /\ locked
          /\ waiting' = Append(waiting, curr)
          /\ Goto("lock_stop")
       \/ ~locked /\ Goto("lock_take") /\ UNCHANGED waiting
    /\ UNCHANGED <<greenVars, locked, waiters, frame, target, rest, old, pending>>

(*   Thread.stop; end *)
LockStop == StopAt("lock_stop", "lock_critical")

(* @locked = true *)
LockTake ==
    /\ At("lock_take")
    /\ locked' = TRUE
    /\ Goto("lock_open")
    /\ UNCHANGED <<greenVars, waiting, waiters, frame, target, rest, old, pending>>

(* Thread.critical = false, and lock returns: to the end of synchronize's  *)
(* call, or of wait's ensure clause, which goes on unwinding.              *)
LockOpen ==
    /\ At("lock_open")
    /\ Critical(FALSE)
    /\ \/ /\ frame[curr] = "enter" /\ Goto("run") /\ UNCHANGED frame
       \/ /\ frame[curr] = "relock" /\ pending[curr] = "none"
          /\ Goto("run") /\ frame' = [frame EXCEPT ![curr] = "body"]
       \/ /\ frame[curr] = "relock" /\ pending[curr] # "none"
          /\ Goto("unlock_test") /\ frame' = [frame EXCEPT ![curr] = "leave"]
    /\ UNCHANGED <<sync, target, rest, old, pending>>

(* begin: only from here on does the ensure clause release the lock.       *)
Begin == Call("enter", "body", "run")

(* The block ends. *)
Leave == Call("body", "leave", "unlock_test")

(* Mutex#try_lock; the program goes on as in synchronize if it returned    *)
(* true.                                                                   *)
TryLock == "try_lock" \in Calls /\ MayLock /\ Call("user", "enter", "try_critical")
TryCritical == Set("try_critical", TRUE, "try_test")
TryTest ==
    /\ At("try_test")
    /\ locked' = TRUE
    /\ frame' = [frame EXCEPT ![curr] = IF locked THEN "user" ELSE "enter"]
    /\ Goto("try_open")
    /\ UNCHANGED <<greenVars, waiting, waiters, target, rest, old, pending>>
TryOpen == Set("try_open", FALSE, "run")

-----------------------------------------------------------------------------
(* Mutex#unlock                                                            *)

(* The call made in frame f is over; an exception that is pending goes on  *)
(* to the program, which rescues it.                                       *)
UnlockReturn ==
    /\ frame' = [frame EXCEPT ![curr] = "user"]
    /\ pending' = [pending EXCEPT ![curr] = IF @ = "kill" THEN "kill" ELSE "none"]
    /\ Goto("run")

(* return unless @locked *)
UnlockTest ==
    /\ At("unlock_test")
    /\ \/ ~locked /\ UnlockReturn
       \/ locked /\ Goto("unlock_critical") /\ UNCHANGED <<frame, pending>>
    /\ UNCHANGED <<greenVars, sync, target, rest, old>>

UnlockCritical == Set("unlock_critical", TRUE, "unlock_free")

(* @locked = false *)
UnlockKeeps ==             \* mutant: the waiter is woken, @locked stays
    /\ At("unlock_free")
    /\ Goto("unlock_shift")
    /\ UNCHANGED <<greenVars, sync, frame, target, rest, old, pending>>
UnlockFree ==
    /\ At("unlock_free")
    /\ locked' = FALSE
    /\ Goto("unlock_shift")
    /\ UNCHANGED <<greenVars, waiting, waiters, frame, target, rest, old, pending>>

FirstAll(q) == q           \* mutant: the list itself, not shifted
Shifted(q) == IF q = << >> THEN << >> ELSE Tail(q)
First(q) == IF q = << >> THEN Nil ELSE Head(q)

(* t = @waiting.shift *)
UnlockShift ==
    /\ At("unlock_shift")
    /\ target' = [target EXCEPT ![curr] = First(waiting)]
    /\ waiting' = Shifted(waiting)
    /\ Goto("unlock_wakeup")
    /\ UNCHANGED <<greenVars, locked, waiters, frame, rest, old, pending>>

(* t.wakeup if t; rescue ThreadError; retry *)
UnlockWakeup ==
    /\ At("unlock_wakeup")
    /\ LET t == target[curr]
       IN  \/ t = Nil /\ UNCHANGED greenVars
           \/ t # Nil /\ Rouse(t)
    /\ Goto(IF target[curr] # Nil /\ state[target[curr]] = "dead" THEN "unlock_shift"
            ELSE IF frame[curr] = "wait" THEN "wait_push" ELSE "unlock_open")
    /\ UNCHANGED <<sync, frame, target, rest, old, pending>>

(* Thread.critical = false *)
UnlockNotOpen == Set("unlock_open", TRUE, "unlock_run")   \* mutant: still critical
UnlockOpen == Set("unlock_open", FALSE, "unlock_run")

(* t.run if t; rescue ThreadError *)
UnlockRun ==
    /\ At("unlock_run")
    /\ LET t == target[curr]
       IN  \/ t = Nil /\ UNCHANGED greenVars
           \/ t # Nil /\ Rouse(t)
    /\ target' = [target EXCEPT ![curr] = Nil]
    /\ UnlockReturn
    /\ UNCHANGED <<sync, rest, old>>

-----------------------------------------------------------------------------
(* ConditionVariable#wait, with Mutex#exclusive_unlock and                 *)
(* Thread.exclusive.  The statements that release the mutex are those of   *)
(* unlock, in frame "wait".                                                *)

Wait == "wait" \in Calls /\ Len(waiters) <= MaxWaiters /\ Call("body", "wait", "wait_test")

(* return unless @locked: the block is not called, ensure relocks          *)
WaitTest ==
    /\ At("wait_test")
    /\ \/ /\ ~locked
          /\ frame' = [frame EXCEPT ![curr] = "relock"] /\ Goto("lock_critical")
       \/ /\ locked
          /\ Goto("wait_old") /\ UNCHANGED frame
    /\ UNCHANGED <<greenVars, sync, target, rest, old, pending>>

(* _old = Thread.critical *)
SaveCritical(l, m) ==
    /\ At(l)
    /\ old' = [old EXCEPT ![curr] = critical]
    /\ Goto(m)
    /\ UNCHANGED <<greenVars, sync, frame, target, rest, pending>>
WaitOld == SaveCritical("wait_old", "wait_critical")
WaitCritical == Set("wait_critical", TRUE, "unlock_free")

(* @waiters.push(Thread.current) *)
WaitPush ==
    /\ At("wait_push")
    /\ waiters' = Append(waiters, curr)
    /\ target' = [target EXCEPT ![curr] = Nil]
    /\ Goto("wait_stop")
    /\ UNCHANGED <<greenVars, locked, waiting, frame, rest, old, pending>>

WaitStop == StopAt("wait_stop", "wait_open")

(* Thread.critical = _old; then mutex.lock, in the ensure clause of wait   *)
WaitOpen ==
    /\ At("wait_open")
    /\ Critical(old[curr])
    /\ frame' = [frame EXCEPT ![curr] = "relock"]
    /\ Goto("lock_critical")
    /\ UNCHANGED <<sync, target, rest, old, pending>>

(* ConditionVariable#signal: nothing of it is in a critical section.       *)
MaySignal(op) == op \in Calls /\ curr \in Signallers
Signal == MaySignal("signal") /\ \E f \in {"user", "body"} : Call(f, f, "signal_shift")

SignalShift ==
    /\ At("signal_shift")
    /\ target' = [target EXCEPT ![curr] = First(waiters)]
    /\ waiters' = Shifted(waiters)
    /\ Goto("signal_run")
    /\ UNCHANGED <<greenVars, locked, waiting, frame, rest, old, pending>>

(* t.run if t; rescue ThreadError; retry *)
SignalRun ==
    /\ At("signal_run")
    /\ LET t == target[curr]
       IN  \/ t = Nil /\ UNCHANGED greenVars
           \/ t # Nil /\ Rouse(t)
    /\ target' = [target EXCEPT ![curr] = Nil]
    /\ Goto(IF target[curr] # Nil /\ state[target[curr]] = "dead" THEN "signal_shift" ELSE "run")
    /\ UNCHANGED <<sync, frame, rest, old, pending>>

(* ConditionVariable#broadcast *)
Broadcast == MaySignal("broadcast") /\ \E f \in {"user", "body"} : Call(f, f, "broadcast_old")
BroadcastOld == SaveCritical("broadcast_old", "broadcast_critical")
BroadcastCritical == Set("broadcast_critical", TRUE, "broadcast_take")

(* waiters0 = @waiters.dup; @waiters.clear *)
BroadcastClears ==         \* mutant: clear before dup
    /\ At("broadcast_take")
    /\ waiters' = << >>
    /\ Goto("broadcast_open")
    /\ UNCHANGED <<greenVars, locked, waiting, frame, target, rest, old, pending>>
BroadcastTake ==
    /\ At("broadcast_take")
    /\ rest' = [rest EXCEPT ![curr] = waiters]
    /\ waiters' = << >>
    /\ Goto("broadcast_open")
    /\ UNCHANGED <<greenVars, locked, waiting, frame, target, old, pending>>

BroadcastOpen == Set("broadcast_open", old[curr], "broadcast_run")

(* for t in waiters0; t.run; rescue ThreadError *)
BroadcastSkips ==          \* mutant: the loop starts at the second waiter
    /\ At("broadcast_run")
    /\ Goto("run")
    /\ IF Len(rest[curr]) > 1 THEN Rouse(rest[curr][2]) ELSE UNCHANGED greenVars
    /\ rest' = [rest EXCEPT ![curr] = << >>]
    /\ UNCHANGED <<sync, frame, target, old, pending>>
BroadcastRun ==
    /\ At("broadcast_run")
    /\ \/ rest[curr] = << >> /\ Goto("run") /\ UNCHANGED <<greenVars, rest>>
       \/ /\ rest[curr] # << >>
          /\ Rouse(Head(rest[curr]))
          /\ rest' = [rest EXCEPT ![curr] = Tail(@)]
          /\ UNCHANGED pc
    /\ UNCHANGED <<sync, frame, target, old, pending>>

-----------------------------------------------------------------------------
(* The rest of the program, and the scheduler.                             *)

(* The program's code, in or out of the block, kills a thread, or raises   *)
(* an exception in one: it runs at once.                                   *)
MayInterrupt(op) ==
    op \in Calls /\ Cardinality({t \in Thread : state[t] # "dead"}) <= MaxAlive

Kill(t) ==
    /\ MayInterrupt("kill")
    /\ At("run") /\ pending[curr] = "none"
    /\ t \notin {curr, main_thread} /\ state[t] # "dead" /\ pending[t] # "kill"
    /\ Rouse(t)
    /\ Unwind(t, "kill")
    /\ UNCHANGED sync

Raise(t) ==
    /\ MayInterrupt("raise")
    /\ At("run") /\ pending[curr] = "none"
    /\ t # curr
    /\ Interrupt(t)
    /\ Unwind(t, "raise")
    /\ UNCHANGED sync

(* The thread ends, or has been unwound by a kill.                         *)
EndThread ==
    /\ At("run") /\ frame[curr] = "user"
    /\ Die({})
    /\ UNCHANGED mutexVars

Schedule(t) == t # curr /\ Switch(t, {}) /\ UNCHANGED mutexVars

(* Everybody sleeps: the scheduler reports a deadlock.                     *)
Deadlock ==
    /\ ~over
    /\ \A t \in Thread : state[t] # "awake"
    /\ over' = TRUE
    /\ UNCHANGED <<state, curr, critical, mutexVars>>

Statement ==
    \/ LockCritical \/ LockTest \/ LockStop \/ LockTake \/ LockOpen \/ Begin
    \/ TryCritical \/ TryTest \/ TryOpen
    \/ UnlockTest \/ UnlockCritical \/ UnlockFree \/ UnlockShift \/ UnlockWakeup
    \/ UnlockOpen \/ UnlockRun
    \/ WaitTest \/ WaitOld \/ WaitCritical \/ WaitPush \/ WaitStop \/ WaitOpen
    \/ SignalShift \/ SignalRun
    \/ BroadcastOld \/ BroadcastCritical \/ BroadcastTake \/ BroadcastOpen \/ BroadcastRun

Next ==
    \/ Synchronize \/ TryLock \/ Leave \/ Wait \/ Signal \/ Broadcast
    \/ Statement
    \/ \E t \in Thread : Kill(t) \/ Raise(t) \/ Schedule(t)
    \/ EndThread \/ Deadlock

Spec == Init /\ [][Next]_vars

(* Every thread that is awake is scheduled again and again, and gets on    *)
(* with the method it is in before it is preempted: CHECK_INTS counts      *)
(* THREAD_TICK down only outside of critical sections, but then it does,   *)
(* and the scheduler goes round the ring (NoStarvation of RubyThread).     *)
FairSpec ==
    /\ Spec
    /\ \A t \in Thread : SF_vars(Schedule(t)) /\ SF_vars(curr = t /\ Statement)

-----------------------------------------------------------------------------
(* Properties.                                                             *)

TypeOK ==
    /\ state \in [Thread -> {"awake", "stopped", "dead"}]
    /\ curr \in Thread
    /\ critical \in BOOLEAN /\ over \in BOOLEAN /\ locked \in BOOLEAN
    /\ waiting \in Seq(Thread) /\ waiters \in Seq(Thread)
    /\ frame \in [Thread -> Frames]
    /\ pc \in [Thread -> Pcs]
    /\ target \in [Thread -> Thread \cup {Nil}]
    /\ rest \in [Thread -> Seq(Thread)]
    /\ old \in [Thread -> BOOLEAN]
    /\ pending \in [Thread -> {"none", "raise", "kill"}]

(* The thread has the lock: from @locked = true in lock or try_lock to     *)
(* @locked = false in unlock or exclusive_unlock.                          *)
Holds(t) ==
    /\ state[t] # "dead"
    /\ \/ frame[t] = "body"
       \/ frame[t] = "enter" /\ pc[t] \in {"lock_open", "try_open", "run"}
       \/ frame[t] = "relock" /\ pc[t] = "lock_open"
       \/ frame[t] = "leave" /\ pc[t] \in {"unlock_test", "unlock_critical", "unlock_free"}
       \/ frame[t] = "wait" /\ pc[t] \in {"wait_test", "wait_old", "wait_critical", "unlock_free"}

(* One thread at a time executes the block of synchronize, also across     *)
(* wait: whatever happens between the test of @locked and its assignment.  *)
MutualExclusion == \A t, u \in Thread : frame[t] = "body" /\ frame[u] = "body" => t = u

(* Thread.critical is never left set: no thread executes the program, or   *)
(* ends, with the scheduler switched off.                                  *)
CriticalReleased == pc[curr] = "run" \/ state[curr] # "awake" => ~critical

(* A lock that is locked is held by somebody who will unlock it.           *)
NoPhantomLock == locked => \E t \in Thread : Holds(t)

Sleeps(t, f) == state[t] = "stopped" /\ frame[t] = f

(* A thread that sleeps in lock is in @waiting, or is just being woken.    *)
WaiterListed ==
    \A t \in Thread : state[t] = "stopped" /\ frame[t] \in {"enter", "relock"} =>
        \/ t \in Elements(waiting)
        \/ pc[curr] = "unlock_wakeup" /\ target[curr] = t

(* A thread that sleeps in wait is in @waiters, or another thread is about *)
(* to run it, in signal or broadcast.                                      *)
CondListed ==
    \A t \in Thread : Sleeps(t, "wait") =>
        \/ t \in Elements(waiters)
        \/ \E u \in Thread : state[u] = "awake" /\ (target[u] = t \/ t \in Elements(rest[u]))

(* The threads that sleep in wait, and that nobody but u can know of.      *)
TakenBy(u) ==
    {t \in Thread : /\ Sleeps(t, "wait") /\ t \notin Elements(waiters)
                    /\ \A v \in Thread \ {u} : target[v] # t /\ t \notin Elements(rest[v])}

(* broadcast reaches everybody who waited when it took the list, however   *)
(* the waiters and new callers interleave with its loop: again and again   *)
(* everybody it has taken is awake.  That is so unless it is interrupted:  *)
(* a kill or an exception in the loop leaves the rest asleep for ever, in  *)
(* no list any more.                                                       *)
BroadcastDelivered == \A u \in Signallers : []<>(TakenBy(u) = {})
=============================================================================
