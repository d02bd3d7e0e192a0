----------------------------- MODULE RubyThread -----------------------------
(***************************************************************************)
(* The green-thread scheduler of the interpreter (ruby/eval.c): the ring   *)
(* of struct thread, rb_thread_schedule, and the operations of class       *)
(* Thread.  Exactly one thread runs; it keeps the processor until it calls *)
(* an operation that switches, or until CHECK_INTS counts THREAD_TICK      *)
(* down (there is no timer in the VMS build, vms/config.h).                *)
(*                                                                         *)
(* An operation that ends in rb_thread_schedule sets "scheduling"; from    *)
(* then on Schedule is the only step of the process until it picks a       *)
(* thread, and it may be blocked there, in select.                         *)
(***************************************************************************)
EXTENDS Integers, FiniteSets

CONSTANTS Thread,        \* the thread structures
          main_thread,   \* the thread of the script
          Fd,            \* descriptor conditions: one to read or one to write
          Prio,          \* the priorities a program uses
          Calls,         \* the operations a program uses
          SelectClears,  \* select that fails clears the descriptors it failed on
          Null           \* the null pointer

ASSUME ThreadAssumption == IsFiniteSet(Thread) /\ main_thread \in Thread
ASSUME NullAssumption == Null \notin Thread
ASSUME SelectAssumption == SelectClears \in BOOLEAN
ASSUME PrioAssumption == Prio \subseteq Int /\ 0 \in Prio

VARIABLES
    status,       \* enum thread_status, "UNBORN" for a structure not in use
    next, prev,   \* the ring; a dead thread keeps its stale pointers
    wait_for,     \* WAIT_xxx flags; WAIT_TIME is kept with the state of delay
    join,         \* th->join
    fds,          \* th->fd, readfds, writefds, exceptfds
    priority,
    context,      \* of stk_ptr and the jump buffer: "none", "saved", "stale"
    terminating,  \* the threads with THREAD_TERMINATING
    raised,       \* the threads that died of an exception join has to raise
    last_status,  \* the local of rb_thread_stop and rb_thread_join
    pc,           \* where the thread goes on when it is resumed
    unwinding,    \* the non-local exit in progress (state of EXEC_TAG)
    curr_thread,
    critical,     \* rb_thread_critical
    scheduling,   \* the process is inside rb_thread_schedule
    fd_state,     \* what select makes of a descriptor: "idle", "ready", "bad"
    fatal,        \* a deadlock has been reported to the main thread
    jumped,       \* history: rb_thread_main_jump has met the main thread asleep
    exited        \* how the process ended: "no", "clean", "abort"

ring == <<status, next, prev, context, priority>>
waits == <<wait_for, join, fds>>
frames == <<last_status, pc, unwinding>>
ends == <<terminating, raised, fatal, jumped, exited>>
vars == <<ring, waits, frames, ends, curr_thread, critical, scheduling, fd_state>>

Statuses == {"UNBORN", "TO_KILL", "RUNNABLE", "STOPPED", "KILLED"}
Flags == {"FD", "SELECT", "JOIN", "TIME", "PAST", "FOREVER"}
Timed == {"TIME", "PAST", "FOREVER"}
Resume == {"user", "stop", "join", "limited_join", "value", "cleanup"}
Tags == {"none", "RAISE", "EXIT", "FATAL"}

(* The threads FOREACH_THREAD meets: started and not removed.              *)
Ring == {t \in Thread : status[t] \notin {"UNBORN", "KILLED"}}

Alone == next[curr_thread] = curr_thread

(***************************************************************************)
(* Init_Thread: the main thread is running, linked to itself, and has no   *)
(* saved context.                                                          *)
(***************************************************************************)
Init ==
    /\ status = [t \in Thread |-> IF t = main_thread THEN "RUNNABLE" ELSE "UNBORN"]
    /\ next = [t \in Thread |-> IF t = main_thread THEN main_thread ELSE Null]
    /\ prev = next
    /\ wait_for = [t \in Thread |-> {}]
    /\ join = [t \in Thread |-> Null]
    /\ fds = [t \in Thread |-> {}]
    /\ priority = [t \in Thread |-> 0]
    /\ context = [t \in Thread |-> "none"]
    /\ terminating = {} /\ raised = {}
    /\ last_status = [t \in Thread |-> "RUNNABLE"]
    /\ pc = [t \in Thread |-> "user"]
    /\ unwinding = [t \in Thread |-> "none"]
    /\ curr_thread = main_thread
    /\ critical = FALSE /\ scheduling = FALSE
    /\ fd_state = [f \in Fd |-> "idle"]
    /\ fatal = FALSE /\ jumped = FALSE
    /\ exited = "no"

-----------------------------------------------------------------------------
(* Building blocks.                                                        *)

(* The running thread is in interpreted code and may call the operation.   *)
MayCall(op) ==
    /\ exited = "no" /\ ~scheduling
    /\ pc[curr_thread] = "user"
    /\ op \in Calls

(* rb_thread_ready *)
ReadyStatus(t) == IF status[t] = "TO_KILL" THEN "TO_KILL" ELSE "RUNNABLE"
ReadyKeepsStatus(t) ==   \* mutant: only wait_for is reset
    /\ wait_for' = [wait_for EXCEPT ![t] = {}]
    /\ fds' = [fds EXCEPT ![t] = {}]
    /\ UNCHANGED status
Ready(t) ==
    /\ status' = [status EXCEPT ![t] = ReadyStatus(t)]
    /\ wait_for' = [wait_for EXCEPT ![t] = {}]
    /\ fds' = [fds EXCEPT ![t] = {}]

(* An exception in t: it leaves whatever call t is in.  An exception that  *)
(* reaches rb_thread_wait_other_threads ends ruby_cleanup (WaitOthers).    *)
Deliver(t, tag) ==
    /\ unwinding' = [unwinding EXCEPT ![t] = tag]
    /\ pc' = [pc EXCEPT ![t] = IF @ = "cleanup" THEN "cleanup" ELSE "user"]
    /\ last_status' = [last_status EXCEPT ![t] = "RUNNABLE"]

(* rb_raise in the running thread.                                         *)
RaiseHere(tag) ==
    /\ Deliver(curr_thread, tag)
    /\ UNCHANGED <<ring, waits, ends, curr_thread, scheduling>>

(* rb_thread_restore_context: what was saved is used up once t runs.       *)
Restore(ctx, t) == [ctx EXCEPT ![t] = "stale"]
(* THREAD_SAVE_CONTEXT of the running thread, if it is not dead.           *)
SaveNothing == context   \* mutant: the context is not saved
SaveCurr ==
    IF status[curr_thread] = "KILLED" THEN context
    ELSE [context EXCEPT ![curr_thread] = "saved"]

(* rb_thread_main_jump: the main thread runs, its status is not touched.   *)
(* jumped only notes whether it slept or waited.                           *)
Jumped == jumped \/ status[main_thread] = "STOPPED" \/ wait_for[main_thread] # {}
MainJump(tag, ctx) ==
    /\ curr_thread' = main_thread
    /\ context' = Restore(ctx, main_thread)
    /\ Deliver(main_thread, tag)

-----------------------------------------------------------------------------
(* Starting and ending threads.                                            *)

(* rb_thread_start_0, first half: the new thread enters the ring behind    *)
(* its creator and runs at once, also when rb_thread_critical is set.      *)
Start(t) ==
    /\ MayCall("start")
    /\ status[t] = "UNBORN"
    /\ status' = [status EXCEPT ![t] = "RUNNABLE"]
    /\ prev' = [prev EXCEPT ![next[curr_thread]] = t, ![t] = curr_thread]
    /\ next' = [next EXCEPT ![t] = next[curr_thread], ![curr_thread] = t]
    /\ priority' = [priority EXCEPT ![t] = priority[curr_thread]]
    /\ context' = [context EXCEPT ![curr_thread] = "saved", ![t] = "stale"]
    /\ curr_thread' = t
    /\ UNCHANGED <<waits, frames, ends, critical, scheduling, fd_state>>

(* rb_thread_remove and rb_thread_die *)
RemoveOneWay(t, st) ==   \* mutant: the backward link is not mended
    /\ status' = [st EXCEPT ![t] = "KILLED"]
    /\ next' = [next EXCEPT ![prev[t]] = next[t]]
    /\ prev' = prev
RemoveAndClear(t, st) == \* mutant: the links of the dead thread are cleared
    /\ status' = [st EXCEPT ![t] = "KILLED"]
    /\ next' = [next EXCEPT ![prev[t]] = next[t], ![t] = Null]
    /\ prev' = [prev EXCEPT ![next[t]] = prev[t], ![t] = Null]
Remove(t, st) ==
    /\ status' = [st EXCEPT ![t] = "KILLED"]
    /\ next' = [next EXCEPT ![prev[t]] = next[t]]
    /\ prev' = [prev EXCEPT ![next[t]] = prev[t]]

MayEnd ==
    /\ exited = "no" /\ ~scheduling
    /\ pc[curr_thread] = "user"
    /\ curr_thread # main_thread

EndedFrame ==
    /\ unwinding' = [unwinding EXCEPT ![curr_thread] = "none"]
    /\ UNCHANGED <<last_status, pc>>

EndedWaits ==
    /\ wait_for' = [wait_for EXCEPT ![curr_thread] = {}]
    /\ fds' = [fds EXCEPT ![curr_thread] = {}]
    /\ UNCHANGED join

(* rb_thread_start_0, second half, when the block returned, when the       *)
(* thread was being killed, or when it unwound with no exception.          *)
EndQuietly ==
    /\ MayEnd
    /\ \/ unwinding[curr_thread] \in {"none", "FATAL"}
       \/ status[curr_thread] = "TO_KILL"
    /\ Remove(curr_thread, status)
    /\ context' = [context EXCEPT ![curr_thread] = "none"]
    /\ EndedWaits /\ EndedFrame
    /\ scheduling' = TRUE
    /\ UNCHANGED <<priority, ends, curr_thread, critical, fd_state>>

(* ... when an exception left the block: kept for join, or the process     *)
(* ends on the main thread (Thread.abort_on_exception).                    *)
EndByException ==
    /\ MayEnd
    /\ unwinding[curr_thread] = "RAISE" /\ status[curr_thread] # "TO_KILL"
    /\ Remove(curr_thread, status)
    /\ EndedWaits /\ EndedFrame
    /\ \/ /\ raised' = raised \cup {curr_thread}
          /\ context' = [context EXCEPT ![curr_thread] = "none"]
          /\ scheduling' = TRUE
          /\ UNCHANGED <<exited, curr_thread>>
       \/ /\ "abort_on_exception" \in Calls
          /\ exited' = "abort"
          /\ curr_thread' = main_thread
          /\ context' = Restore([context EXCEPT ![curr_thread] = "none"], main_thread)
          /\ UNCHANGED <<raised, scheduling>>
    /\ UNCHANGED <<priority, terminating, fatal, jumped, critical, fd_state>>

(* THREAD_RAISED is set on a thread that dies of SystemExit or a fatal     *)
(* error; th->errinfo is what the last save of its context left there.     *)
MayHaveRaised == raised' \in {raised, raised \cup {curr_thread}}

(* ... when it was SystemExit: delegated to the main thread.               *)
EndByExit ==
    /\ MayEnd
    /\ unwinding[curr_thread] = "EXIT" /\ status[curr_thread] # "TO_KILL"
    /\ Remove(curr_thread, status)
    /\ EndedWaits
    /\ curr_thread' = main_thread
    /\ context' = Restore([context EXCEPT ![curr_thread] = "none"], main_thread)
    /\ unwinding' = [unwinding EXCEPT ![curr_thread] = "none", ![main_thread] = "EXIT"]
    /\ pc' = [pc EXCEPT ![main_thread] = IF @ = "cleanup" THEN "cleanup" ELSE "user"]
    /\ last_status' = [last_status EXCEPT ![main_thread] = "RUNNABLE"]
    /\ MayHaveRaised
    /\ jumped' = Jumped
    /\ UNCHANGED <<priority, terminating, fatal, exited, critical,
                   scheduling, fd_state>>

(* rb_thread_cleanup: everybody is made ready and, but for the main        *)
(* thread, is to be killed at priority 0.                                  *)
CleanupStatus ==
    [t \in Thread |-> IF t \notin Ring THEN status[t]
                      ELSE IF t = main_thread THEN ReadyStatus(t) ELSE "TO_KILL"]
CleanupPriority ==
    [t \in Thread |-> IF t \in Ring \ {main_thread} THEN 0 ELSE priority[t]]
Cleanup ==
    /\ wait_for' = [t \in Thread |-> {}]
    /\ fds' = [t \in Thread |-> {}]
    /\ priority' = CleanupPriority
    /\ UNCHANGED join

(* ... when TAG_FATAL left the block of a thread that no longer is to be   *)
(* killed, with $! set.                                                    *)
EndByFatal ==
    /\ MayEnd
    /\ unwinding[curr_thread] = "FATAL" /\ status[curr_thread] # "TO_KILL"
    /\ Remove(curr_thread, CleanupStatus)
    /\ Cleanup
    /\ context' = [context EXCEPT ![curr_thread] = "none"]
    /\ EndedFrame
    /\ MayHaveRaised
    /\ scheduling' = TRUE
    /\ UNCHANGED <<terminating, fatal, jumped, exited, curr_thread, critical, fd_state>>

(* The script ends: ruby_cleanup kills the other threads ...               *)
MainEnd ==
    /\ exited = "no" /\ ~scheduling
    /\ curr_thread = main_thread /\ pc[main_thread] = "user"
    /\ status' = CleanupStatus
    /\ Cleanup
    /\ unwinding' = [unwinding EXCEPT ![main_thread] = "none"]
    /\ pc' = [pc EXCEPT ![main_thread] = "cleanup"]
    /\ UNCHANGED <<next, prev, context, last_status, ends, curr_thread, critical,
                   scheduling, fd_state>>

(* ... and rb_thread_wait_other_threads schedules them until they are gone *)
(* or asleep.  An exception in the main thread ends the wait.              *)
WaitOthers ==
    /\ exited = "no" /\ ~scheduling
    /\ curr_thread = main_thread /\ pc[main_thread] = "cleanup"
    /\ LET over == \A t \in Ring \ {main_thread} : status[t] = "STOPPED"
       IN  \/ /\ unwinding[main_thread] # "none"
              /\ exited' = "abort" /\ UNCHANGED scheduling
           \/ /\ unwinding[main_thread] = "none" /\ over
              /\ exited' = "clean" /\ UNCHANGED scheduling
           \/ /\ unwinding[main_thread] = "none" /\ ~over
              /\ scheduling' = TRUE /\ UNCHANGED exited
    /\ UNCHANGED <<ring, waits, frames, terminating, raised, fatal, jumped, curr_thread,
                   critical, fd_state>>

(* A rescue clause takes the exception; a fatal unwinding is not rescued,  *)
(* and goes on if the exception was rescued in an ensure clause it runs.   *)
Rescue ==
    /\ MayCall("rescue")
    /\ unwinding[curr_thread] \in {"RAISE", "EXIT"}
    /\ \E tag \in {"none"} \cup (IF curr_thread \in terminating THEN {"FATAL"} ELSE {}) :
          unwinding' = [unwinding EXCEPT ![curr_thread] = tag]
    /\ UNCHANGED <<ring, waits, last_status, pc, ends, curr_thread, critical,
                   scheduling, fd_state>>

(* Kernel#raise and Kernel#exit in the running thread.                     *)
RaiseError ==
    /\ MayCall("error") /\ RaiseHere("RAISE") /\ UNCHANGED <<critical, fd_state>>
Exit ==
    /\ MayCall("exit") /\ RaiseHere("EXIT") /\ UNCHANGED <<critical, fd_state>>

-----------------------------------------------------------------------------
(* Operations that put the running thread to sleep.                        *)

(* status = THREAD_STOPPED with these flags and descriptors, then          *)
(* rb_thread_schedule.                                                     *)
Sleep(flags, fdset) ==
    /\ status' = [status EXCEPT ![curr_thread] = "STOPPED"]
    /\ wait_for' = [wait_for EXCEPT ![curr_thread] = flags]
    /\ fds' = [fds EXCEPT ![curr_thread] = fdset]
    /\ scheduling' = TRUE

(* The three tests of rb_thread_wait_fd, _fd_writable, _wait_for, _select: *)
(* when one fails the process itself blocks or polls, no thread switches.  *)
MaySwitch == ~critical /\ ~Alone /\ status[curr_thread] # "TO_KILL"

(* rb_thread_wait_fd; rb_thread_fd_writable; rb_thread_select with and     *)
(* without a timeout; rb_thread_wait_for.                                  *)
WaitFd(f) == MayCall("wait_fd") /\ MaySwitch /\ Sleep({"FD"}, {f})
FdWritable(f) == MayCall("fd_writable") /\ MaySwitch /\ Sleep({"SELECT"}, {f})
Select(fdset, timeout) == MayCall("select") /\ MaySwitch /\ Sleep({"SELECT"} \cup timeout, fdset)
WaitFor == MayCall("sleep") /\ MaySwitch /\ Sleep({"TIME"}, {})

(* rb_thread_sleep_forever does not look at rb_thread_critical.            *)
SleepForever ==
    MayCall("sleep_forever") /\ ~Alone /\ status[curr_thread] # "TO_KILL" /\ Sleep({"FOREVER"}, {})

(* rb_thread_polling looks at neither, and forgets THREAD_TO_KILL.         *)
Polling == MayCall("polling") /\ ~Alone /\ Sleep({"TIME"}, {})

Block ==
    /\ \/ \E f \in Fd : WaitFd(f) \/ FdWritable(f)
       \/ \E fdset \in (SUBSET Fd) \ {{}}, timeout \in {{}, {"TIME"}} : Select(fdset, timeout)
       \/ WaitFor \/ SleepForever \/ Polling
    /\ UNCHANGED <<next, prev, context, priority, join, frames, ends, curr_thread,
                   critical, fd_state>>

(* The local last_status of rb_thread_stop and rb_thread_join.             *)
LastStatusLate(st) == "STOPPED"    \* mutant: read after the assignment
LastStatusLost(st) == "RUNNABLE"   \* mutant: never set
LastStatus(st) == IF st = "TO_KILL" THEN "TO_KILL" ELSE "RUNNABLE"

(* rb_thread_stop: ThreadError in the only thread; else it sleeps until    *)
(* somebody makes it ready, keeping THREAD_TO_KILL in a local variable.    *)
Stop ==
    /\ MayCall("stop")
    /\ critical' = FALSE
    /\ \/ Alone /\ RaiseHere("RAISE")
       \/ /\ ~Alone
          /\ last_status' = [last_status EXCEPT ![curr_thread] = LastStatus(status[curr_thread])]
          /\ Sleep(wait_for[curr_thread], fds[curr_thread])
          /\ pc' = [pc EXCEPT ![curr_thread] = "stop"]
          /\ UNCHANGED <<next, prev, context, priority, join, unwinding, ends, curr_thread>>
    /\ UNCHANGED fd_state

(* The running thread comes back from rb_thread_schedule in operation op.  *)
Returned(op) ==
    /\ exited = "no" /\ ~scheduling
    /\ pc[curr_thread] = op

(* The local variable is gone when the operation returns.                  *)
ForgetStatus == last_status' = [last_status EXCEPT ![curr_thread] = "RUNNABLE"]

StopReturn ==
    /\ Returned("stop")
    /\ status' = [status EXCEPT ![curr_thread] = last_status[curr_thread]]
    /\ pc' = [pc EXCEPT ![curr_thread] = "user"]
    /\ ForgetStatus
    /\ UNCHANGED <<next, prev, context, priority, waits, unwinding, ends, curr_thread,
                   critical, scheduling, fd_state>>

(* The code leaves th->join behind; it is read only under WAIT_JOIN.       *)
ForgetJoin == join' = [join EXCEPT ![curr_thread] = IF "JOIN" \in wait_for[curr_thread]
                                                   THEN @ ELSE Null]

(* rb_thread_join of a dead thread, or after it died: its exception is     *)
(* raised here.                                                            *)
JoinDead(t) ==
    /\ unwinding' = [unwinding EXCEPT ![curr_thread] = IF t \in raised THEN "RAISE" ELSE @]
    /\ pc' = [pc EXCEPT ![curr_thread] = "user"]
    /\ ForgetJoin

(* rb_thread_join up to rb_thread_schedule; st is the status of the caller *)
(* and op the operation that calls.  No limit, one that is to pass, or 0.  *)
JoinAlive(t, op, st) ==
    /\ t # curr_thread
    /\ ~ ("JOIN" \in wait_for[t] /\ join[t] = curr_thread)
    /\ status' = [st EXCEPT ![curr_thread] = "STOPPED"]
    /\ last_status' = [last_status EXCEPT ![curr_thread] = LastStatus(st[curr_thread])]
    /\ join' = [join EXCEPT ![curr_thread] = t]
    /\ wait_for' = [wait_for EXCEPT ![curr_thread] =
                       {"JOIN"} \cup (IF op = "limited_join" THEN {"TIME"} ELSE {})]
    /\ pc' = [pc EXCEPT ![curr_thread] = op]
    /\ scheduling' = TRUE
    /\ UNCHANGED unwinding

(* joining itself or a thread that joins the caller: ThreadError           *)
JoinRefused(t, st) ==
    /\ t = curr_thread \/ ("JOIN" \in wait_for[t] /\ join[t] = curr_thread)
    /\ Deliver(curr_thread, "RAISE")
    /\ status' = st
    /\ ForgetJoin
    /\ UNCHANGED <<wait_for, scheduling>>

Join(t, op) ==
    /\ MayCall(op) /\ ~critical
    /\ status[t] # "UNBORN"
    /\ \/ /\ status[t] = "KILLED" /\ JoinDead(t)
          /\ UNCHANGED <<status, wait_for, last_status, scheduling>>
       \/ status[t] # "KILLED" /\ (JoinAlive(t, op, status) \/ JoinRefused(t, status))
    /\ UNCHANGED <<next, prev, context, priority, fds, ends, curr_thread, critical, fd_state>>

(* rb_thread_join in a critical section: rb_thread_deadlock, which leaves  *)
(* the caller without saving its context.                                  *)
JoinInCritical ==
    /\ MayCall("join_in_critical") /\ critical
    /\ MainJump("RAISE", context)
    /\ fatal' = TRUE /\ jumped' = Jumped
    /\ UNCHANGED <<status, next, prev, priority, waits, terminating, raised, exited,
                   critical, scheduling, fd_state>>

(* The rest of rb_thread_join, once the thread is scheduled again.         *)
JoinReturn ==
    /\ Returned("join") \/ Returned("limited_join")
    /\ status' = [status EXCEPT ![curr_thread] = last_status[curr_thread]]
    /\ \/ status[join[curr_thread]] = "KILLED" /\ JoinDead(join[curr_thread])
       \/ /\ status[join[curr_thread]] # "KILLED"
          /\ pc' = [pc EXCEPT ![curr_thread] = "user"]
          /\ ForgetJoin
          /\ UNCHANGED unwinding
    /\ ForgetStatus
    /\ UNCHANGED <<next, prev, context, priority, wait_for, fds, ends, curr_thread,
                   critical, scheduling, fd_state>>

(* rb_thread_value joins again as long as the thread is not dead.          *)
ValueReturn ==
    /\ Returned("value")
    /\ LET t == join[curr_thread]
           st == [status EXCEPT ![curr_thread] = last_status[curr_thread]]
       IN  \/ /\ status[t] = "KILLED"
              /\ status' = st
              /\ JoinDead(t) /\ ForgetStatus
              /\ UNCHANGED <<context, wait_for, curr_thread, scheduling, fatal, jumped>>
           \/ /\ status[t] # "KILLED" /\ ~critical
              /\ JoinAlive(t, "value", st) \/ JoinRefused(t, st)
              /\ UNCHANGED <<context, curr_thread, fatal, jumped>>
           \/ /\ status[t] # "KILLED" /\ critical
              /\ status' = st
              /\ MainJump("RAISE", context)
              /\ fatal' = TRUE /\ jumped' = Jumped
              /\ UNCHANGED <<wait_for, join, scheduling>>
    /\ UNCHANGED <<next, prev, priority, fds, terminating, raised, exited, critical, fd_state>>

-----------------------------------------------------------------------------
(* Operations on another thread.                                           *)

(* rb_thread_wakeup, and rb_thread_run, which also schedules.              *)
Wakeup(t) ==
    /\ MayCall("wakeup")
    /\ \/ status[t] = "KILLED" /\ RaiseHere("RAISE")
       \/ /\ t \in Ring
          /\ Ready(t)
          /\ scheduling' \in {FALSE, ~critical}
          /\ UNCHANGED <<next, prev, context, priority, join, frames, ends, curr_thread>>
    /\ UNCHANGED <<critical, fd_state>>

(* rb_thread_kill.  Killing the main thread, or the only one, is exit.     *)
Kill(t) ==
    /\ MayCall("kill")
    /\ status[t] \in {"RUNNABLE", "STOPPED"}
    /\ \/ /\ next[t] = t \/ t = main_thread
          /\ "exit" \in Calls
          /\ RaiseHere("EXIT")
       \/ /\ next[t] # t /\ t # main_thread
          /\ status' = [status EXCEPT ![t] = "TO_KILL"]
          /\ wait_for' = [wait_for EXCEPT ![t] = {}]
          /\ fds' = [fds EXCEPT ![t] = {}]
          /\ scheduling' = ~critical
          /\ UNCHANGED <<next, prev, context, priority, join, frames, ends, curr_thread>>
    /\ UNCHANGED <<critical, fd_state>>

(* rb_thread_raise: switches to the thread at once, bypassing the          *)
(* scheduler and rb_thread_critical.                                       *)
Raise(t) ==
    /\ MayCall("raise")
    /\ t \in Ring
    /\ Deliver(t, "RAISE")
    /\ \/ t = curr_thread /\ UNCHANGED <<status, wait_for, fds, context>>
       \/ t # curr_thread /\ Ready(t) /\ context' = Restore(SaveCurr, t)
    /\ curr_thread' = t
    /\ UNCHANGED <<next, prev, priority, join, ends, critical, scheduling, fd_state>>

(* rb_thread_priority_set schedules, also in a critical section.           *)
PrioritySet(t, p) ==
    /\ MayCall("priority_set")
    /\ status[t] # "UNBORN"
    /\ priority' = [priority EXCEPT ![t] = p]
    /\ scheduling' = TRUE
    /\ UNCHANGED <<status, next, prev, context, waits, frames, ends, curr_thread,
                   critical, fd_state>>

(* Thread.critical= *)
CriticalSet(b) ==
    /\ MayCall("critical")
    /\ critical' = b
    /\ UNCHANGED <<ring, waits, frames, ends, curr_thread, scheduling, fd_state>>

(* rb_thread_pass, and CHECK_INTS when the tick runs out: only outside a   *)
(* critical section.                                                       *)
Yield == scheduling' = TRUE /\ UNCHANGED <<ring, waits, frames, ends, curr_thread, critical, fd_state>>
Pass == MayCall("pass") /\ Yield
PreemptAnyway == MayCall("preempt") /\ Yield   \* mutant: rb_thread_critical is not looked at
Preempt == MayCall("preempt") /\ ~critical /\ Yield

-----------------------------------------------------------------------------
(* rb_thread_schedule.                                                     *)

(* The thread k links behind c.                                            *)
Walk(link, c) ==
    LET at[k \in 0 .. Cardinality(Thread)] ==
          IF k = 0 THEN c ELSE IF at[k-1] = Null THEN Null ELSE link[at[k-1]]
    IN  at

(* Where the scan of the ring starts: the running thread or, when it has   *)
(* just died, the nearest living predecessor.                              *)
Curr ==
    LET at == Walk(prev, curr_thread)
    IN  at[CHOOSE k \in DOMAIN at : /\ at[k] \in Ring
                                    /\ \A j \in 0 .. k-1 : at[j] \notin Ring]

(* The scan FOREACH_THREAD_FROM(curr) meets t before u; curr comes last.   *)
BeforeCurrFirst(t, u) ==   \* mutant: the scan starts with curr
    LET at == Walk(next, Curr)
    IN  \E k \in DOMAIN at : at[k] = t /\ \A j \in 0 .. k : at[j] # u
Before(t, u) ==
    LET at == Walk(next, Curr)
    IN  \E k \in DOMAIN at \ {0} : at[k] = t /\ \A j \in 1 .. k : at[j] # u

Stopped == {t \in Ring : status[t] = "STOPPED"}
JoinedAborting ==          \* mutant: the wrong status
    {t \in Stopped : "JOIN" \in wait_for[t] /\ status[join[t]] = "TO_KILL"}
JoinedAnyway ==            \* mutant: the joined thread is not looked at
    {t \in Stopped : "JOIN" \in wait_for[t]}
Joined == {t \in Stopped : "JOIN" \in wait_for[t] /\ status[join[t]] = "KILLED"}
TimedOut == {t \in Stopped : "PAST" \in wait_for[t]}
Polls(t) == wait_for[t] \cap {"FD", "SELECT"} # {}

(* found, need_select and select_timeout after the first scan              *)
Found == (Ring \ Stopped) \cup Joined \cup TimedOut # {}
NeedSelect == \E t \in Stopped : wait_for[t] \cap {"FD", "SELECT", "TIME", "FOREVER"} # {}
SelectTimeout == \E t \in Stopped : "SELECT" \in wait_for[t] /\ wait_for[t] \cap Timed # {}

(* select fails if it is asked about a bad descriptor; the sets it leaves  *)
(* behind are as they were, or without the bad descriptors.                *)
Asked == UNION {fds[t] : t \in {u \in Stopped : Polls(u)}}
Bad == {f \in Fd : fd_state[f] = "bad"}
SelectFails == Asked \cap Bad # {}
Left == IF SelectClears THEN Asked \ Bad ELSE Asked

(* find_bad_fds takes from a thread in select the descriptors that are not *)
(* left; if it finds one, the sets are used as if select had reported them.*)
Stripped == {t \in Ring : SelectFails /\ "SELECT" \in wait_for[t] /\ ~(fds[t] \subseteq Left)}
StrippedFds == [t \in Thread |-> IF t \in Stripped THEN fds[t] \cap Left ELSE fds[t]]
Reported == IF ~SelectFails THEN {f \in Asked : fd_state[f] = "ready"}
            ELSE IF Stripped # {} THEN Left ELSE {}

(* Only one thread is woken per descriptor: the first that waits for it.   *)
SelectedAll ==             \* mutant: everybody who waits for it
    {t \in Ring : Polls(t) /\ Reported \cap fds[t] # {}}
Selected == {t \in Ring : /\ Polls(t)
                          /\ \E f \in Reported \cap fds[t] :
                               \A u \in Ring \ {t} : Polls(u) /\ f \in fds[u] => Before(t, u)}
Expired == IF SelectTimeout /\ ~SelectFails /\ Reported = {}
           THEN {t \in Ring : {"SELECT", "PAST"} \subseteq wait_for[t]}
           ELSE {}

(* Nobody is woken: select blocks the process; or there is a delay, and    *)
(* also a select that fails is called again and again until it has passed. *)
Delay == \E t \in Stopped : "TIME" \in wait_for[t]
Blocked == /\ NeedSelect /\ ~Found /\ Selected = {}
           /\ Delay \/ (~SelectFails /\ Reported = {})

(* The thread states after the scans.                                      *)
ScannedIdle ==             \* mutant: delays are looked at only when idle
    [t \in Thread |-> IF \/ t \in Joined \cup Selected
                         \/ t \in TimedOut /\ Ring = Stopped
                      THEN "RUNNABLE" ELSE status[t]]
Scanned == [t \in Thread |-> IF t \in Joined \cup TimedOut \cup Selected \cup Expired
                             THEN "RUNNABLE" ELSE status[t]]
ScannedWait == [t \in Thread |-> IF t \in Selected \cup Expired THEN {} ELSE wait_for[t]]
ScannedFds == [t \in Thread |-> IF t \in Selected \cup Expired THEN {} ELSE StrippedFds[t]]

(* The candidates, and the one the last scan leaves in next: the first     *)
(* thread to be killed, else the first of the highest priority.            *)
ToKill == {t \in Ring : Scanned[t] = "TO_KILL"}
RunnableAny == {t \in Ring : context[t] # "none"}   \* mutant: no look at status
Runnable == {t \in Ring : Scanned[t] = "RUNNABLE" /\ context[t] # "none"}
IsNext(t) ==
    IF ToKill # {}
    THEN t \in ToKill /\ \A u \in ToKill \ {t} : Before(t, u)
    ELSE /\ t \in Runnable
         /\ \A u \in Runnable \ {t} : \/ priority[u] < priority[t]
                                      \/ priority[u] = priority[t] /\ Before(t, u)

(* The only thread goes on at once if it is runnable.                      *)
ScheduleAlone ==
    /\ exited = "no" /\ scheduling
    /\ Alone /\ status[curr_thread] = "RUNNABLE"
    /\ scheduling' = FALSE
    /\ UNCHANGED <<ring, waits, frames, ends, curr_thread, critical, fd_state>>

Schedules ==
    /\ exited = "no" /\ scheduling
    /\ ~(Alone /\ status[curr_thread] = "RUNNABLE")
    /\ ~Blocked
    /\ scheduling' = FALSE

(* The switch to t; the first time it is scheduled to be killed it resumes *)
(* with RESTORE_FATAL, which runs its ensure clauses.                      *)
ScheduleNext(t) ==
    /\ Schedules
    /\ IsNext(t)
    /\ status' = Scanned
    /\ wait_for' = [ScannedWait EXCEPT ![t] = {}]
    /\ fds' = [ScannedFds EXCEPT ![t] = {}]
    /\ curr_thread' = t
    /\ context' = IF t = curr_thread /\ Scanned[t] = "RUNNABLE" THEN context
                  ELSE Restore(SaveCurr, t)
    /\ \/ /\ Scanned[t] = "TO_KILL" /\ t \notin terminating
          /\ terminating' = terminating \cup {t}
          /\ Deliver(t, "FATAL")
       \/ /\ Scanned[t] # "TO_KILL" \/ t \in terminating
          /\ UNCHANGED <<terminating, frames>>
    /\ UNCHANGED <<next, prev, priority, join, raised, fatal, jumped, exited, critical,
                   fd_state>>

(* No candidate: "raise fatal error to main thread".  The context of the   *)
(* running thread is saved without setjmp.  The only thread pauses first,  *)
(* until a signal arrives; signals are not modelled.                       *)
ScheduleDeadlock ==
    /\ Schedules
    /\ ToKill \cup Runnable = {}
    /\ next[Curr] # Curr
    /\ status' = [Scanned EXCEPT ![main_thread] = "TO_KILL"]
    /\ wait_for' = [ScannedWait EXCEPT ![main_thread] = {}]
    /\ fds' = [ScannedFds EXCEPT ![main_thread] = {}]
    /\ MainJump("RAISE", IF status[curr_thread] = "KILLED" THEN context
                         ELSE Restore(context, curr_thread))
    /\ fatal' = TRUE
    /\ UNCHANGED <<next, prev, priority, join, terminating, raised, jumped, exited, critical,
                   fd_state>>

(* "goto again" behind a select that failed: find_bad_fds has done its part*)
(* nevertheless.                                                           *)
ScheduleAgain ==
    /\ exited = "no" /\ scheduling
    /\ Blocked /\ Stripped # {}
    /\ fds' = StrippedFds
    /\ UNCHANGED <<ring, wait_for, join, frames, ends, curr_thread, critical, scheduling,
                   fd_state>>

Schedule ==
    \/ ScheduleAlone \/ ScheduleDeadlock \/ ScheduleAgain
    \/ \E t \in Thread : ScheduleNext(t)

-----------------------------------------------------------------------------
(* The environment: a delay passes; a descriptor becomes ready, is drained,*)
(* or becomes one that select fails on.                                    *)
Tick(t) ==
    /\ exited = "no"
    /\ "TIME" \in wait_for[t]
    /\ wait_for' = [wait_for EXCEPT ![t] = (@ \ {"TIME"}) \cup {"PAST"}]
    /\ UNCHANGED <<ring, join, fds, frames, ends, curr_thread, critical, scheduling, fd_state>>

FdChange(f) ==
    /\ exited = "no"
    /\ \E s \in {"idle", "ready", "bad"} : fd_state' = [fd_state EXCEPT ![f] = s]
    /\ UNCHANGED <<ring, waits, frames, ends, curr_thread, critical, scheduling>>

Env == (\E t \in Thread : Tick(t)) \/ (\E f \in Fd : FdChange(f))

End == EndQuietly \/ EndByException \/ EndByExit \/ EndByFatal \/ MainEnd \/ WaitOthers

Return == StopReturn \/ JoinReturn \/ ValueReturn

Operation ==
    \/ Rescue \/ RaiseError \/ Exit
    \/ Block \/ Stop \/ Pass \/ JoinInCritical
    \/ \E b \in BOOLEAN : CriticalSet(b)
    \/ \E t \in Thread :
         \/ Start(t) \/ Wakeup(t) \/ Kill(t) \/ Raise(t)
         \/ \E op \in {"join", "limited_join", "value"} : Join(t, op)
         \/ \E p \in Prio : PrioritySet(t, p)

Next == Operation \/ Preempt \/ End \/ Return \/ Schedule \/ Env

Spec == Init /\ [][Next]_vars

(* CHECK_INTS is met again and again by interpreted code, and the process  *)
(* never stays in a C function of the scheduler: a step of it that can be  *)
(* taken is taken.  Nothing is assumed of the program or its environment.  *)
Fairness == WF_vars(Schedule) /\ WF_vars(Preempt) /\ WF_vars(Return) /\ WF_vars(WaitOthers)

FairSpec == Spec /\ Fairness

-----------------------------------------------------------------------------
(* Properties.                                                             *)

(* Every variable keeps its type.                                          *)
TypeOK ==
    /\ status \in [Thread -> Statuses]
    /\ next \in [Thread -> Thread \cup {Null}]
    /\ prev \in [Thread -> Thread \cup {Null}]
    /\ wait_for \in [Thread -> SUBSET Flags]
    /\ join \in [Thread -> Thread \cup {Null}]
    /\ fds \in [Thread -> SUBSET Fd]
    /\ priority \in [Thread -> Prio]
    /\ context \in [Thread -> {"none", "saved", "stale"}]
    /\ terminating \subseteq Thread /\ raised \subseteq Thread
    /\ last_status \in [Thread -> {"RUNNABLE", "TO_KILL"}]
    /\ pc \in [Thread -> Resume]
    /\ unwinding \in [Thread -> Tags]
    /\ curr_thread \in Thread
    /\ critical \in BOOLEAN /\ scheduling \in BOOLEAN
    /\ fatal \in BOOLEAN /\ jumped \in BOOLEAN
    /\ fd_state \in [Fd -> {"idle", "ready", "bad"}]
    /\ exited \in {"no", "clean", "abort"}

(* The living threads form one doubly linked cycle: rb_thread_start_0 and  *)
(* rb_thread_remove never lose a thread, and FOREACH_THREAD visits each.   *)
Linked == \A t \in Ring : /\ next[t] \in Ring /\ prev[next[t]] = t
                          /\ prev[t] \in Ring /\ next[prev[t]] = t
OneCycle == \A S \in SUBSET Ring : S # {} /\ (\A t \in S : next[t] \in S) => S = Ring
RingOK == main_thread \in Ring /\ Linked /\ OneCycle

(* curr_thread may be dead only inside the scheduler, and then its stale   *)
(* prev still leads into the ring: the loop "curr = curr->prev" of         *)
(* rb_thread_schedule ends.                                                *)
CurrOK == curr_thread \in Ring \/ (/\ scheduling /\ status[curr_thread] = "KILLED"
                                   /\ curr_thread # main_thread /\ prev[curr_thread] \in Ring)

(* rb_bug("unsaved context") cannot happen: whenever a switch is possible  *)
(* every living thread has a saved stack; and until a deadlock is reported *)
(* every thread that is not running is saved where it left off.            *)
ContextSaved ==
    /\ Ring # {curr_thread} => \A t \in Ring : context[t] # "none"
    /\ ~fatal => \A t \in Ring \ {curr_thread} : context[t] = "saved"

Executing == exited = "no" /\ ~scheduling /\ pc[curr_thread] = "user"

(* A thread that executes interpreted code is not asleep and waits for     *)
(* nothing, whichever way it came to run: by the scheduler, Thread#raise,  *)
(* Thread.new, or an exit or a deadlock delegated to the main thread.  The *)
(* one exception is a main thread that rb_thread_main_jump, which does not *)
(* make it ready, has found asleep.                                        *)
RunningAwake ==
    Executing /\ ~(jumped /\ curr_thread = main_thread)
      => status[curr_thread] # "STOPPED" /\ wait_for[curr_thread] = {}

(* The scheduler never resumes a thread that still sleeps: Thread.stop     *)
(* returns only after the thread was made ready.                           *)
SchedulesAwake ==
    [][scheduling /\ ~scheduling' => status'[curr_thread'] \in {"RUNNABLE", "TO_KILL"}]_vars

(* A kill is not forgotten: a thread that is to be killed stays so, over   *)
(* every sleep in its ensure clauses, until it is dead.  rb_thread_stop    *)
(* and rb_thread_join carry THREAD_TO_KILL over the sleep; otherwise       *)
(* rb_thread_start_0 takes the end of the thread for a fatal error of the  *)
(* whole script.  (The main thread is to be killed only after a deadlock.) *)
Doomed(t) ==
    \/ status[t] = "TO_KILL"
    \/ pc[t] \in {"stop", "join", "limited_join", "value"} /\ last_status[t] = "TO_KILL"
KillKept ==
    [][\A t \in Thread \ {main_thread} : Doomed(t) => Doomed(t)' \/ status'[t] = "KILLED"]_vars

(* The scheduler reports a deadlock only when every thread sleeps, none    *)
(* until a time, and none has joined a dead thread; and unless select has  *)
(* failed none waits for a descriptor, or for ever.  When select fails,    *)
(* the code goes on as if nobody waited for one.                           *)
DeadlockIsReal ==
    [][scheduling /\ fatal' /\ ~fatal =>
         \A t \in Ring : /\ status[t] = "STOPPED"
                         /\ wait_for[t] \cap {"TIME", "PAST"} = {}
                         /\ "JOIN" \in wait_for[t] => status[join[t]] # "KILLED"
                         /\ ~SelectFails => wait_for[t] \subseteq {"JOIN"}]_vars

(* "Wake up only one thread per fd": a thread the scheduler wakes for a    *)
(* descriptor has one that select reported and that is not the only one    *)
(* another thread is woken for.                                            *)
ByFd(t) == t \in Stopped \ (Joined \cup TimedOut) /\ status'[t] = "RUNNABLE"
FdWakesOne ==
    [][scheduling =>
         \A t \in Thread : ByFd(t) =>
            \E f \in fds[t] : /\ fd_state[f] = "ready" \/ SelectFails
                              /\ \A u \in Thread \ {t} : ByFd(u) => fds[u] # {f}]_vars

(* Thread#join without a limit does not return before the thread has died, *)
(* but in a thread that is being killed: there a second kill ends it.      *)
JoinWaits ==
    [][\A t \in Thread :
         curr_thread = t /\ ~scheduling /\ pc[t] = "join" /\ pc'[t] = "user" /\ t \notin terminating
           => status[join[t]] = "KILLED"]_vars

(* A kill is delivered: the thread gets to unwind, whoever else runs.      *)
(* (The main thread is to be killed only after a deadlock; it is running   *)
(* then, and may go to sleep again first.)                                 *)
KillDelivered ==
    \A t \in Thread \ {main_thread} : status[t] = "TO_KILL" ~> (t \in terminating \/ exited # "no")

(* A thread whose delay has passed is made runnable, whoever else runs.    *)
SleeperWakes ==
    \A t \in Thread : t \in TimedOut ~> (t \notin Stopped \/ exited # "no")

(* Round robin: a runnable thread of the highest priority gets the         *)
(* processor, unless a thread that is to be killed takes it in its ensure  *)
(* clauses.                                                                *)
Top(t) == /\ status[t] = "RUNNABLE"
          /\ \A u \in Ring : status[u] # "TO_KILL" /\ priority[u] <= priority[t]
NoStarvation ==
    \A t \in Thread : Top(t) ~> (curr_thread = t \/ ~Top(t) \/ exited # "no")
=============================================================================
