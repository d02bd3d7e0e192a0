------------------------------- MODULE Signals -------------------------------
(***************************************************************************)
(* Signals (ruby/signal.c, ruby/rubysig.h, and the trap entries of         *)
(* ruby/eval.c).  A signal may arrive between any two steps.  Inside a     *)
(* system call (TRAP_BEG ... TRAP_END) its trap runs at once, in the C     *)
(* signal handler; elsewhere it is noted, and CHECK_INTS runs the trap     *)
(* later.  Traps run on the stack of the main thread, on top of whatever   *)
(* it is doing, whichever thread the signal meets; they are Ruby code, and *)
(* may make system calls, switch threads, be interrupted, or raise.        *)
(*                                                                         *)
(* stack[t] holds the activations of t that matter, the top one last:      *)
(* Ruby code of the program ("user"), of a trap ("handler") or with        *)
(* interrupts disabled ("deferred"); a system call; Thread.stop; and       *)
(* sighandler and rb_trap_exec, waiting for the trap they have started.    *)
(* There are no signal masks in the VMS build (neither POSIX_SIGNAL nor    *)
(* BSD_SIGNAL), so that a signal may interrupt its own handler.            *)
(***************************************************************************)
EXTENDS Naturals, Sequences, FiniteSets

CONSTANTS Thread, main_thread,
          NSIG,          \* signals are 1 .. NSIG - 1
          MaxSignals,    \* bound: signals that arrive
          MaxStack       \* bound: no new call above it

ASSUME SignalAssumption ==
    main_thread \in Thread /\ NSIG \in Nat /\ MaxSignals \in Nat /\ MaxStack \in Nat

Sig == 1 .. NSIG - 1

VARIABLES rb_trap_immediate,
          rb_trap_pending,       \* whether it is not 0
          trap_pending_list,     \* the signals whose entry is not 0
          rb_prohibit_interrupt,
          trap_list,             \* the signals with a command
          ignored,               \* the signals set to SIG_IGN
          curr, status, stack,
          flags,                 \* rb_trap_immediate of a thread that does not run
          over,                  \* rb_thread_schedule has found nobody to run
          signals,               \* the number of signals that have arrived
          passed                 \* of trap_pending_list: arrived behind the index of a loop

traps == <<trap_list, ignored>>
notes == <<rb_trap_pending, trap_pending_list, passed>>
threads == <<curr, status, flags, over>>
vars == <<rb_trap_immediate, notes, rb_prohibit_interrupt, traps, threads, stack, signals>>

(* immediate: the local trap_immediate of TRAP_BEG; sig: of sighandler, or *)
(* the index of rb_trap_exec; save: the status rb_trap_eval has saved.     *)
(* Not in the code: woken, whether the thread was woken since Thread.stop. *)
Frame(k) == [kind |-> k, immediate |-> FALSE, sig |-> 0, save |-> "RUNNABLE", woken |-> FALSE]

Init ==
    /\ rb_trap_immediate = FALSE /\ rb_trap_pending = FALSE /\ trap_pending_list = {}
    /\ rb_prohibit_interrupt = 0
    /\ trap_list = {} /\ ignored = {}
    /\ curr = main_thread
    /\ status = [t \in Thread |-> "RUNNABLE"]
    /\ stack = [t \in Thread |-> <<Frame("user")>>]
    /\ flags = [t \in Thread |-> FALSE]
    /\ over = FALSE /\ signals = 0 /\ passed = {}

-----------------------------------------------------------------------------
Last(s) == s[Len(s)]
Push(s, f) == Append(s, f)
Drop(s) == SubSeq(s, 1, Len(s) - 1)

Top == Last(stack[curr])
RubyCode == {"user", "handler", "deferred"}
InRuby == ~over /\ Top.kind \in RubyCode
Room == Len(stack[curr]) < MaxStack

(* THREAD_SAVE_CONTEXT and rb_thread_restore_context, with the value of    *)
(* rb_trap_immediate at the switch.                                        *)
SwitchTo(t) ==
    /\ curr' = t
    /\ flags' = [flags EXCEPT ![curr] = IF t = curr THEN @ ELSE rb_trap_immediate]
    /\ rb_trap_immediate' = IF t = curr THEN rb_trap_immediate ELSE flags[t]

(* rb_thread_schedule, with the statuses st                                *)
Schedule(st) ==
    /\ status' = st
    /\ \/ \E t \in Thread : st[t] = "RUNNABLE" /\ SwitchTo(t) /\ UNCHANGED over
       \/ /\ \A t \in Thread : st[t] # "RUNNABLE"
          /\ over' = TRUE
          /\ UNCHANGED <<curr, flags, rb_trap_immediate>>

(* An exception leaves frames of the main thread's stack s, and is rescued *)
(* in Ruby code.  On its way it ends traps: rb_trap_eval puts the status   *)
(* back, and goes on with the exception.                                   *)
Kept(s, k) == SubSeq(s, 1, k)
Left(s, k, kind) == {i \in k + 1 .. Len(s) : s[i].kind = kind}
Unwind(s, k) ==
    LET ended == Left(s, k, "handler")
        first == CHOOSE i \in ended : \A j \in ended : i <= j
    IN  /\ s[k].kind \in RubyCode
        /\ rb_prohibit_interrupt' = rb_prohibit_interrupt - Cardinality(Left(s, k, "deferred"))
        /\ status' = [status EXCEPT ![main_thread] =
                         IF ended = {} THEN "RUNNABLE" ELSE s[first].save]

-----------------------------------------------------------------------------
(* signal_exec, on the stacks stk of which that of curr has a frame for    *)
(* its caller, and with the value imm of rb_trap_immediate                 *)

(* rb_thread_interrupt and rb_thread_signal_raise                          *)
RaiseInMain(stk, imm) ==
    \E k \in 1 .. Len(stk[main_thread]) :
        LET s == stk[main_thread]
        IN  /\ Unwind(s, k)
            /\ stack' = [stk EXCEPT ![main_thread] = Kept(s, k)]
            /\ curr' = main_thread
            /\ flags' = [flags EXCEPT ![curr] = IF curr = main_thread THEN @ ELSE imm]
            /\ rb_trap_immediate' =
                 (Left(s, k, "handler") = {} /\ IF curr = main_thread THEN imm ELSE flags[main_thread])

(* rb_thread_trap_eval, rb_thread_switch and rb_trap_eval                  *)
TrapEval(stk, imm) ==
    /\ stack' = [stk EXCEPT ![main_thread] =
                    Push(@, [Frame("handler") EXCEPT !.save = status[main_thread]])]
    /\ status' = [status EXCEPT ![main_thread] = "RUNNABLE"]
    /\ curr' = main_thread
    /\ flags' = [flags EXCEPT ![curr] = IF curr = main_thread THEN @ ELSE imm]
    /\ rb_trap_immediate' = IF curr = main_thread THEN imm ELSE flags[main_thread]
    /\ UNCHANGED rb_prohibit_interrupt

signal_exec(s, stk, imm) ==
    /\ \/ s \notin trap_list /\ RaiseInMain(stk, imm)
       \/ s \in trap_list /\ TrapEval(stk, imm)
    /\ UNCHANGED over

(* sighandler *)
ImmediateKept == TRUE      \* mutant: rb_trap_immediate is tested, not reset
ImmediateTested == FALSE
ScanBehind(s) == \E t \in Thread : \E i \in 1 .. Len(stack[t]) :
                     stack[t][i].kind = "scan" /\ stack[t][i].sig >= s
sighandler(s) ==
    /\ ~over /\ signals < MaxSignals /\ s \notin ignored
    /\ signals' = signals + 1
    /\ \/ /\ rb_trap_immediate
          /\ signal_exec(s, [stack EXCEPT ![curr] = Push(@, [Frame("async") EXCEPT !.sig = s])],
                         ImmediateTested)
          /\ UNCHANGED notes
       \/ /\ ~rb_trap_immediate
          /\ rb_trap_pending' = TRUE
          /\ trap_pending_list' = trap_pending_list \cup {s}
          /\ passed' = IF ScanBehind(s) THEN passed \cup {s} ELSE passed
          /\ UNCHANGED <<rb_trap_immediate, threads, stack, rb_prohibit_interrupt>>
    /\ UNCHANGED traps

(* Its end, back in the system call.                                       *)
AsyncReturn ==
    /\ ~over /\ Top.kind = "async"
    /\ rb_trap_immediate' = TRUE
    /\ stack' = [stack EXCEPT ![curr] = Drop(@)]
    /\ UNCHANGED <<notes, rb_prohibit_interrupt, traps, threads, signals>>

(* rb_trap_exec: the next signal of the list, or the end of the loop       *)
ScanNext ==
    /\ ~over /\ Top.kind = "scan" /\ Top.sig < NSIG
    /\ LET later == {s \in trap_pending_list : s > Top.sig}
           i == IF later = {} THEN NSIG ELSE CHOOSE s \in later : \A r \in later : s <= r
           stk == [stack EXCEPT ![curr] = Push(Drop(@), [Top EXCEPT !.sig = i])]
       IN  /\ trap_pending_list' = trap_pending_list \ {i}
           /\ passed' = passed \ {i}
           /\ \/ later # {} /\ signal_exec(i, stk, rb_trap_immediate)
              \/ /\ later = {} /\ stack' = stk
                 /\ UNCHANGED <<rb_trap_immediate, threads, rb_prohibit_interrupt>>
    /\ UNCHANGED <<rb_trap_pending, traps, signals>>

(* rb_trap_pending = 0 *)
ScanEnd ==
    /\ ~over /\ Top.kind = "scan" /\ Top.sig = NSIG
    /\ rb_trap_pending' = FALSE
    /\ stack' = [stack EXCEPT ![curr] = Drop(@)]
    /\ UNCHANGED <<trap_pending_list, passed, rb_trap_immediate, rb_prohibit_interrupt, traps,
                   threads, signals>>

(* CHECK_INTS, on the stack s *)
Checked(s, prohibit) ==
    IF prohibit = 0 /\ rb_trap_pending THEN Push(s, Frame("scan")) ELSE s
CheckIntsEarly ==          \* mutant: rb_trap_pending is reset before the loop
    /\ InRuby /\ rb_prohibit_interrupt = 0 /\ rb_trap_pending
    /\ stack' = [stack EXCEPT ![curr] = Checked(@, 0)]
    /\ rb_trap_pending' = FALSE
    /\ UNCHANGED <<rb_trap_immediate, trap_pending_list, passed, rb_prohibit_interrupt, traps, threads,
                   signals>>
CHECK_INTS ==
    /\ InRuby /\ rb_prohibit_interrupt = 0 /\ rb_trap_pending
    /\ stack' = [stack EXCEPT ![curr] = Checked(@, 0)]
    /\ UNCHANGED <<rb_trap_immediate, notes, rb_prohibit_interrupt, traps, threads, signals>>

(* The trap returns: the status is put back, and a thread that had stopped *)
(* stops again.                                                            *)
HandlerEndRuns ==          \* mutant: it goes on
    /\ ~over /\ Top.kind = "handler"
    /\ stack' = [stack EXCEPT ![curr] = Drop(@)]
    /\ status' = [status EXCEPT ![curr] = Top.save]
    /\ UNCHANGED <<curr, flags, over, rb_trap_immediate>>
    /\ UNCHANGED <<notes, rb_prohibit_interrupt, traps, signals>>
HandlerEnd ==
    /\ ~over /\ Top.kind = "handler"
    /\ stack' = [stack EXCEPT ![curr] = Drop(@)]
    /\ LET st == [status EXCEPT ![curr] = Top.save]
       IN  \/ Top.save = "STOPPED" /\ Schedule(st)
           \/ /\ Top.save # "STOPPED" /\ status' = st
              /\ UNCHANGED <<curr, flags, over, rb_trap_immediate>>
    /\ UNCHANGED <<notes, rb_prohibit_interrupt, traps, signals>>

(* An exception leaves it.                                                 *)
HandlerRaise ==
    /\ ~over /\ Top.kind = "handler"
    /\ \E k \in 1 .. Len(stack[curr]) - 1 :
         /\ Unwind(stack[curr], k)
         /\ stack' = [stack EXCEPT ![curr] = Kept(@, k)]
    /\ rb_trap_immediate' = FALSE
    /\ UNCHANGED <<notes, traps, curr, flags, over, signals>>

-----------------------------------------------------------------------------
(* What Ruby code does                                                     *)

(* trap: a command, "IGNORE" or "DEFAULT"                                  *)
trap(s) ==
    /\ InRuby
    /\ \/ s \notin trap_list /\ trap_list' = trap_list \cup {s} /\ ignored' = ignored \ {s}
       \/ trap_list' = trap_list \ {s} /\ ignored' = ignored \cup {s}
       \/ trap_list' = trap_list \ {s} /\ ignored' = ignored \ {s}
    /\ UNCHANGED <<rb_trap_immediate, notes, rb_prohibit_interrupt, threads, stack, signals>>

TRAP_BEG ==
    /\ InRuby /\ Room
    /\ stack' = [stack EXCEPT ![curr] =
                    Push(@, [Frame("syscall") EXCEPT !.immediate = rb_trap_immediate])]
    /\ rb_trap_immediate' = TRUE
    /\ UNCHANGED <<notes, rb_prohibit_interrupt, traps, threads, signals>>
TRAP_END ==
    /\ ~over /\ Top.kind = "syscall"
    /\ rb_trap_immediate' = Top.immediate
    /\ stack' = [stack EXCEPT ![curr] = Checked(Drop(@), rb_prohibit_interrupt)]
    /\ UNCHANGED <<notes, rb_prohibit_interrupt, traps, threads, signals>>

(* rb_with_disable_interrupt *)
DEFER_INTS ==
    /\ InRuby /\ Room
    /\ rb_prohibit_interrupt' = rb_prohibit_interrupt + 1
    /\ stack' = [stack EXCEPT ![curr] = Push(@, Frame("deferred"))]
    /\ UNCHANGED <<rb_trap_immediate, notes, traps, threads, signals>>
ENABLE_INTS ==
    /\ ~over /\ Top.kind = "deferred"
    /\ rb_prohibit_interrupt' = rb_prohibit_interrupt - 1
    /\ stack' = [stack EXCEPT ![curr] = Drop(@)]
    /\ UNCHANGED <<rb_trap_immediate, notes, traps, threads, signals>>

(* Thread.pass, Thread.stop and its return, Thread#wakeup                  *)
rb_thread_pass ==
    /\ InRuby /\ Schedule(status)
    /\ UNCHANGED <<notes, rb_prohibit_interrupt, traps, stack, signals>>
rb_thread_stop ==
    /\ InRuby /\ Room
    /\ stack' = [stack EXCEPT ![curr] = Push(@, Frame("stop"))]
    /\ Schedule([status EXCEPT ![curr] = "STOPPED"])
    /\ UNCHANGED <<notes, rb_prohibit_interrupt, traps, signals>>
StopReturn ==
    /\ ~over /\ Top.kind = "stop"
    /\ stack' = [stack EXCEPT ![curr] = Drop(@)]
    /\ status' = [status EXCEPT ![curr] = "RUNNABLE"]
    /\ UNCHANGED <<rb_trap_immediate, notes, rb_prohibit_interrupt, traps, curr, flags, over,
                   signals>>
Woken(s) == [i \in 1 .. Len(s) |-> [s[i] EXCEPT !.woken = @ \/ s[i].kind = "stop"]]
rb_thread_wakeup(t) ==
    /\ InRuby /\ t # curr
    /\ status' = [status EXCEPT ![t] = "RUNNABLE"]
    /\ stack' = [stack EXCEPT ![t] = Woken(@)]
    /\ UNCHANGED <<rb_trap_immediate, notes, rb_prohibit_interrupt, traps, curr, flags, over,
                   signals>>

Next ==
    \/ \E s \in Sig : sighandler(s) \/ trap(s)
    \/ AsyncReturn \/ ScanNext \/ ScanEnd \/ CHECK_INTS \/ HandlerEnd \/ HandlerRaise
    \/ TRAP_BEG \/ TRAP_END \/ DEFER_INTS \/ ENABLE_INTS
    \/ rb_thread_pass \/ rb_thread_stop \/ StopReturn
    \/ \E t \in Thread : rb_thread_wakeup(t)

Spec == Init /\ [][Next]_vars

-----------------------------------------------------------------------------
(* Properties.                                                             *)

(* A trap runs asynchronously only inside a system call: whatever nests,   *)
(* is switched or unwound, rb_trap_immediate is set exactly while the      *)
(* running thread is in one, never in the interpreter's own code.          *)
ImmediateInSyscall == ~over => (rb_trap_immediate <=> Top.kind = "syscall")

(* A signal in the list is noticed by the next CHECK_INTS: rb_trap_pending *)
(* is set, also after a trap has left the loop by an exception.  Only a    *)
(* signal that arrives behind the index of a loop may be overlooked, since *)
(* the loop has still to reset rb_trap_pending.                            *)
PendingNoticed == trap_pending_list # {} => rb_trap_pending \/ trap_pending_list \subseteq passed

(* Thread.stop returns only in a thread woken since: a trap that runs      *)
(* on the stack of the stopped main thread does not wake it.               *)
StopsUntilWoken == [][StopReturn => Top.woken]_vars
=============================================================================
