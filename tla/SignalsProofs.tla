---------------------------- MODULE SignalsProofs ----------------------------
(***************************************************************************)
(* What holds of signals for every number of threads, signals and nested   *)
(* calls.  The invariant describes a stack frame by frame: sighandler is   *)
(* entered from a system call and nowhere else, and the only thing that    *)
(* runs on top of a thread asleep in Thread.stop is a trap, which has      *)
(* saved THREAD_STOPPED.                                                   *)
(***************************************************************************)
EXTENDS Signals, TLAPS, SequenceTheorems, WellFoundedInduction

Kinds == RubyCode \cup {"syscall", "stop", "async", "scan"}
Frames == [kind : Kinds, immediate : BOOLEAN, sig : 0 .. NSIG,
           save : {"RUNNABLE", "STOPPED"}, woken : BOOLEAN]

TypeInv ==
    /\ curr \in Thread
    /\ status \in [Thread -> {"RUNNABLE", "STOPPED"}]
    /\ stack \in [Thread -> Seq(Frames)]
    /\ flags \in [Thread -> BOOLEAN]
    /\ {rb_trap_immediate, rb_trap_pending, over} \subseteq BOOLEAN
    /\ passed \subseteq trap_pending_list
    /\ trap_pending_list \subseteq Sig

Asleep(f) == f.kind = "stop" /\ ~f.woken

(* Frame g may stand on frame f, s may be the stack of thread t.           *)
Over(f, g) ==
    /\ f.kind = "syscall" <=> g.kind = "async"
    /\ Asleep(f) => g.kind = "handler" /\ g.save = "STOPPED"

Good(t, s) ==
    /\ Len(s) >= 1 /\ s[1].kind = "user"
    /\ \A i \in 1 .. Len(s) : ~s[i].immediate /\ (s[i].kind = "handler" => t = main_thread)
    /\ \A i \in 1 .. Len(s) - 1 : Over(s[i], s[i + 1])

(* The loops of s have left no signal of list behind but those in pass.    *)
Behind(s, list, pass) ==
    \A i \in 1 .. Len(s) : s[i].kind = "scan" => \A g \in list : g <= s[i].sig => g \in pass

Stacks == \A t \in Thread : Good(t, stack[t]) /\ Behind(stack[t], trap_pending_list, passed)

(* A thread that does not run is not in a system call, a thread asleep is  *)
(* stopped and does not run.                                               *)
Tops ==
    \A t \in Thread :
        /\ t # curr => Last(stack[t]).kind # "syscall"
        /\ Asleep(Last(stack[t])) => status[t] = "STOPPED" /\ (t = curr => over)

Flags == \A t \in Thread : ~flags[t]

SignalInv == TypeInv /\ Stacks /\ Tops /\ Flags /\ ImmediateInSyscall /\ PendingNoticed

-----------------------------------------------------------------------------
LEMMA Smallest ==
    ASSUME NEW T \in SUBSET Nat, T # {}
    PROVE  \E x \in T : \A y \in T : x <= y
  <1>1. \E x \in T : \A y \in T : ~ (<<y, x>> \in OpToRel(<, Nat))
    BY NatLessThanWellFounded, WFMin, Zenon
  <1>2. \A x, y \in Nat : y < x => <<y, x>> \in OpToRel(<, Nat)
    BY Zenon DEF OpToRel
  <1>3. \E R : /\ \E x \in T : \A y \in T : ~ (<<y, x>> \in R)
               /\ \A x, y \in Nat : y < x => <<y, x>> \in R
    BY <1>1, <1>2, Zenon
  <1>4. PICK R : /\ \E x \in T : \A y \in T : ~ (<<y, x>> \in R)
                 /\ \A x, y \in Nat : y < x => <<y, x>> \in R
    BY <1>3, Zenon
  <1>5. ASSUME NEW x \in T, NEW y \in T, ~ (<<y, x>> \in R) PROVE x <= y
    BY <1>4, <1>5
  <1> QED BY <1>4, <1>5, Zenon

LEMMA NewFrame ==
    /\ \A k \in Kinds : /\ Frame(k) \in Frames /\ Frame(k).kind = k /\ ~Frame(k).immediate
                        /\ Frame(k).sig = 0 /\ ~Frame(k).woken
    /\ \A v \in {"RUNNABLE", "STOPPED"} :
          LET h == [Frame("handler") EXCEPT !.save = v]
          IN  h \in Frames /\ h.kind = "handler" /\ ~h.immediate /\ h.save = v
    /\ \A v \in 0 .. NSIG :
          LET a == [Frame("async") EXCEPT !.sig = v]
          IN  a \in Frames /\ a.kind = "async" /\ ~a.immediate
    /\ \A f \in Frames : \A v \in 0 .. NSIG :
          LET g == [f EXCEPT !.sig = v]
          IN  /\ g \in Frames /\ g.sig = v
              /\ g.kind = f.kind /\ g.immediate = f.immediate /\ g.save = f.save
    /\ \A v \in BOOLEAN :
          LET c == [Frame("syscall") EXCEPT !.immediate = v]
          IN  c \in Frames /\ c.kind = "syscall" /\ c.immediate = v
  <1> USE SignalAssumption DEF Frames, Kinds, RubyCode
  <1>1. \A k \in Kinds : /\ Frame(k) \in Frames /\ Frame(k).kind = k /\ ~Frame(k).immediate
                         /\ Frame(k).sig = 0 /\ ~Frame(k).woken
    BY DEF Frame
  <1>2. \A f \in Frames : \A v \in 0 .. NSIG :
          /\ [f EXCEPT !.sig = v] \in Frames /\ [f EXCEPT !.sig = v].sig = v
          /\ [f EXCEPT !.sig = v].kind = f.kind
          /\ [f EXCEPT !.sig = v].immediate = f.immediate
          /\ [f EXCEPT !.sig = v].save = f.save
    OBVIOUS
  <1>3. \A f \in Frames : \A v \in {"RUNNABLE", "STOPPED"} :
          /\ [f EXCEPT !.save = v] \in Frames /\ [f EXCEPT !.save = v].save = v
          /\ [f EXCEPT !.save = v].kind = f.kind
          /\ [f EXCEPT !.save = v].immediate = f.immediate
    OBVIOUS
  <1>4. \A f \in Frames : \A v \in BOOLEAN :
          /\ [f EXCEPT !.immediate = v] \in Frames /\ [f EXCEPT !.immediate = v].immediate = v
          /\ [f EXCEPT !.immediate = v].kind = f.kind
    OBVIOUS
  <1>5. {"handler", "async", "syscall"} \subseteq Kinds
    OBVIOUS
  <1> HIDE DEF Frames, Kinds
  <1> QED BY <1>1, <1>2, <1>3, <1>4, <1>5

(* What a push, an unwinding and a wakeup make of a stack.                 *)
LEMMA PushGood ==
    ASSUME NEW t, NEW s \in Seq(Frames), Good(t, s), NEW f \in Frames, ~f.immediate,
           Over(Last(s), f),
           NEW list, NEW pass, Behind(s, list, pass),
           f.kind = "scan" => \A g \in list : g <= f.sig => g \in pass,
           f.kind = "handler" => t = main_thread
    PROVE  /\ Push(s, f) \in Seq(Frames) /\ Last(Push(s, f)) = f
           /\ Good(t, Push(s, f)) /\ Behind(Push(s, f), list, pass)
  <1> DEFINE p == Append(s, f)
  <1>1. /\ p \in Seq(Frames) /\ Len(s) \in Nat /\ Len(p) = Len(s) + 1
        /\ p[Len(s) + 1] = f /\ \A i \in 1 .. Len(s) : p[i] = s[i]
    BY AppendProperties, LenProperties
  <1> HIDE DEF p
  <1>2. Last(p) = f
    BY <1>1 DEF Last
  <1>3. \A i \in 1 .. Len(p) - 1 : Over(p[i], p[i + 1])
    <2> SUFFICES ASSUME NEW i \in 1 .. Len(p) - 1 PROVE Over(p[i], p[i + 1])
      OBVIOUS
    <2>1. CASE i = Len(s)
      BY <1>1, <2>1 DEF Last
    <2>2. CASE i # Len(s)
      <3>1. i \in 1 .. Len(s) - 1 /\ i \in 1 .. Len(s) /\ i + 1 \in 1 .. Len(s)
        BY <1>1, <2>2
      <3> QED BY <1>1, <3>1 DEF Good
    <2> QED BY <2>1, <2>2
  <1>4. \A i \in 1 .. Len(p) : i \in 1 .. Len(s) \/ p[i] = f
    BY <1>1
  <1>5. Good(t, p)
    <2>1. 1 \in 1 .. Len(s)
      BY <1>1 DEF Good
    <2>2. \A i \in 1 .. Len(p) : ~p[i].immediate /\ (p[i].kind = "handler" => t = main_thread)
      <3> SUFFICES ASSUME NEW i \in 1 .. Len(p)
                   PROVE  ~p[i].immediate /\ (p[i].kind = "handler" => t = main_thread)
        OBVIOUS
      <3>1. CASE p[i] = f
        BY <3>1
      <3>2. CASE i \in 1 .. Len(s)
        BY <1>1, <3>2 DEF Good
      <3> QED BY <1>4, <3>1, <3>2
    <2> QED BY <1>1, <1>3, <2>1, <2>2 DEF Good
  <1>6. Behind(p, list, pass)
    BY <1>1, <1>4 DEF Behind
  <1> QED BY <1>1, <1>2, <1>5, <1>6 DEF p, Push

LEMMA KeptGood ==
    ASSUME NEW t, NEW s \in Seq(Frames), Good(t, s), NEW k \in 1 .. Len(s),
           NEW list, NEW pass, Behind(s, list, pass)
    PROVE  /\ Kept(s, k) \in Seq(Frames) /\ Last(Kept(s, k)) = s[k]
           /\ Good(t, Kept(s, k)) /\ Behind(Kept(s, k), list, pass)
  <1> DEFINE p == SubSeq(s, 1, k)
  <1>1. Len(s) \in Nat /\ k \in Int /\ \A i \in 1 .. k : i \in 1 .. Len(s) /\ s[i] \in Frames
    BY LenProperties, ElementOfSeq
  <1>2. /\ p \in Seq(Frames) /\ Len(p) = k
        /\ \A i \in 1 .. k : p[i] = s[i]
    <2>1. /\ p \in Seq(Frames) /\ Len(p) = IF 1 <= k THEN k - 1 + 1 ELSE 0
          /\ \A i \in 1 .. k - 1 + 1 : p[i] = s[1 + i - 1]
      BY <1>1, SubSeqProperties
    <2> QED BY <1>1, <2>1
  <1> HIDE DEF p
  <1>3. Last(p) = s[k]
    BY <1>2 DEF Last
  <1>4. Good(t, p)
    <2>1. \A i \in 1 .. k - 1 : i \in 1 .. Len(s) - 1 /\ i \in 1 .. k /\ i + 1 \in 1 .. k
      BY <1>1
    <2>2. \A i \in 1 .. k : ~p[i].immediate /\ (p[i].kind = "handler" => t = main_thread)
      BY <1>1, <1>2 DEF Good
    <2>3. \A i \in 1 .. k - 1 : Over(p[i], p[i + 1])
      BY <1>2, <2>1 DEF Good
    <2> QED BY <1>1, <1>2, <2>2, <2>3 DEF Good
  <1>5. Behind(p, list, pass)
    BY <1>1, <1>2 DEF Behind
  <1> QED BY <1>2, <1>3, <1>4, <1>5 DEF p, Kept

LEMMA DropGood ==
    ASSUME NEW t, NEW s \in Seq(Frames), Good(t, s), Last(s).kind # "user",
           NEW list, NEW pass, Behind(s, list, pass)
    PROVE  /\ Drop(s) \in Seq(Frames) /\ Over(Last(Drop(s)), Last(s))
           /\ Good(t, Drop(s)) /\ Behind(Drop(s), list, pass)
           /\ Last(Drop(s)) \in Frames /\ ~Last(Drop(s)).immediate
  <1>1. Len(s) \in Nat /\ Len(s) - 1 \in 1 .. Len(s) /\ Drop(s) = Kept(s, Len(s) - 1)
    BY LenProperties DEF Good, Last, Drop, Kept
  <1>2. Over(s[Len(s) - 1], Last(s))
    BY <1>1 DEF Good, Last
  <1>3. s[Len(s) - 1] \in Frames /\ ~s[Len(s) - 1].immediate
    BY <1>1, ElementOfSeq DEF Good
  <1> QED BY <1>1, <1>2, <1>3, KeptGood

LEMMA WokenGood ==
    ASSUME NEW t, NEW s \in Seq(Frames), Good(t, s), NEW list, NEW pass, Behind(s, list, pass)
    PROVE  /\ Woken(s) \in Seq(Frames)
           /\ Last(Woken(s)).kind = Last(s).kind /\ ~Asleep(Last(Woken(s)))
           /\ Good(t, Woken(s)) /\ Behind(Woken(s), list, pass)
  <1> DEFINE w == Woken(s)
  <1>1. Len(s) \in Nat /\ \A i \in 1 .. Len(s) : s[i] \in Frames
    BY LenProperties, ElementOfSeq
  <1>2. \A i \in 1 .. Len(s) :
          /\ w[i] \in Frames /\ ~Asleep(w[i])
          /\ w[i].kind = s[i].kind /\ w[i].immediate = s[i].immediate /\ w[i].sig = s[i].sig
    BY <1>1 DEF Woken, Frames, Asleep
  <1>3. w \in [1 .. Len(s) -> Frames]
    BY <1>2 DEF Woken
  <1>4. w \in Seq(Frames) /\ Len(w) = Len(s)
    BY <1>1, <1>3
  <1> HIDE DEF w
  <1>5. Len(s) \in 1 .. Len(s)
    BY <1>1 DEF Good
  <1>6. Good(t, w)
    <2>1. \A i \in 1 .. Len(s) - 1 : i \in 1 .. Len(s) /\ i + 1 \in 1 .. Len(s)
      BY <1>1
    <2>2. ASSUME NEW i \in 1 .. Len(s) - 1 PROVE Over(w[i], w[i + 1])
      <3>1. Over(s[i], s[i + 1])
        BY DEF Good
      <3>2. w[i].kind = s[i].kind /\ w[i + 1].kind = s[i + 1].kind /\ ~Asleep(w[i])
        BY <1>2, <2>1
      <3> QED BY <3>1, <3>2 DEF Over
    <2>3. w[1].kind = "user"
      BY <1>2, <1>5 DEF Good
    <2> QED BY <1>2, <1>4, <2>2, <2>3 DEF Good
  <1>7. Behind(w, list, pass)
    BY <1>2, <1>4 DEF Behind
  <1> QED BY <1>2, <1>4, <1>5, <1>6, <1>7 DEF w, Last

-----------------------------------------------------------------------------
(* A step that changes one stack, and no notes                             *)
LEMMA OneStack ==
    ASSUME TypeInv, Stacks, NEW t \in Thread, NEW s \in Seq(Frames),
           Good(t, s), Behind(s, trap_pending_list, passed),
           stack' = [stack EXCEPT ![t] = s], UNCHANGED <<trap_pending_list, passed>>
    PROVE  /\ stack' \in [Thread -> Seq(Frames)] /\ Stacks'
           /\ stack'[t] = s /\ \A u \in Thread \ {t} : stack'[u] = stack[u]
  BY DEF TypeInv, Stacks

(* The top frame of a thread, and that of the running one.                 *)
LEMMA TopFrame ==
    ASSUME TypeInv, Stacks, NEW t \in Thread
    PROVE  /\ Last(stack[t]) \in Frames /\ ~Last(stack[t]).immediate
           /\ stack[t] \in Seq(Frames) /\ Good(t, stack[t])
           /\ Behind(stack[t], trap_pending_list, passed)
  <1>1. stack[t] \in Seq(Frames) /\ Good(t, stack[t]) /\ Behind(stack[t], trap_pending_list, passed)
    BY DEF TypeInv, Stacks
  <1>2. Len(stack[t]) \in 1 .. Len(stack[t])
    BY <1>1, LenProperties DEF Good
  <1> QED BY <1>1, <1>2, ElementOfSeq DEF Good, Last

(* No thread wakes up in rb_thread_schedule by itself, and interrupts stay *)
(* off.                                                                    *)
LEMMA ScheduleStep ==
    ASSUME TypeInv, Flags, ~rb_trap_immediate,
           NEW st \in [Thread -> {"RUNNABLE", "STOPPED"}], Schedule(st),
           \A t \in Thread : /\ Last(stack'[t]).kind # "syscall"
                             /\ Asleep(Last(stack'[t])) => st[t] = "STOPPED"
    PROVE  /\ curr' \in Thread /\ status' \in [Thread -> {"RUNNABLE", "STOPPED"}]
           /\ flags' \in [Thread -> BOOLEAN] /\ {rb_trap_immediate', over'} \subseteq BOOLEAN
           /\ Tops' /\ Flags' /\ ImmediateInSyscall'
  <1>1. CASE \E t \in Thread : st[t] = "RUNNABLE" /\ SwitchTo(t) /\ UNCHANGED over
    <2>1. PICK t \in Thread : st[t] = "RUNNABLE" /\ SwitchTo(t) /\ UNCHANGED over
      BY <1>1
    <2>2. curr' = t /\ rb_trap_immediate' = FALSE
      BY <2>1 DEF SwitchTo, Flags, TypeInv
    <2>3. flags' \in [Thread -> BOOLEAN] /\ Flags'
      BY <2>1 DEF SwitchTo, Flags, TypeInv
    <2>4. status' = st
      BY DEF Schedule
    <2>5. Tops'
      BY <2>1, <2>2, <2>4 DEF Tops
    <2> QED BY <2>1, <2>2, <2>3, <2>4, <2>5 DEF TypeInv, ImmediateInSyscall, Top
  <1>2. CASE /\ \A t \in Thread : st[t] # "RUNNABLE"
             /\ over' = TRUE /\ UNCHANGED <<curr, flags, rb_trap_immediate>>
    BY <1>2 DEF Schedule, TypeInv, Tops, Flags, ImmediateInSyscall
  <1> QED BY <1>1, <1>2 DEF Schedule

(* The trap of a signal, or its exception                                  *)
LEMMA SaveType ==
    ASSUME TypeInv, NEW s \in Seq(Frames), NEW k \in 1 .. Len(s), Unwind(s, k)
    PROVE  /\ status' \in [Thread -> {"RUNNABLE", "STOPPED"}] /\ s[k].kind \in RubyCode
           /\ \A t \in Thread \ {main_thread} : status'[t] = status[t]
  <1> DEFINE ended == Left(s, k, "handler")
             first == CHOOSE i \in ended : \A j \in ended : i <= j
  <1>1. ended \in SUBSET (1 .. Len(s)) /\ ended \in SUBSET Nat /\ Len(s) \in Nat
    BY LenProperties DEF Left
  <1>2. ended # {} => first \in ended
    <2>1. ended # {} => \E i \in ended : \A j \in ended : i <= j
      BY <1>1, Smallest
    <2> QED BY <2>1
  <1>3. ended # {} => s[first] \in Frames
    BY <1>1, <1>2, ElementOfSeq
  <1>4. ended # {} => s[first].save \in {"RUNNABLE", "STOPPED"}
    BY <1>3 DEF Frames
  <1>5. status' = [status EXCEPT ![main_thread] = IF ended = {} THEN "RUNNABLE" ELSE s[first].save]
    BY DEF Unwind
  <1> HIDE DEF ended, first
  <1> QED BY <1>4, <1>5 DEF TypeInv, Unwind

LEMMA ExecStep ==
    ASSUME TypeInv, Flags, ~over,
           NEW s, NEW stk \in [Thread -> Seq(Frames)], NEW imm, imm = FALSE, NEW list, NEW pass,
           \A t \in Thread : /\ Good(t, stk[t]) /\ Behind(stk[t], list, pass)
                             /\ Last(stk[t]).kind # "syscall"
                             /\ Asleep(Last(stk[t])) => status[t] = "STOPPED" /\ t # curr,
           signal_exec(s, stk, imm)
    PROVE  /\ curr' \in Thread /\ status' \in [Thread -> {"RUNNABLE", "STOPPED"}]
           /\ stack' \in [Thread -> Seq(Frames)]
           /\ flags' \in [Thread -> BOOLEAN] /\ {rb_trap_immediate', over'} \subseteq BOOLEAN
           /\ \A t \in Thread : Good(t, stack'[t]) /\ Behind(stack'[t], list, pass)
           /\ Tops' /\ Flags' /\ ImmediateInSyscall'
  <1> DEFINE m == stk[main_thread]
  <1>1. main_thread \in Thread /\ m \in Seq(Frames) /\ Good(main_thread, m) /\ Behind(m, list, pass)
    BY SignalAssumption
  <1>2. over' = FALSE
    BY DEF signal_exec, TypeInv
  <1>3. CASE RaiseInMain(stk, imm)
    <2>1. PICK k \in 1 .. Len(m) :
            /\ Unwind(m, k)
            /\ stack' = [stk EXCEPT ![main_thread] = Kept(m, k)]
            /\ curr' = main_thread
            /\ flags' = [flags EXCEPT ![curr] = IF curr = main_thread THEN @ ELSE imm]
            /\ rb_trap_immediate' =
                 (Left(m, k, "handler") = {} /\ IF curr = main_thread THEN imm ELSE flags[main_thread])
      BY <1>3 DEF RaiseInMain
    <2>2. /\ Kept(m, k) \in Seq(Frames) /\ Last(Kept(m, k)) = m[k]
          /\ Good(main_thread, Kept(m, k)) /\ Behind(Kept(m, k), list, pass)
      BY <1>1, KeptGood
    <2>3. /\ status' \in [Thread -> {"RUNNABLE", "STOPPED"}] /\ m[k].kind \in RubyCode
          /\ \A t \in Thread \ {main_thread} : status'[t] = status[t]
      BY <1>1, <2>1, SaveType
    <2> HIDE DEF m
    <2>4. rb_trap_immediate' = FALSE /\ flags' \in [Thread -> BOOLEAN] /\ Flags'
      BY <1>1, <2>1 DEF Flags, TypeInv
    <2>5. /\ stack' \in [Thread -> Seq(Frames)] /\ Last(stack'[main_thread]) = m[k]
          /\ \A t \in Thread : Good(t, stack'[t]) /\ Behind(stack'[t], list, pass)
          /\ \A t \in Thread \ {main_thread} : stack'[t] = stk[t]
      BY <1>1, <2>1, <2>2
    <2>6. m[k].kind # "syscall" /\ ~Asleep(m[k])
      BY <2>3 DEF RubyCode, Asleep
    <2>7. Tops'
      BY <2>1, <2>3, <2>5, <2>6 DEF Tops
    <2> QED BY <1>1, <1>2, <2>1, <2>3, <2>4, <2>5, <2>6, <2>7 DEF ImmediateInSyscall, Top
  <1>4. CASE TrapEval(stk, imm)
    <2> DEFINE h == [Frame("handler") EXCEPT !.save = status[main_thread]]
    <2>1. h \in Frames /\ ~h.immediate /\ h.kind = "handler" /\ h.save = status[main_thread]
      <3>1. status[main_thread] \in {"RUNNABLE", "STOPPED"}
        BY <1>1 DEF TypeInv
      <3> QED BY <3>1, NewFrame
    <2>2. /\ stack' = [stk EXCEPT ![main_thread] = Push(m, h)]
          /\ status' = [status EXCEPT ![main_thread] = "RUNNABLE"]
          /\ curr' = main_thread
          /\ flags' = [flags EXCEPT ![curr] = IF curr = main_thread THEN @ ELSE imm]
          /\ rb_trap_immediate' = IF curr = main_thread THEN imm ELSE flags[main_thread]
      BY <1>4 DEF TrapEval
    <2> HIDE DEF h
    <2>3. Over(Last(m), h)
      BY <1>1, <2>1 DEF Over
    <2>4. /\ Push(m, h) \in Seq(Frames) /\ Last(Push(m, h)) = h
          /\ Good(main_thread, Push(m, h)) /\ Behind(Push(m, h), list, pass)
      BY <1>1, <2>1, <2>3, PushGood
    <2> HIDE DEF m
    <2>5. rb_trap_immediate' = FALSE /\ flags' \in [Thread -> BOOLEAN] /\ Flags'
      BY <1>1, <2>2 DEF Flags, TypeInv
    <2>6. /\ stack' \in [Thread -> Seq(Frames)] /\ Last(stack'[main_thread]) = h
          /\ \A t \in Thread : Good(t, stack'[t]) /\ Behind(stack'[t], list, pass)
          /\ \A t \in Thread \ {main_thread} : stack'[t] = stk[t]
      BY <1>1, <2>2, <2>4
    <2>7. status' \in [Thread -> {"RUNNABLE", "STOPPED"}]
      BY <2>2 DEF TypeInv
    <2>8. Tops'
      BY <2>1, <2>2, <2>6 DEF Tops, Asleep, TypeInv
    <2> QED BY <1>1, <1>2, <2>1, <2>2, <2>5, <2>6, <2>7, <2>8 DEF ImmediateInSyscall, Top
  <1> QED BY <1>3, <1>4 DEF signal_exec

-----------------------------------------------------------------------------
(* A step of the running thread t that changes its stack to s and leaves   *)
(* the threads, their order and the notes alone                            *)
LEMMA StackStep ==
    ASSUME SignalInv, ~over, NEW s \in Seq(Frames),
           Good(curr, s), Behind(s, trap_pending_list, passed), ~Asleep(Last(s)),
           stack' = [stack EXCEPT ![curr] = s],
           status' \in [Thread -> {"RUNNABLE", "STOPPED"}],
           \A t \in Thread \ {curr} : status'[t] = status[t],
           UNCHANGED <<curr, flags, over, trap_pending_list, passed>>,
           rb_trap_immediate' \in BOOLEAN, rb_trap_immediate' <=> Last(s).kind = "syscall",
           rb_trap_pending' \in BOOLEAN, PendingNoticed'
    PROVE  SignalInv'
  <1>1. TypeInv /\ Stacks /\ Tops /\ Flags /\ curr \in Thread
    BY DEF SignalInv, TypeInv
  <1>2. /\ stack' \in [Thread -> Seq(Frames)] /\ Stacks'
        /\ stack'[curr] = s /\ \A u \in Thread \ {curr} : stack'[u] = stack[u]
    BY <1>1, OneStack
  <1>3. TypeInv'
    BY <1>1, <1>2 DEF TypeInv
  <1>4. Tops'
    BY <1>1, <1>2 DEF Tops
  <1>5. Flags' /\ ImmediateInSyscall'
    BY <1>1, <1>2 DEF Flags, ImmediateInSyscall, Top
  <1> QED BY <1>2, <1>3, <1>4, <1>5 DEF SignalInv

LEMMA Running ==
    ASSUME SignalInv, ~over
    PROVE  /\ curr \in Thread /\ Top \in Frames /\ ~Top.immediate /\ ~Asleep(Top)
           /\ stack[curr] \in Seq(Frames) /\ Good(curr, stack[curr])
           /\ Behind(stack[curr], trap_pending_list, passed)
           /\ rb_trap_immediate \in BOOLEAN /\ (rb_trap_immediate <=> Top.kind = "syscall")
           /\ \A t \in Thread : /\ t # curr => Last(stack[t]).kind # "syscall"
                                /\ Asleep(Last(stack[t])) => status[t] = "STOPPED" /\ t # curr
  <1>1. curr \in Thread /\ TypeInv /\ Stacks /\ Tops /\ ImmediateInSyscall
    BY DEF SignalInv, TypeInv
  <1> QED BY <1>1, TopFrame DEF Tops, ImmediateInSyscall, Top, TypeInv

(* The end of the running thread's top activation                          *)
LEMMA TopDropped ==
    ASSUME SignalInv, ~over, Top.kind # "user"
    PROVE  LET s == Drop(stack[curr])
           IN  /\ s \in Seq(Frames) /\ Good(curr, s) /\ Behind(s, trap_pending_list, passed)
               /\ Last(s).kind = "syscall" <=> Top.kind = "async"
               /\ Asleep(Last(s)) => Top.kind = "handler" /\ Top.save = "STOPPED"
               /\ Last(s) \in Frames /\ ~Last(s).immediate
  BY Running, DropGood DEF Top, Over

(* A call of the running thread, which is not in a system call             *)
LEMMA TopPushed ==
    ASSUME SignalInv, ~over, Top.kind # "syscall", NEW f \in Frames, ~f.immediate,
           f.kind \notin {"async", "handler"}, f.kind = "scan" => f.sig = 0
    PROVE  LET s == Push(stack[curr], f)
           IN  /\ s \in Seq(Frames) /\ Good(curr, s) /\ Behind(s, trap_pending_list, passed)
               /\ Last(s) = f
  <1>1. Over(Last(stack[curr]), f)
    BY Running DEF Over, Top
  <1>2. f.kind = "scan" => \A g \in trap_pending_list : g <= f.sig => g \in passed
    BY SignalAssumption DEF SignalInv, TypeInv, Sig
  <1> QED BY <1>1, <1>2, Running, PushGood

LEMMA SighandlerStep ==
    ASSUME SignalInv, NEW s \in Sig, sighandler(s)
    PROVE  SignalInv'
  <1>1. ~over
    BY DEF sighandler
  <1>2. CASE rb_trap_immediate
    <2> DEFINE a == [Frame("async") EXCEPT !.sig = s]
               stk == [stack EXCEPT ![curr] = Push(stack[curr], a)]
    <2>1. s \in 0 .. NSIG
      BY SignalAssumption DEF Sig
    <2>2. a \in Frames /\ a.kind = "async" /\ ~a.immediate
      BY <2>1, NewFrame
    <2>3. signal_exec(s, stk, FALSE) /\ UNCHANGED notes
      BY <1>2 DEF sighandler, ImmediateTested
    <2> HIDE DEF a
    <2>4. Over(Last(stack[curr]), a)
      BY <1>1, <1>2, <2>2, Running DEF Over, Top, Asleep
    <2>5. LET p == Push(stack[curr], a)
          IN  /\ p \in Seq(Frames) /\ Last(p) = a
              /\ Good(curr, p) /\ Behind(p, trap_pending_list, passed)
      BY <1>1, <2>2, <2>4, Running, PushGood
    <2>6. stk \in [Thread -> Seq(Frames)]
      BY <2>5 DEF SignalInv, TypeInv
    <2>7. \A t \in Thread : /\ Good(t, stk[t]) /\ Behind(stk[t], trap_pending_list, passed)
                            /\ Last(stk[t]).kind # "syscall"
                            /\ Asleep(Last(stk[t])) => status[t] = "STOPPED" /\ t # curr
      <3> SUFFICES ASSUME NEW t \in Thread
                   PROVE  /\ Good(t, stk[t]) /\ Behind(stk[t], trap_pending_list, passed)
                          /\ Last(stk[t]).kind # "syscall"
                          /\ Asleep(Last(stk[t])) => status[t] = "STOPPED" /\ t # curr
        OBVIOUS
      <3>1. CASE t = curr
        BY <2>2, <2>5, <3>1 DEF SignalInv, TypeInv, Asleep
      <3>2. CASE t # curr
        <4>1. stk[t] = stack[t]
          BY <3>2 DEF SignalInv, TypeInv
        <4> QED BY <1>1, <3>2, <4>1, Running DEF SignalInv, Stacks
      <3> QED BY <3>1, <3>2
    <2> HIDE DEF stk
    <2>8. /\ curr' \in Thread /\ status' \in [Thread -> {"RUNNABLE", "STOPPED"}]
          /\ stack' \in [Thread -> Seq(Frames)]
          /\ flags' \in [Thread -> BOOLEAN] /\ {rb_trap_immediate', over'} \subseteq BOOLEAN
          /\ \A t \in Thread : Good(t, stack'[t]) /\ Behind(stack'[t], trap_pending_list, passed)
          /\ Tops' /\ Flags' /\ ImmediateInSyscall'
      BY <1>1, <2>3, <2>6, <2>7, ExecStep DEF SignalInv
    <2>9. TypeInv' /\ Stacks' /\ PendingNoticed'
      BY <2>3, <2>8 DEF SignalInv, TypeInv, Stacks, PendingNoticed, notes
    <2> QED BY <2>8, <2>9 DEF SignalInv
  <1>3. CASE /\ ~rb_trap_immediate
             /\ rb_trap_pending' = TRUE
             /\ trap_pending_list' = trap_pending_list \cup {s}
             /\ passed' = IF ScanBehind(s) THEN passed \cup {s} ELSE passed
             /\ UNCHANGED <<rb_trap_immediate, threads, stack, rb_prohibit_interrupt>>
    <2>1. TypeInv'
      BY <1>3 DEF SignalInv, TypeInv, threads
    <2>2. ASSUME NEW t \in Thread PROVE Behind(stack[t], trap_pending_list', passed')
      <3> SUFFICES ASSUME NEW i \in 1 .. Len(stack[t]), stack[t][i].kind = "scan",
                          NEW g \in trap_pending_list', g <= stack[t][i].sig
                   PROVE  g \in passed'
        BY DEF Behind
      <3>1. CASE g = s
        <4>1. stack[t] \in Seq(Frames) /\ stack[t][i] \in Frames
          BY ElementOfSeq DEF SignalInv, TypeInv
        <4>2. stack[t][i].sig >= s
          BY <3>1, <4>1, SignalAssumption DEF Frames, Sig
        <4>3. ScanBehind(s)
          BY <4>2 DEF ScanBehind
        <4> QED BY <1>3, <3>1, <4>3
      <3>2. CASE g \in trap_pending_list
        BY <1>3, <3>2 DEF SignalInv, Stacks, Behind
      <3> QED BY <1>3, <3>1, <3>2
    <2>3. Stacks'
      BY <1>3, <2>2 DEF SignalInv, Stacks
    <2>4. Tops' /\ Flags' /\ ImmediateInSyscall' /\ PendingNoticed'
      BY <1>3 DEF SignalInv, Tops, Flags, ImmediateInSyscall, Top, PendingNoticed, threads
    <2> QED BY <2>1, <2>3, <2>4 DEF SignalInv
  <1> QED BY <1>2, <1>3 DEF sighandler

(* rb_trap_exec goes on to the smallest signal behind its index.           *)
LEMMA ScanNextStep ==
    ASSUME SignalInv, ScanNext
    PROVE  SignalInv'
  <1> DEFINE later == {s \in trap_pending_list : s > Top.sig}
             i == IF later = {} THEN NSIG ELSE CHOOSE s \in later : \A r \in later : s <= r
             f == [Top EXCEPT !.sig = i]
             stk == [stack EXCEPT ![curr] = Push(Drop(stack[curr]), f)]
             list == trap_pending_list \ {i}
             pass == passed \ {i}
  <1>1. ~over /\ Top.kind = "scan" /\ Top.kind # "user" /\ ~rb_trap_immediate
    BY Running DEF ScanNext
  <1>2. /\ trap_pending_list' = list /\ passed' = pass
        /\ \/ later # {} /\ signal_exec(i, stk, rb_trap_immediate)
           \/ /\ later = {} /\ stack' = stk
              /\ UNCHANGED <<rb_trap_immediate, threads, rb_prohibit_interrupt>>
        /\ UNCHANGED rb_trap_pending
    BY DEF ScanNext
  <1>3. /\ trap_pending_list \subseteq Sig /\ passed \subseteq trap_pending_list
        /\ NSIG \in Nat /\ \A g \in trap_pending_list : g \in Nat /\ g \in 0 .. NSIG
    BY SignalAssumption DEF SignalInv, TypeInv, Sig
  <1>4. later # {} => i \in later /\ \A r \in later : i <= r
    <2>1. later \in SUBSET Nat
      BY <1>3
    <2>2. later # {} => \E s \in later : \A r \in later : s <= r
      BY <2>1, Smallest
    <2> QED BY <2>2
  <1>5. i \in 0 .. NSIG /\ Top.sig \in 0 .. NSIG
    <2>1. Top \in Frames
      BY <1>1, Running
    <2>2. Top.sig \in 0 .. NSIG
      BY <2>1 DEF Frames
    <2>3. CASE later = {}
      BY <1>3, <2>2, <2>3
    <2>4. CASE later # {}
      <3>1. i \in trap_pending_list
        BY <1>4, <2>4
      <3> HIDE DEF i
      <3> QED BY <1>3, <2>2, <3>1
    <2> QED BY <2>3, <2>4
  <1>6. \A g \in list : g <= i => g \in pass
    <2> SUFFICES ASSUME NEW g \in list, g <= i PROVE g \in pass
      OBVIOUS
    <2>1. g \notin later
      BY <1>3, <1>4, <1>5 DEF Sig
    <2>2. g <= Top.sig
      BY <1>3, <1>5, <2>1 DEF Sig
    <2>3. Len(stack[curr]) \in 1 .. Len(stack[curr])
      BY <1>1, Running, LenProperties DEF Good
    <2> QED BY <1>1, <2>2, <2>3, Running DEF Behind, Top, Last
  <1>7. \A t \in Thread : Behind(stack[t], list, pass)
    BY DEF SignalInv, Stacks, Behind
  <1> HIDE DEF i
  <1>8. f \in Frames /\ f.kind = "scan" /\ ~f.immediate /\ f.sig = i
    BY <1>1, <1>5, Running, NewFrame
  <1> HIDE DEF list, pass, f
  <1>9. LET d == Drop(stack[curr])
        IN  /\ d \in Seq(Frames) /\ Good(curr, d) /\ Behind(d, list, pass) /\ Over(Last(d), Top)
    BY <1>1, <1>7, Running, DropGood DEF Top
  <1>10. Over(Last(Drop(stack[curr])), f)
    BY <1>1, <1>8, <1>9 DEF Over
  <1>11. LET p == Push(Drop(stack[curr]), f)
         IN  p \in Seq(Frames) /\ Last(p) = f /\ Good(curr, p) /\ Behind(p, list, pass)
    BY <1>6, <1>8, <1>9, <1>10, PushGood
  <1>12. /\ stk \in [Thread -> Seq(Frames)]
         /\ stk[curr] = Push(Drop(stack[curr]), f)
         /\ \A t \in Thread \ {curr} : stk[t] = stack[t]
    BY <1>11 DEF SignalInv, TypeInv
  <1> HIDE DEF stk
  <1>13. \A t \in Thread : /\ Good(t, stk[t]) /\ Behind(stk[t], list, pass)
                           /\ Last(stk[t]).kind # "syscall"
                           /\ Asleep(Last(stk[t])) => status[t] = "STOPPED" /\ t # curr
    <2> SUFFICES ASSUME NEW t \in Thread
                 PROVE  /\ Good(t, stk[t]) /\ Behind(stk[t], list, pass)
                        /\ Last(stk[t]).kind # "syscall"
                        /\ Asleep(Last(stk[t])) => status[t] = "STOPPED" /\ t # curr
      OBVIOUS
    <2>1. CASE t = curr
      BY <1>8, <1>11, <1>12, <2>1 DEF Asleep
    <2>2. CASE t # curr
      BY <1>1, <1>7, <1>12, <2>2, Running DEF SignalInv, Stacks
    <2> QED BY <2>1, <2>2
  <1>14. /\ curr' \in Thread /\ status' \in [Thread -> {"RUNNABLE", "STOPPED"}]
         /\ stack' \in [Thread -> Seq(Frames)]
         /\ flags' \in [Thread -> BOOLEAN] /\ {rb_trap_immediate', over'} \subseteq BOOLEAN
         /\ \A t \in Thread : Good(t, stack'[t]) /\ Behind(stack'[t], list, pass)
         /\ Tops' /\ Flags' /\ ImmediateInSyscall'
    <2>1. CASE signal_exec(i, stk, rb_trap_immediate)
      <3>1. rb_trap_immediate = FALSE
        BY <1>1, Running
      <3> QED BY <1>1, <1>12, <1>13, <2>1, <3>1, ExecStep DEF SignalInv
    <2>2. CASE stack' = stk /\ UNCHANGED <<rb_trap_immediate, threads, rb_prohibit_interrupt>>
      <3>1. stack' = stk /\ UNCHANGED <<curr, status, flags, over, rb_trap_immediate>>
        BY <2>2 DEF threads
      <3>2. Tops' /\ Flags'
        BY <1>13, <3>1 DEF Tops, Flags, SignalInv
      <3>3. ImmediateInSyscall'
        BY <1>1, <1>13, <3>1, Running DEF ImmediateInSyscall, Top
      <3> QED BY <1>12, <1>13, <3>1, <3>2, <3>3 DEF SignalInv, TypeInv
    <2> QED BY <1>2, <2>1, <2>2
  <1>15. TypeInv' /\ Stacks'
    BY <1>2, <1>3, <1>14 DEF SignalInv, TypeInv, Stacks, list, pass
  <1>16. PendingNoticed'
    BY <1>2 DEF SignalInv, PendingNoticed, list, pass
  <1> QED BY <1>14, <1>15, <1>16 DEF SignalInv

(* Its end.  Whatever is left in the list, the loop has passed it.         *)
LEMMA ScanEndStep ==
    ASSUME SignalInv, ScanEnd
    PROVE  SignalInv'
  <1>1. ~over /\ Top.kind = "scan" /\ Top.sig = NSIG
    BY DEF ScanEnd
  <1>2. trap_pending_list \subseteq passed
    <2>1. \A g \in trap_pending_list : g <= NSIG
      BY SignalAssumption DEF SignalInv, TypeInv, Sig
    <2>2. Len(stack[curr]) \in 1 .. Len(stack[curr])
      BY <1>1, Running, LenProperties DEF Good
    <2> QED BY <1>1, <2>1, <2>2, Running DEF Behind, Top, Last
  <1>3. PendingNoticed'
    BY <1>2 DEF ScanEnd, PendingNoticed
  <1> QED BY <1>1, <1>3, Running, TopDropped, StackStep DEF ScanEnd, threads, SignalInv, TypeInv

LEMMA AsyncReturnStep ==
    ASSUME SignalInv, AsyncReturn
    PROVE  SignalInv'
  <1>1. ~over /\ Top.kind = "async"
    BY DEF AsyncReturn
  <1>2. PendingNoticed'
    BY DEF AsyncReturn, notes, PendingNoticed, SignalInv
  <1> QED BY <1>1, <1>2, Running, TopDropped, StackStep
          DEF AsyncReturn, notes, threads, SignalInv, TypeInv, Asleep

LEMMA CheckIntsStep ==
    ASSUME SignalInv, CHECK_INTS
    PROVE  SignalInv'
  <1>1. ~over /\ Top.kind # "syscall"
    BY DEF CHECK_INTS, InRuby, RubyCode
  <1>2. PendingNoticed'
    BY DEF CHECK_INTS, notes, PendingNoticed, SignalInv
  <1>3. stack' = [stack EXCEPT ![curr] = Push(stack[curr], Frame("scan"))]
    BY DEF CHECK_INTS, Checked
  <1>4. LET f == Frame("scan")
        IN  f \in Frames /\ f.kind = "scan" /\ ~f.immediate /\ f.sig = 0 /\ ~Asleep(f)
    BY NewFrame DEF Kinds, Asleep
  <1> DEFINE s == Push(stack[curr], Frame("scan"))
  <1>5. /\ s \in Seq(Frames) /\ Good(curr, s) /\ Behind(s, trap_pending_list, passed)
        /\ Last(s).kind = "scan" /\ ~Asleep(Last(s)) /\ stack' = [stack EXCEPT ![curr] = s]
    BY <1>1, <1>3, <1>4, TopPushed
  <1> HIDE DEF s
  <1>6. /\ UNCHANGED <<curr, status, flags, over, trap_pending_list, passed,
                       rb_trap_immediate, rb_trap_pending>>
        /\ ~rb_trap_immediate
    BY <1>1, Running DEF CHECK_INTS, notes, threads
  <1> QED BY <1>1, <1>2, <1>5, <1>6, StackStep DEF SignalInv, TypeInv

(* A trap that ends puts the thread back to sleep that slept before it.    *)
LEMMA HandlerEndStep ==
    ASSUME SignalInv, HandlerEnd
    PROVE  SignalInv'
  <1> DEFINE s == Drop(stack[curr])
             st == [status EXCEPT ![curr] = Top.save]
  <1>1. /\ ~over /\ Top.kind = "handler" /\ curr \in Thread /\ ~rb_trap_immediate
        /\ Top.save \in {"RUNNABLE", "STOPPED"} /\ TypeInv /\ Stacks /\ Flags
    BY Running DEF HandlerEnd, Frames, SignalInv
  <1>2. /\ s \in Seq(Frames) /\ Good(curr, s) /\ Behind(s, trap_pending_list, passed)
        /\ Last(s).kind # "syscall" /\ (Asleep(Last(s)) => Top.save = "STOPPED")
    BY <1>1, TopDropped
  <1>3. /\ stack' = [stack EXCEPT ![curr] = s]
        /\ UNCHANGED <<trap_pending_list, passed, rb_trap_pending>>
    BY DEF HandlerEnd, notes
  <1>4. st \in [Thread -> {"RUNNABLE", "STOPPED"}]
    BY <1>1 DEF TypeInv
  <1>5. PendingNoticed'
    BY <1>3 DEF SignalInv, PendingNoticed
  <1>6. CASE Top.save = "STOPPED" /\ Schedule(st)
    <2> HIDE DEF s
    <2>1. /\ stack' \in [Thread -> Seq(Frames)] /\ Stacks'
          /\ stack'[curr] = s /\ \A u \in Thread \ {curr} : stack'[u] = stack[u]
      BY <1>1, <1>2, <1>3, OneStack
    <2>2. \A t \in Thread : /\ Last(stack'[t]).kind # "syscall"
                            /\ Asleep(Last(stack'[t])) => st[t] = "STOPPED"
      BY <1>1, <1>2, <1>6, <2>1, Running DEF TypeInv
    <2>3. /\ curr' \in Thread /\ status' \in [Thread -> {"RUNNABLE", "STOPPED"}]
          /\ flags' \in [Thread -> BOOLEAN] /\ {rb_trap_immediate', over'} \subseteq BOOLEAN
          /\ Tops' /\ Flags' /\ ImmediateInSyscall'
      BY <1>1, <1>4, <1>6, <2>2, ScheduleStep
    <2> QED BY <1>1, <1>3, <1>5, <2>1, <2>3 DEF SignalInv, TypeInv
  <1>7. CASE /\ Top.save # "STOPPED" /\ status' = st
             /\ UNCHANGED <<curr, flags, over, rb_trap_immediate>>
    <2> HIDE DEF s
    <2>1. \A t \in Thread \ {curr} : status'[t] = status[t]
      BY <1>7 DEF SignalInv, TypeInv
    <2> QED BY <1>1, <1>2, <1>3, <1>4, <1>5, <1>7, <2>1, StackStep DEF TypeInv
  <1> QED BY <1>6, <1>7 DEF HandlerEnd

LEMMA HandlerRaiseStep ==
    ASSUME SignalInv, HandlerRaise
    PROVE  SignalInv'
  <1>1. /\ ~over /\ Top.kind = "handler" /\ curr \in Thread
        /\ stack[curr] \in Seq(Frames) /\ Good(curr, stack[curr])
        /\ Behind(stack[curr], trap_pending_list, passed) /\ TypeInv
    BY Running DEF HandlerRaise, SignalInv
  <1>2. Len(stack[curr]) \in Nat
    BY <1>1, LenProperties
  <1>3. PICK k \in 1 .. Len(stack[curr]) - 1 :
          Unwind(stack[curr], k) /\ stack' = [stack EXCEPT ![curr] = Kept(stack[curr], k)]
    BY DEF HandlerRaise
  <1>4. curr = main_thread
    BY <1>1, <1>2 DEF Good, Top, Last
  <1>5. k \in 1 .. Len(stack[curr])
    BY <1>2
  <1> DEFINE s == Kept(stack[curr], k)
  <1>6. /\ s \in Seq(Frames) /\ Good(curr, s) /\ Behind(s, trap_pending_list, passed)
        /\ Last(s) = stack[curr][k]
    BY <1>1, <1>5, KeptGood
  <1>7. /\ status' \in [Thread -> {"RUNNABLE", "STOPPED"}]
        /\ \A t \in Thread \ {curr} : status'[t] = status[t]
        /\ stack[curr][k].kind \in RubyCode
    BY <1>1, <1>3, <1>4, <1>5, SaveType
  <1> HIDE DEF s
  <1>8. Last(s).kind # "syscall" /\ ~Asleep(Last(s))
    BY <1>6, <1>7 DEF RubyCode, Asleep
  <1>9. /\ UNCHANGED <<curr, flags, over, trap_pending_list, passed, rb_trap_pending>>
        /\ rb_trap_immediate' = FALSE /\ PendingNoticed' /\ stack' = [stack EXCEPT ![curr] = s]
    BY <1>3 DEF HandlerRaise, notes, PendingNoticed, SignalInv, s
  <1> QED BY <1>1, <1>6, <1>7, <1>8, <1>9, StackStep DEF TypeInv

LEMMA SyscallStep ==
    ASSUME SignalInv, TRAP_BEG \/ TRAP_END
    PROVE  SignalInv'
  <1>1. ~over /\ curr \in Thread /\ TypeInv
    BY Running DEF TRAP_BEG, TRAP_END, InRuby, SignalInv
  <1>2. /\ UNCHANGED <<curr, status, flags, over, trap_pending_list, passed, rb_trap_pending>>
        /\ PendingNoticed'
    BY DEF TRAP_BEG, TRAP_END, notes, threads, PendingNoticed, SignalInv
  <1>3. CASE TRAP_BEG
    <2> DEFINE f == [Frame("syscall") EXCEPT !.immediate = rb_trap_immediate]
               s == Push(stack[curr], f)
    <2>1. Top.kind # "syscall" /\ rb_trap_immediate = FALSE
      BY <1>1, <1>3, Running DEF TRAP_BEG, InRuby, RubyCode
    <2>2. f \in Frames /\ ~f.immediate /\ f.kind = "syscall" /\ ~Asleep(f)
      <3>1. rb_trap_immediate \in BOOLEAN
        BY <2>1
      <3>2. f \in Frames /\ f.immediate = rb_trap_immediate /\ f.kind = "syscall"
        BY <3>1, NewFrame
      <3> HIDE DEF f
      <3> QED BY <2>1, <3>2 DEF Asleep
    <2> HIDE DEF f
    <2>3. /\ s \in Seq(Frames) /\ Good(curr, s) /\ Behind(s, trap_pending_list, passed)
          /\ Last(s) = f
      BY <1>1, <2>1, <2>2, TopPushed
    <2>4. stack' = [stack EXCEPT ![curr] = s] /\ rb_trap_immediate' = TRUE
      BY <1>3 DEF TRAP_BEG, f
    <2> HIDE DEF s
    <2> QED BY <1>1, <1>2, <2>2, <2>3, <2>4, StackStep DEF TypeInv
  <1>4. CASE TRAP_END
    <2> DEFINE d == Drop(stack[curr])
               s == Checked(d, rb_prohibit_interrupt)
               f == Frame("scan")
    <2>1. Top.kind = "syscall" /\ ~Top.immediate /\ Top.immediate \in BOOLEAN
      BY <1>1, <1>4, Running DEF TRAP_END, Frames
    <2>2. /\ d \in Seq(Frames) /\ Good(curr, d) /\ Behind(d, trap_pending_list, passed)
          /\ Last(d).kind # "syscall" /\ ~Asleep(Last(d))
      BY <1>1, <2>1, TopDropped
    <2>3. f \in Frames /\ f.kind = "scan" /\ ~f.immediate /\ f.sig = 0 /\ ~Asleep(f)
      BY NewFrame DEF Kinds, Asleep
    <2>4. /\ stack' = [stack EXCEPT ![curr] = s] /\ rb_trap_immediate' = FALSE
          /\ s = d \/ s = Push(d, f)
      BY <1>4, <2>1 DEF TRAP_END, Checked
    <2> HIDE DEF d, f
    <2>5. Over(Last(d), f)
      BY <2>2, <2>3 DEF Over
    <2>6. \A g \in trap_pending_list : g <= f.sig => g \in passed
      BY <1>1, <2>3, SignalAssumption DEF TypeInv, Sig
    <2>7. LET p == Push(d, f)
          IN  /\ p \in Seq(Frames) /\ Good(curr, p) /\ Behind(p, trap_pending_list, passed)
              /\ Last(p) = f
      BY <2>2, <2>3, <2>5, <2>6, PushGood
    <2>8. /\ s \in Seq(Frames) /\ Good(curr, s) /\ Behind(s, trap_pending_list, passed)
          /\ Last(s).kind # "syscall" /\ ~Asleep(Last(s))
      BY <2>2, <2>3, <2>4, <2>7
    <2> HIDE DEF s
    <2> QED BY <1>1, <1>2, <2>4, <2>8, StackStep DEF TypeInv
  <1> QED BY <1>3, <1>4

LEMMA DeferStep ==
    ASSUME SignalInv, DEFER_INTS \/ ENABLE_INTS
    PROVE  SignalInv'
  <1>1. ~over /\ curr \in Thread /\ TypeInv
    BY Running DEF DEFER_INTS, ENABLE_INTS, InRuby, SignalInv
  <1>2. Top.kind # "syscall"
    BY DEF DEFER_INTS, ENABLE_INTS, InRuby, RubyCode
  <1>3. /\ UNCHANGED <<curr, status, flags, over, trap_pending_list, passed, rb_trap_pending>>
        /\ PendingNoticed' /\ rb_trap_immediate' = FALSE
    BY <1>1, <1>2, Running DEF DEFER_INTS, ENABLE_INTS, notes, threads, PendingNoticed, SignalInv
  <1>4. CASE DEFER_INTS
    <2> DEFINE f == Frame("deferred")
               s == Push(stack[curr], f)
    <2>1. f \in Frames /\ f.kind = "deferred" /\ ~f.immediate /\ ~Asleep(f)
      BY NewFrame DEF Kinds, RubyCode, Asleep
    <2> HIDE DEF f
    <2>2. /\ s \in Seq(Frames) /\ Good(curr, s) /\ Behind(s, trap_pending_list, passed)
          /\ Last(s) = f
      BY <1>1, <1>2, <2>1, TopPushed
    <2>3. stack' = [stack EXCEPT ![curr] = s]
      BY <1>4 DEF DEFER_INTS, f
    <2> HIDE DEF s
    <2> QED BY <1>1, <1>3, <2>1, <2>2, <2>3, StackStep DEF TypeInv
  <1>5. CASE ENABLE_INTS
    <2> DEFINE s == Drop(stack[curr])
    <2>1. /\ s \in Seq(Frames) /\ Good(curr, s) /\ Behind(s, trap_pending_list, passed)
          /\ Last(s).kind # "syscall" /\ ~Asleep(Last(s))
      BY <1>1, <1>5, TopDropped DEF ENABLE_INTS
    <2>2. stack' = [stack EXCEPT ![curr] = s]
      BY <1>5 DEF ENABLE_INTS
    <2> HIDE DEF s
    <2> QED BY <1>1, <1>3, <2>1, <2>2, StackStep DEF TypeInv
  <1> QED BY <1>4, <1>5

(* Thread.pass and Thread.stop; the stop ends in a thread that was woken.  *)
LEMMA SwitchStep ==
    ASSUME SignalInv, rb_thread_pass \/ rb_thread_stop
    PROVE  SignalInv'
  <1>1. /\ ~over /\ Top.kind \in RubyCode /\ curr \in Thread
        /\ TypeInv /\ Stacks /\ Flags /\ PendingNoticed
    BY Running DEF rb_thread_pass, rb_thread_stop, InRuby, SignalInv
  <1>2. Top.kind # "syscall" /\ ~rb_trap_immediate /\ Last(stack[curr]).kind # "syscall"
    BY <1>1, Running DEF RubyCode, Top
  <1>3. UNCHANGED <<rb_trap_pending, trap_pending_list, passed>> /\ PendingNoticed'
    BY <1>1 DEF rb_thread_pass, rb_thread_stop, notes, PendingNoticed
  <1> DEFINE Switched == /\ curr' \in Thread /\ status' \in [Thread -> {"RUNNABLE", "STOPPED"}]
                         /\ flags' \in [Thread -> BOOLEAN]
                         /\ {rb_trap_immediate', over'} \subseteq BOOLEAN
                         /\ Tops' /\ Flags' /\ ImmediateInSyscall'
  <1>4. CASE rb_thread_pass
    <2>1. stack' = stack /\ Schedule(status) /\ status \in [Thread -> {"RUNNABLE", "STOPPED"}]
      BY <1>1, <1>4 DEF rb_thread_pass, TypeInv
    <2>2. \A t \in Thread : /\ Last(stack'[t]).kind # "syscall"
                            /\ Asleep(Last(stack'[t])) => status[t] = "STOPPED"
      BY <1>1, <1>2, <2>1, Running
    <2>3. Switched
      BY <1>1, <1>2, <2>1, <2>2, ScheduleStep
    <2>4. Stacks'
      BY <1>1, <1>3, <2>1 DEF Stacks
    <2> QED BY <1>1, <1>3, <2>1, <2>3, <2>4 DEF SignalInv, TypeInv
  <1>5. CASE rb_thread_stop
    <2> DEFINE f == Frame("stop")
               s == Push(stack[curr], f)
               st == [status EXCEPT ![curr] = "STOPPED"]
    <2>1. f \in Frames /\ f.kind = "stop" /\ ~f.immediate
      BY NewFrame DEF Kinds
    <2>2. stack' = [stack EXCEPT ![curr] = s] /\ Schedule(st)
      BY <1>5 DEF rb_thread_stop
    <2>3. st \in [Thread -> {"RUNNABLE", "STOPPED"}]
      BY <1>1 DEF TypeInv
    <2> HIDE DEF f
    <2>4. /\ s \in Seq(Frames) /\ Good(curr, s) /\ Behind(s, trap_pending_list, passed)
          /\ Last(s) = f
      BY <1>1, <1>2, <2>1, TopPushed
    <2> HIDE DEF s
    <2>5. /\ stack' \in [Thread -> Seq(Frames)] /\ Stacks'
          /\ stack'[curr] = s /\ \A u \in Thread \ {curr} : stack'[u] = stack[u]
      BY <1>1, <1>3, <2>2, <2>4, OneStack
    <2>6. \A t \in Thread : /\ Last(stack'[t]).kind # "syscall"
                            /\ Asleep(Last(stack'[t])) => st[t] = "STOPPED"
      BY <1>1, <2>1, <2>4, <2>5, Running DEF TypeInv
    <2>7. Switched
      BY <1>1, <1>2, <2>2, <2>3, <2>6, ScheduleStep
    <2> QED BY <1>1, <1>3, <2>5, <2>7 DEF SignalInv, TypeInv
  <1> QED BY <1>4, <1>5

LEMMA StopReturnStep ==
    ASSUME SignalInv, StopReturn
    PROVE  SignalInv'
  <1> DEFINE s == Drop(stack[curr])
  <1>1. ~over /\ Top.kind = "stop" /\ curr \in Thread /\ TypeInv /\ ~rb_trap_immediate
    BY Running DEF StopReturn, SignalInv
  <1>2. /\ s \in Seq(Frames) /\ Good(curr, s) /\ Behind(s, trap_pending_list, passed)
        /\ Last(s).kind # "syscall" /\ ~Asleep(Last(s))
    BY <1>1, TopDropped
  <1>3. /\ stack' = [stack EXCEPT ![curr] = s]
        /\ status' = [status EXCEPT ![curr] = "RUNNABLE"]
        /\ UNCHANGED <<rb_trap_immediate, curr, flags, over, trap_pending_list, passed,
                       rb_trap_pending>>
        /\ PendingNoticed'
    BY DEF StopReturn, notes, PendingNoticed, SignalInv
  <1> HIDE DEF s
  <1>4. /\ status' \in [Thread -> {"RUNNABLE", "STOPPED"}]
        /\ \A t \in Thread \ {curr} : status'[t] = status[t]
    BY <1>3 DEF SignalInv, TypeInv
  <1> QED BY <1>1, <1>2, <1>3, <1>4, StackStep DEF TypeInv

LEMMA WakeupStep ==
    ASSUME SignalInv, NEW t \in Thread, rb_thread_wakeup(t)
    PROVE  SignalInv'
  <1> DEFINE s == Woken(stack[t])
  <1>1. ~over /\ t # curr /\ TypeInv /\ Stacks /\ Tops /\ Flags
    BY DEF rb_thread_wakeup, InRuby, SignalInv
  <1>2. /\ s \in Seq(Frames) /\ Good(t, s) /\ Behind(s, trap_pending_list, passed)
        /\ Last(s).kind # "syscall" /\ ~Asleep(Last(s))
    BY <1>1, TopFrame, WokenGood DEF Tops
  <1>3. /\ stack' = [stack EXCEPT ![t] = s]
        /\ status' = [status EXCEPT ![t] = "RUNNABLE"]
        /\ UNCHANGED <<rb_trap_immediate, curr, flags, over, trap_pending_list, passed,
                       rb_trap_pending>>
        /\ PendingNoticed'
    BY DEF rb_thread_wakeup, notes, PendingNoticed, SignalInv
  <1> HIDE DEF s
  <1>4. /\ stack' \in [Thread -> Seq(Frames)] /\ Stacks'
        /\ stack'[t] = s /\ \A u \in Thread \ {t} : stack'[u] = stack[u]
    BY <1>1, <1>2, <1>3, OneStack
  <1>5. TypeInv' /\ Flags'
    BY <1>1, <1>3, <1>4 DEF TypeInv, Flags
  <1>6. \A u \in Thread \ {t} : status'[u] = status[u]
    BY <1>1, <1>3 DEF TypeInv
  <1>7. Tops'
    BY <1>1, <1>2, <1>3, <1>4, <1>6 DEF Tops
  <1>8. ImmediateInSyscall'
    BY <1>1, <1>3, <1>4 DEF SignalInv, TypeInv, ImmediateInSyscall, Top
  <1> QED BY <1>3, <1>4, <1>5, <1>7, <1>8 DEF SignalInv

LEMMA SameStep ==
    ASSUME SignalInv,
           UNCHANGED <<rb_trap_immediate, rb_trap_pending, trap_pending_list, passed,
                       curr, status, flags, over, stack>>
    PROVE  SignalInv'
  BY DEF SignalInv, TypeInv, Stacks, Tops, Flags, ImmediateInSyscall, Top, PendingNoticed

-----------------------------------------------------------------------------
LEMMA SignalInit == Init => SignalInv
  <1> SUFFICES ASSUME Init PROVE SignalInv
    OBVIOUS
  <1> DEFINE f == Frame("user")
  <1>1. f \in Frames /\ f.kind = "user" /\ ~f.immediate
    BY NewFrame DEF Kinds, RubyCode
  <1>2. \A t \in Thread : stack[t] = <<f>>
    BY DEF Init
  <1> HIDE DEF f
  <1>3. <<f>> \in Seq(Frames) /\ Len(<<f>>) = 1 /\ <<f>>[1] = f
    BY <1>1
  <1>4. TypeInv
    <2>1. stack \in [Thread -> Seq(Frames)]
      BY <1>3 DEF Init, f
    <2> QED BY <2>1, SignalAssumption DEF Init, TypeInv
  <1>5. Stacks
    BY <1>1, <1>2, <1>3 DEF Stacks, Good, Behind
  <1>6. Tops
    BY <1>1, <1>2, <1>3 DEF Tops, Last, Asleep
  <1>7. Flags /\ PendingNoticed
    BY DEF Init, Flags, PendingNoticed
  <1>8. ImmediateInSyscall
    BY <1>1, <1>2, <1>3, SignalAssumption DEF Init, ImmediateInSyscall, Top, Last
  <1> QED BY <1>4, <1>5, <1>6, <1>7, <1>8 DEF SignalInv

LEMMA SignalNext == SignalInv /\ [Next]_vars => SignalInv'
  <1> SUFFICES ASSUME SignalInv, [Next]_vars PROVE SignalInv'
    OBVIOUS
  <1>1. CASE UNCHANGED vars
    BY <1>1, SameStep DEF vars, notes, threads
  <1>2. ASSUME NEW s \in Sig, trap(s) PROVE SignalInv'
    BY <1>2, SameStep DEF trap, notes, threads
  <1> QED BY <1>1, <1>2, SighandlerStep, AsyncReturnStep, ScanNextStep, ScanEndStep, CheckIntsStep,
             HandlerEndStep, HandlerRaiseStep, SyscallStep, DeferStep, SwitchStep, StopReturnStep,
             WakeupStep DEF Next

(* SignalInv is an inductive invariant, for any number of threads, signals *)
(* and nested calls.                                                       *)
THEOREM SignalInvHolds == Spec => []SignalInv
  BY SignalInit, SignalNext, PTL DEF Spec

(* A trap runs asynchronously in system calls only: sighandler finds       *)
(* rb_trap_immediate set exactly while the running thread is in one.       *)
THEOREM ImmediateCorrect == Spec => []ImmediateInSyscall
  <1>1. SignalInv => ImmediateInSyscall
    BY DEF SignalInv
  <1> QED BY <1>1, SignalInvHolds, PTL

(* A noted signal that the loop of rb_trap_exec has not passed is noticed  *)
(* by the next CHECK_INTS.                                                 *)
THEOREM PendingCorrect == Spec => []PendingNoticed
  <1>1. SignalInv => PendingNoticed
    BY DEF SignalInv
  <1> QED BY <1>1, SignalInvHolds, PTL

(* However many traps run on the stack of a thread asleep in Thread.stop,  *)
(* one inside the other, it does not return before somebody wakes it.      *)
THEOREM StopsCorrect == Spec => StopsUntilWoken
  <1>1. SignalInv => (StopReturn => Top.woken)
    BY Running DEF StopReturn, Asleep
  <1>2. SignalInv /\ [Next]_vars => [StopReturn => Top.woken]_vars
    BY <1>1
  <1> QED BY <1>2, SignalInvHolds, PTL DEF Spec, StopsUntilWoken
=============================================================================
