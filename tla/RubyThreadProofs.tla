-------------------------- MODULE RubyThreadProofs --------------------------
(***************************************************************************)
(* Proofs about RubyThread, for any number of threads, descriptors and     *)
(* priorities and any set of operations.                                   *)
(***************************************************************************)
EXTENDS RubyThread, FiniteSetTheorems, ArrayProofs

(* A step of the scheduler keeps the types: what the scans of              *)
(* rb_thread_schedule compute is well formed.                              *)
LEMMA ScannedType ==
    ASSUME TypeOK
    PROVE  /\ Scanned \in [Thread -> Statuses]
           /\ ScannedWait \in [Thread -> SUBSET Flags]
           /\ ScannedFds \in [Thread -> SUBSET Fd]
  <1>1. Scanned \in [Thread -> Statuses]
    BY DEF TypeOK, Scanned, Statuses
  <1>2. ScannedWait \in [Thread -> SUBSET Flags]
    BY DEF TypeOK, ScannedWait
  <1>3. ScannedFds \in [Thread -> SUBSET Fd]
    BY DEF TypeOK, ScannedFds, StrippedFds
  <1> QED BY <1>1, <1>2, <1>3

(* Starting and ending threads keeps the types.                            *)
LEMMA LifeType ==
    ASSUME TypeOK, End \/ (\E t \in Thread : Start(t))
    PROVE  TypeOK'
  <1> USE ThreadAssumption, PrioAssumption DEF TypeOK, Statuses, Resume, Tags, ends
  <1>1. ASSUME NEW t \in Thread, Start(t) PROVE TypeOK'
    BY <1>1 DEF Start, waits, frames
  <1>2. CASE EndQuietly
    BY <1>2 DEF EndQuietly, Remove, EndedWaits, EndedFrame
  <1>3. CASE EndByException
    BY <1>3 DEF EndByException, Remove, EndedWaits, EndedFrame, Restore, MayEnd
  <1>4. CASE EndByExit
    BY <1>4 DEF EndByExit, Remove, EndedWaits, Restore, MayHaveRaised, MayEnd, Jumped
  <1>5. CleanupStatus \in [Thread -> Statuses] /\ CleanupPriority \in [Thread -> Prio]
    BY DEF CleanupStatus, CleanupPriority, ReadyStatus
  <1>6. CASE EndByFatal
    BY <1>5, <1>6 DEF EndByFatal, Remove, Cleanup, EndedFrame, MayHaveRaised
  <1>7. CASE MainEnd
    BY <1>5, <1>7 DEF MainEnd, Cleanup
  <1>8. CASE WaitOthers
    BY <1>8 DEF WaitOthers, ring, waits, frames
  <1> QED BY <1>1, <1>2, <1>3, <1>4, <1>6, <1>7, <1>8 DEF End

(* The three outcomes of rb_thread_join keep the types of what they set.   *)
LEMMA JoinType ==
    ASSUME TypeOK, NEW t \in Thread \cup {Null}, NEW op \in {"join", "limited_join", "value"},
           NEW st \in [Thread -> Statuses]
    PROVE  /\ JoinDead(t) => /\ unwinding' \in [Thread -> Tags] /\ pc' \in [Thread -> Resume]
                             /\ join' \in [Thread -> Thread \cup {Null}]
           /\ JoinAlive(t, op, st) \/ JoinRefused(t, st)
                => /\ status' \in [Thread -> Statuses] /\ wait_for' \in [Thread -> SUBSET Flags]
                   /\ join' \in [Thread -> Thread \cup {Null}] /\ pc' \in [Thread -> Resume]
                   /\ last_status' \in [Thread -> {"RUNNABLE", "TO_KILL"}]
                   /\ unwinding' \in [Thread -> Tags] /\ scheduling' \in BOOLEAN
  <1>1. ASSUME ForgetJoin PROVE join' \in [Thread -> Thread \cup {Null}]
    BY <1>1 DEF TypeOK, ForgetJoin
  <1>2. ASSUME JoinDead(t)
        PROVE  unwinding' \in [Thread -> Tags] /\ pc' \in [Thread -> Resume]
    BY <1>2 DEF TypeOK, JoinDead, Tags, Resume
  <1>3. ASSUME JoinAlive(t, op, st)
        PROVE  /\ status' \in [Thread -> Statuses] /\ join' \in [Thread -> Thread \cup {Null}]
               /\ pc' \in [Thread -> Resume] /\ scheduling' \in BOOLEAN
               /\ last_status' \in [Thread -> {"RUNNABLE", "TO_KILL"}]
               /\ unwinding' \in [Thread -> Tags]
    BY <1>3 DEF TypeOK, JoinAlive, LastStatus, Statuses, Resume
  <1>4. ASSUME JoinAlive(t, op, st)
        PROVE  wait_for' \in [Thread -> SUBSET Flags]
    <2>1. {"JOIN"} \cup (IF op = "limited_join" THEN {"TIME"} ELSE {}) \in SUBSET Flags
      BY DEF Flags
    <2> QED BY <1>4, <2>1 DEF TypeOK, JoinAlive
  <1>5. ASSUME JoinRefused(t, st)
        PROVE  /\ status' \in [Thread -> Statuses] /\ wait_for' \in [Thread -> SUBSET Flags]
               /\ pc' \in [Thread -> Resume] /\ unwinding' \in [Thread -> Tags]
               /\ last_status' \in [Thread -> {"RUNNABLE", "TO_KILL"}] /\ scheduling' \in BOOLEAN
    BY <1>5 DEF TypeOK, JoinRefused, Deliver, Resume, Tags
  <1> QED BY <1>1, <1>2, <1>3, <1>4, <1>5 DEF JoinDead, JoinRefused

(* So does everything else the running thread can call.                    *)
LEMMA OperationType ==
    ASSUME TypeOK, Operation \/ Preempt
    PROVE  TypeOK'
  <1> USE DEF TypeOK, Statuses, Resume, Tags, ends
  <1>1. CASE Rescue
    BY <1>1 DEF Rescue, ring, waits
  <1>2. CASE RaiseError \/ Exit
    BY <1>2 DEF RaiseError, Exit, RaiseHere, Deliver, ring, waits
  <1>3. CASE Block
    <2>1. \E flags \in SUBSET Flags, fdset \in SUBSET Fd : Sleep(flags, fdset)
      <3>1. ASSUME NEW f \in Fd, WaitFd(f) \/ FdWritable(f)
            PROVE  \E flags \in SUBSET Flags : Sleep(flags, {f})
        BY <3>1 DEF WaitFd, FdWritable, Flags
      <3>2. ASSUME NEW fdset \in SUBSET Fd, NEW timeout \in {{}, {"TIME"}}, Select(fdset, timeout)
            PROVE  Sleep({"SELECT"} \cup timeout, fdset)
        BY <3>2 DEF Select
      <3>3. ASSUME WaitFor \/ SleepForever \/ Polling
            PROVE  \E flags \in SUBSET Flags : Sleep(flags, {})
        BY <3>3 DEF WaitFor, SleepForever, Polling, Flags
      <3>4. \A timeout \in {{}, {"TIME"}} : {"SELECT"} \cup timeout \in SUBSET Flags
        BY DEF Flags
      <3> QED BY <1>3, <3>1, <3>2, <3>3, <3>4 DEF Block
    <2> QED BY <1>3, <2>1 DEF Block, Sleep, frames
  <1>4. CASE Stop
    <2>1. CASE Alone
      BY <1>4, <2>1, ZenonT(60) DEF Stop, RaiseHere, Deliver, ring, waits
    <2>2. CASE ~Alone
      <3>1. wait_for[curr_thread] \in SUBSET Flags /\ fds[curr_thread] \in SUBSET Fd
        OBVIOUS
      <3> QED BY <1>4, <2>2, <3>1, ZenonT(60) DEF Stop, Sleep, LastStatus
    <2> QED BY <2>1, <2>2
  <1>5. CASE Pass \/ Preempt
    BY <1>5 DEF Pass, Preempt, Yield, ring, waits, frames
  <1>6. CASE JoinInCritical
    BY <1>6, ThreadAssumption DEF JoinInCritical, MainJump, Deliver, Restore, Jumped, waits
  <1>7. ASSUME NEW b \in BOOLEAN, CriticalSet(b) PROVE TypeOK'
    BY <1>7 DEF CriticalSet, ring, waits, frames
  <1>8. ASSUME NEW t \in Thread, Wakeup(t) PROVE TypeOK'
    BY <1>8, ZenonT(60) DEF Wakeup, RaiseHere, Deliver, Ready, ReadyStatus, ring, waits, frames
  <1>9. ASSUME NEW t \in Thread, Kill(t) PROVE TypeOK'
    BY <1>9, ZenonT(60) DEF Kill, RaiseHere, Deliver, ring, waits, frames
  <1>10. ASSUME NEW t \in Thread, Raise(t) PROVE TypeOK'
    BY <1>10 DEF Raise, Deliver, Ready, ReadyStatus, Restore, SaveCurr, ring, waits
  <1>11. ASSUME NEW t \in Thread, NEW op \in {"join", "limited_join", "value"}, Join(t, op)
         PROVE  TypeOK'
    <2>1. JoinDead(t) \/ JoinAlive(t, op, status) \/ JoinRefused(t, status)
      BY <1>11 DEF Join
    <2> QED BY <1>11, <2>1, JoinType DEF Join
  <1>12. ASSUME NEW t \in Thread, NEW p \in Prio, PrioritySet(t, p) PROVE TypeOK'
    BY <1>12 DEF PrioritySet, waits, frames
  <1> QED BY <1>1, <1>2, <1>3, <1>4, <1>5, <1>6, <1>7, <1>8, <1>9, <1>10, <1>11, <1>12,
             LifeType DEF Operation

(* So do the operations that come back from the scheduler.                 *)
LEMMA ReturnType ==
    ASSUME TypeOK, Return
    PROVE  TypeOK'
  <1> USE DEF TypeOK, ends
  <1>1. CASE StopReturn
    BY <1>1 DEF StopReturn, ForgetStatus, waits, Statuses, Resume
  <1> DEFINE t == join[curr_thread]
             st == [status EXCEPT ![curr_thread] = last_status[curr_thread]]
  <1>2. t \in Thread \cup {Null} /\ st \in [Thread -> Statuses]
    BY DEF Statuses
  <1>3. CASE JoinReturn
    <2>1. join' \in [Thread -> Thread \cup {Null}] /\ unwinding' \in [Thread -> Tags]
          /\ pc' \in [Thread -> Resume]
      BY <1>2, <1>3, JoinType DEF JoinReturn, ForgetJoin, Resume
    <2> QED BY <1>2, <1>3, <2>1 DEF JoinReturn, ForgetStatus
  <1>4. CASE ValueReturn
    <2>1. CASE status' = st /\ JoinDead(t) /\ ForgetStatus
               /\ UNCHANGED <<context, wait_for, curr_thread, scheduling, fatal, jumped>>
      BY <1>2, <1>4, <2>1, JoinType DEF ValueReturn, ForgetStatus
    <2>2. CASE (JoinAlive(t, "value", st) \/ JoinRefused(t, st))
               /\ UNCHANGED <<context, curr_thread, fatal, jumped>>
      BY <1>2, <1>4, <2>2, JoinType DEF ValueReturn
    <2>3. CASE status' = st /\ MainJump("RAISE", context) /\ fatal' = TRUE /\ jumped' = Jumped
               /\ UNCHANGED <<wait_for, join, scheduling>>
      BY <1>2, <1>4, <2>3, ThreadAssumption
      DEF ValueReturn, MainJump, Restore, Deliver, Jumped, Tags, Resume
    <2> QED BY <1>4, <2>1, <2>2, <2>3 DEF ValueReturn
  <1> QED BY <1>1, <1>3, <1>4 DEF Return

(* And the scheduler and the environment.                                  *)
LEMMA ScheduleType ==
    ASSUME TypeOK, Schedule \/ Env
    PROVE  TypeOK'
  <1> USE ScannedType DEF TypeOK, ends
  <1>1. CASE ScheduleAlone
    BY <1>1 DEF ScheduleAlone, ring, waits, frames
  <1>2. ASSUME NEW t \in Thread, ScheduleNext(t) PROVE TypeOK'
    <2>1. /\ status' \in [Thread -> Statuses] /\ wait_for' \in [Thread -> SUBSET Flags]
          /\ fds' \in [Thread -> SUBSET Fd] /\ scheduling' \in BOOLEAN
      BY <1>2 DEF ScheduleNext, Schedules
    <2>2. context' \in [Thread -> {"none", "saved", "stale"}]
      BY <1>2 DEF ScheduleNext, Restore, SaveCurr
    <2>3. terminating' \subseteq Thread /\ last_status' \in [Thread -> {"RUNNABLE", "TO_KILL"}]
          /\ pc' \in [Thread -> Resume] /\ unwinding' \in [Thread -> Tags]
      BY <1>2 DEF ScheduleNext, Deliver, frames, Resume, Tags
    <2> QED BY <1>2, <2>1, <2>2, <2>3 DEF ScheduleNext
  <1>3. CASE ScheduleDeadlock
    <2>1. /\ status' \in [Thread -> Statuses] /\ wait_for' \in [Thread -> SUBSET Flags]
          /\ fds' \in [Thread -> SUBSET Fd] /\ scheduling' \in BOOLEAN
      BY <1>3 DEF ScheduleDeadlock, Schedules, Statuses
    <2>2. context' \in [Thread -> {"none", "saved", "stale"}]
      BY <1>3 DEF ScheduleDeadlock, MainJump, Restore
    <2>3. last_status' \in [Thread -> {"RUNNABLE", "TO_KILL"}]
          /\ pc' \in [Thread -> Resume] /\ unwinding' \in [Thread -> Tags]
      BY <1>3 DEF ScheduleDeadlock, MainJump, Deliver, Resume, Tags
    <2> QED BY <1>3, <2>1, <2>2, <2>3, ThreadAssumption DEF ScheduleDeadlock, MainJump
  <1>4. ASSUME NEW t \in Thread, Tick(t) PROVE TypeOK'
    BY <1>4 DEF Tick, Flags, ring, frames
  <1>5. ASSUME NEW f \in Fd, FdChange(f) PROVE TypeOK'
    BY <1>5 DEF FdChange, ring, waits, frames
  <1>6. CASE ScheduleAgain
    <2>1. StrippedFds \in [Thread -> SUBSET Fd]
      BY DEF StrippedFds
    <2> QED BY <1>6, <2>1 DEF ScheduleAgain, ring, frames
  <1> QED BY <1>1, <1>2, <1>3, <1>4, <1>5, <1>6 DEF Schedule, Env

(* Every variable keeps its type, for every program.                       *)
THEOREM TypeCorrect == Spec => []TypeOK
  <1>1. Init => TypeOK
    <2> SUFFICES ASSUME Init PROVE TypeOK
      OBVIOUS
    <2>1. next \in [Thread -> Thread \cup {Null}] /\ prev \in [Thread -> Thread \cup {Null}]
      BY ThreadAssumption DEF Init
    <2>2. status \in [Thread -> Statuses] /\ context \in [Thread -> {"none", "saved", "stale"}]
      BY DEF Init, Statuses
    <2>3. priority \in [Thread -> Prio]
      BY PrioAssumption DEF Init
    <2>4. wait_for \in [Thread -> SUBSET Flags] /\ fds \in [Thread -> SUBSET Fd]
          /\ join \in [Thread -> Thread \cup {Null}]
      BY DEF Init
    <2>5. last_status \in [Thread -> {"RUNNABLE", "TO_KILL"}]
          /\ pc \in [Thread -> Resume] /\ unwinding \in [Thread -> Tags]
      BY DEF Init, Resume, Tags
    <2> QED BY <2>1, <2>2, <2>3, <2>4, <2>5, ThreadAssumption DEF Init, TypeOK
  <1>2. TypeOK /\ [Next]_vars => TypeOK'
    <2>1. ASSUME TypeOK, UNCHANGED vars PROVE TypeOK'
      BY <2>1 DEF TypeOK, vars, ring, waits, frames, ends
    <2> QED BY <2>1, LifeType, OperationType, ReturnType, ScheduleType DEF Next
  <1> QED BY <1>1, <1>2, PTL DEF Spec

-----------------------------------------------------------------------------
(* The ring and the saved contexts: together they are inductive.           *)
RingInv == RingOK /\ CurrOK /\ ContextSaved

(* A thread alone in its cycle is the only living thread.                  *)
LEMMA SelfLoop ==
    ASSUME RingOK, NEW t \in Ring, next[t] = t \/ prev[t] = t
    PROVE  Ring = {t}
  <1>1. next[t] = t
    BY DEF RingOK, Linked
  <1>2. {t} \in SUBSET Ring /\ {t} # {} /\ \A u \in {t} : next[u] \in {t}
    BY <1>1
  <1> QED BY <1>2 DEF RingOK, OneCycle

(* A step that neither links nor unlinks a thread keeps the ring.          *)
LEMMA RingKept ==
    ASSUME RingOK, Ring' = Ring, next' = next, prev' = prev
    PROVE  RingOK'
  <1>1. Linked' /\ main_thread \in Ring'
    BY DEF RingOK, Linked
  <1>2. OneCycle'
    BY DEF RingOK, OneCycle
  <1> QED BY <1>1, <1>2 DEF RingOK

(* A step that leaves the ring, the running thread and the contexts alone. *)
LEMMA QuietStep ==
    ASSUME RingInv, Ring' = Ring, next' = next, prev' = prev, curr_thread' = curr_thread,
           context' = context, fatal' = fatal,
           curr_thread \in Ring \/ (scheduling' = scheduling /\ status' = status)
    PROVE  RingInv'
  <1>1. RingOK'
    BY RingKept DEF RingInv
  <1>2. CurrOK'
    BY DEF RingInv, CurrOK
  <1>3. ContextSaved'
    BY DEF RingInv, ContextSaved
  <1> QED BY <1>1, <1>2, <1>3 DEF RingInv

(* A switch to a living thread that saves what it leaves.                  *)
LEMMA SwitchStep ==
    ASSUME RingInv, Ring' = Ring, next' = next, prev' = prev, curr_thread' \in Ring,
           Ring # {curr_thread'} => \A t \in Ring : context'[t] # "none",
           fatal' \/ \A t \in Ring \ {curr_thread'} : context'[t] = "saved"
    PROVE  RingInv'
  <1>1. RingOK'
    BY RingKept DEF RingInv
  <1>2. CurrOK'
    BY DEF CurrOK
  <1>3. ContextSaved'
    BY DEF ContextSaved
  <1> QED BY <1>1, <1>2, <1>3 DEF RingInv

(* rb_thread_start_0 links the new thread into the cycle.                  *)
LEMMA StartStep ==
    ASSUME TypeOK, RingInv, NEW t \in Thread, Start(t)
    PROVE  RingInv'
  <1> DEFINE c == curr_thread
             n == next[c]
  <1>1. c \in Ring /\ n \in Ring /\ t \notin Ring /\ c # t /\ n # t
    BY DEF RingInv, CurrOK, RingOK, Linked, Start, MayCall, Ring
  <1>2. Ring' = Ring \cup {t}
    BY <1>1 DEF Ring, Start, TypeOK
  <1>3. next'[c] = t /\ next'[t] = n /\ prev'[n] = t /\ prev'[t] = c
    BY <1>1 DEF Start, TypeOK, Ring
  <1>4. /\ \A u \in Ring \ {c} : next'[u] = next[u]
        /\ \A u \in Ring \ {n} : prev'[u] = prev[u]
    BY <1>1 DEF Start, TypeOK, Ring
  <1>5. Linked'
    <2>1. \A u \in Ring : /\ next[u] \in Ring /\ prev[next[u]] = u
                          /\ prev[u] \in Ring /\ next[prev[u]] = u
      BY DEF RingInv, RingOK, Linked
    <2>2. \A u \in Ring \ {c} : next[u] # n
      BY <2>1, <1>1
    <2>3. \A u \in Ring \ {n} : prev[u] # c
      BY <2>1, <1>1
    <2> QED BY <2>1, <2>2, <2>3, <1>1, <1>2, <1>3, <1>4 DEF Linked
  <1>6. OneCycle'
    <2> SUFFICES ASSUME NEW S \in SUBSET Ring', S # {}, \A u \in S : next'[u] \in S
                 PROVE  S = Ring'
      BY DEF OneCycle
    <2>1. S \ {t} # {}
      BY <1>1, <1>3
    <2>2. \A u \in S \ {t} : next[u] \in S \ {t}
      <3> SUFFICES ASSUME NEW u \in S \ {t} PROVE next[u] \in S \ {t}
        OBVIOUS
      <3>1. CASE u = c
        BY <3>1, <1>1, <1>3
      <3>2. CASE u # c
        BY <3>2, <1>1, <1>2, <1>4 DEF RingInv, RingOK, Linked
      <3> QED BY <3>1, <3>2
    <2>3. S \ {t} = Ring
      BY <1>2, <2>1, <2>2 DEF RingInv, RingOK, OneCycle
    <2> QED BY <1>1, <1>2, <1>3, <2>3
  <1>7. CurrOK'
    BY <1>2 DEF CurrOK, Start
  <1>8. ContextSaved'
    <2>1. \A u \in Ring \ {c} : context[u] # "none" /\ (~fatal => context[u] = "saved")
      BY <1>1 DEF RingInv, ContextSaved
    <2>2. /\ context'[c] = "saved" /\ context'[t] = "stale"
          /\ \A u \in Ring \ {c} : context'[u] = context[u]
      BY <1>1 DEF Start, TypeOK, Ring
    <2> QED BY <1>1, <1>2, <2>1, <2>2 DEF ContextSaved, Start, ends
  <1> QED BY <1>2, <1>5, <1>6, <1>7, <1>8 DEF RingInv, RingOK

(* rb_thread_remove takes the running thread out of the cycle.             *)
LEMMA RemoveStep ==
    ASSUME TypeOK, RingInv, MayEnd, NEW st \in [Thread -> Statuses],
           Remove(curr_thread, st),
           \A u \in Thread : u \in Ring <=> st[u] \notin {"UNBORN", "KILLED"}
    PROVE  /\ RingOK'
           /\ Ring' = Ring \ {curr_thread}
           /\ curr_thread \in Ring
           /\ prev'[curr_thread] \in Ring' /\ status'[curr_thread] = "KILLED"
  <1> DEFINE c == curr_thread
             n == next[c]
             p == prev[c]
  <1>1. c \in Ring /\ main_thread \in Ring /\ main_thread # c
    BY DEF RingInv, CurrOK, RingOK, MayEnd
  <1>2. n \in Ring /\ p \in Ring /\ prev[n] = c /\ next[p] = c
    BY <1>1 DEF RingInv, RingOK, Linked
  <1>3. n # c /\ p # c
    BY <1>1, SelfLoop DEF RingInv
  <1>4. Ring' = Ring \ {c}
    BY <1>1 DEF Ring, Remove, Statuses
  <1>5. /\ next'[p] = n /\ prev'[n] = p /\ prev'[c] = p /\ status'[c] = "KILLED"
        /\ \A u \in Ring \ {p} : next'[u] = next[u]
        /\ \A u \in Ring \ {n} : prev'[u] = prev[u]
    BY <1>1, <1>2, <1>3 DEF Remove, TypeOK, Ring
  <1>6. Linked'
    <2>1. \A u \in Ring : /\ next[u] \in Ring /\ prev[next[u]] = u
                          /\ prev[u] \in Ring /\ next[prev[u]] = u
      BY DEF RingInv, RingOK, Linked
    <2>2. \A u \in Ring \ {p} : next[u] # c
      BY <2>1
    <2>3. \A u \in Ring \ {n} : prev[u] # c
      BY <2>1
    <2>4. \A u \in Ring \ {c, p} : next'[u] \in Ring \ {c} /\ prev'[next'[u]] = u
      BY <2>1, <2>2, <1>2, <1>5
    <2>5. \A u \in Ring \ {c, n} : prev'[u] \in Ring \ {c} /\ next'[prev'[u]] = u
      BY <2>1, <2>3, <1>2, <1>5
    <2> QED BY <2>4, <2>5, <1>2, <1>3, <1>4, <1>5 DEF Linked
  <1>7. OneCycle'
    <2> SUFFICES ASSUME NEW S \in SUBSET Ring', S # {}, \A u \in S : next'[u] \in S
                 PROVE  S = Ring'
      BY DEF OneCycle
    <2>1. CASE p \in S
      <3>1. \A u \in S \cup {c} : next[u] \in S \cup {c}
        BY <2>1, <1>2, <1>3, <1>4, <1>5
      <3>2. S \cup {c} \in SUBSET Ring /\ S \cup {c} # {}
        BY <1>1, <1>4
      <3>3. S \cup {c} = Ring
        BY <3>1, <3>2, Zenon DEF RingInv, RingOK, OneCycle
      <3>4. c \notin S
        BY <1>4
      <3> QED BY <3>3, <3>4, <1>4
    <2>2. CASE p \notin S
      <3>1. \A u \in S : next[u] \in S
        BY <2>2, <1>4, <1>5
      <3>2. S = Ring
        BY <3>1, <1>4 DEF RingInv, RingOK, OneCycle
      <3> QED BY <3>2, <2>2, <1>2
    <2> QED BY <2>1, <2>2
  <1> QED BY <1>1, <1>2, <1>3, <1>4, <1>5, <1>6, <1>7 DEF RingOK

(* The end of a thread, whatever ended it: the scheduler or the main       *)
(* thread goes on.                                                         *)
LEMMA EndStep ==
    ASSUME TypeOK, RingInv, MayEnd, NEW st \in [Thread -> Statuses],
           Remove(curr_thread, st),
           \A u \in Thread : u \in Ring <=> st[u] \notin {"UNBORN", "KILLED"},
           fatal' = fatal,
           \/ /\ scheduling' /\ curr_thread' = curr_thread
              /\ context' = [context EXCEPT ![curr_thread] = "none"]
           \/ /\ curr_thread' = main_thread
              /\ context' = Restore([context EXCEPT ![curr_thread] = "none"], main_thread)
    PROVE  RingInv'
  <1>1. /\ RingOK' /\ Ring' = Ring \ {curr_thread} /\ curr_thread \in Ring
        /\ prev'[curr_thread] \in Ring' /\ status'[curr_thread] = "KILLED"
    BY RemoveStep
  <1>2. main_thread \in Ring /\ main_thread # curr_thread
    BY DEF RingInv, RingOK, MayEnd
  <1>3. \A u \in Ring \ {curr_thread} : context[u] # "none" /\ (~fatal => context[u] = "saved")
    BY <1>2 DEF RingInv, ContextSaved
  <1>4. CurrOK'
    BY <1>1, <1>2 DEF CurrOK
  <1>5. \A u \in Ring' : context'[u] = context[u] \/ (u = curr_thread' /\ context'[u] = "stale")
    BY <1>1, <1>2 DEF TypeOK, Ring, Restore
  <1>6. ContextSaved'
    BY <1>1, <1>3, <1>5 DEF ContextSaved
  <1> QED BY <1>1, <1>4, <1>6 DEF RingInv

(* rb_thread_cleanup revives nobody.                                       *)
LEMMA CleanupRing ==
    ASSUME TypeOK
    PROVE  /\ CleanupStatus \in [Thread -> Statuses]
           /\ \A u \in Thread : u \in Ring <=> CleanupStatus[u] \notin {"UNBORN", "KILLED"}
  <1> SUFFICES ASSUME NEW u \in Thread
               PROVE  /\ CleanupStatus[u] \in Statuses
                      /\ u \in Ring <=> CleanupStatus[u] \notin {"UNBORN", "KILLED"}
    BY DEF CleanupStatus
  <1>1. CASE u \notin Ring
    BY <1>1 DEF CleanupStatus, TypeOK, Ring
  <1>2. CASE u \in Ring
    BY <1>2 DEF CleanupStatus, ReadyStatus, Statuses
  <1> QED BY <1>1, <1>2

LEMMA LifeStep ==
    ASSUME TypeOK, RingInv, End
    PROVE  RingInv'
  <1>1. \A u \in Thread : u \in Ring <=> status[u] \notin {"UNBORN", "KILLED"}
    BY DEF Ring
  <1>2. status \in [Thread -> Statuses]
    BY DEF TypeOK
  <1>3. CASE EndQuietly
    BY <1>1, <1>2, <1>3, EndStep DEF EndQuietly, ends
  <1>4. CASE EndByException
    BY <1>1, <1>2, <1>4, EndStep DEF EndByException, ends
  <1>5. CASE EndByExit
    BY <1>1, <1>2, <1>5, EndStep DEF EndByExit
  <1>6. CASE EndByFatal
    BY <1>6, CleanupRing, EndStep DEF EndByFatal
  <1>7. CASE MainEnd
    <2>1. Ring' = Ring
      BY <1>7, CleanupRing DEF MainEnd, Ring
    <2>2. curr_thread \in Ring
      BY <1>7 DEF MainEnd, RingInv, RingOK
    <2> QED BY <1>7, <2>1, <2>2, QuietStep DEF MainEnd, ends
  <1>8. CASE WaitOthers
    <2>1. Ring' = Ring
      BY <1>8 DEF WaitOthers, Ring, ring
    <2>2. curr_thread \in Ring
      BY <1>8 DEF WaitOthers, RingInv, RingOK
    <2> QED BY <1>8, <2>1, <2>2, QuietStep DEF WaitOthers, ring
  <1> QED BY <1>3, <1>4, <1>5, <1>6, <1>7, <1>8 DEF End

(* The running thread, when it executes, is alive.                         *)
LEMMA CurrAlive ==
    ASSUME RingInv, ~scheduling
    PROVE  curr_thread \in Ring
  BY DEF RingInv, CurrOK

LEMMA OperationStep ==
    ASSUME TypeOK, RingInv, Operation \/ Preempt
    PROVE  RingInv'
  <1> USE DEF TypeOK
  <1>1. CASE Rescue \/ RaiseError \/ Exit \/ Pass \/ Preempt
    <2>1. Ring' = Ring
      BY <1>1 DEF Rescue, RaiseError, Exit, RaiseHere, Pass, Preempt, Yield, Ring, ring
    <2> QED BY <1>1, <2>1, CurrAlive, QuietStep
        DEF Rescue, RaiseError, Exit, RaiseHere, Pass, Preempt, Yield, MayCall, ring, ends
  <1>2. CASE Block
    <2>1. ~scheduling /\ status' = [status EXCEPT ![curr_thread] = "STOPPED"]
      BY <1>2 DEF Block, WaitFd, FdWritable, Select, WaitFor, SleepForever, Polling, Sleep, MayCall
    <2>2. Ring' = Ring
      BY <2>1, CurrAlive DEF Ring
    <2> QED BY <1>2, <2>1, <2>2, CurrAlive, QuietStep DEF Block, ends
  <1>3. CASE Stop
    <2>1. Ring' = Ring
      BY <1>3, CurrAlive DEF Stop, MayCall, RaiseHere, Sleep, Ring, ring
    <2> QED BY <1>3, <2>1, CurrAlive, QuietStep DEF Stop, MayCall, RaiseHere, ring, ends
  <1>4. CASE JoinInCritical
    <2>1. Ring' = Ring
      BY <1>4 DEF JoinInCritical, Ring
    <2>2. main_thread \in Ring /\ curr_thread \in Ring
      BY <1>4, CurrAlive DEF JoinInCritical, MayCall, RingInv, RingOK
    <2>3. Ring # {main_thread} => \A t \in Ring : context'[t] # "none"
      BY <1>4, <2>2 DEF JoinInCritical, MainJump, Restore, RingInv, ContextSaved, Ring
    <2> QED BY <1>4, <2>1, <2>2, <2>3, SwitchStep DEF JoinInCritical, MainJump
  <1>5. ASSUME NEW b \in BOOLEAN, CriticalSet(b) PROVE RingInv'
    <2>1. Ring' = Ring
      BY <1>5 DEF CriticalSet, Ring, ring
    <2> QED BY <1>5, <2>1, QuietStep DEF CriticalSet, ring, ends
  <1>6. ASSUME NEW t \in Thread, Wakeup(t) PROVE RingInv'
    <2>1. Ring' = Ring
      BY <1>6 DEF Wakeup, RaiseHere, Ready, ReadyStatus, Ring, ring
    <2> QED BY <1>6, <2>1, CurrAlive, QuietStep DEF Wakeup, MayCall, RaiseHere, ring, ends
  <1>7. ASSUME NEW t \in Thread, Kill(t) PROVE RingInv'
    <2>1. Ring' = Ring
      BY <1>7 DEF Kill, RaiseHere, Ring, ring
    <2> QED BY <1>7, <2>1, CurrAlive, QuietStep DEF Kill, MayCall, RaiseHere, ring, ends
  <1>8. ASSUME NEW t \in Thread, Raise(t) PROVE RingInv'
    <2>1. Ring' = Ring
      BY <1>8 DEF Raise, Ready, ReadyStatus, Ring
    <2>2. curr_thread \in Ring /\ t \in Ring /\ status[curr_thread] # "KILLED"
      BY <1>8, CurrAlive DEF Raise, MayCall, Ring
    <2>3. CASE t = curr_thread
      BY <1>8, <2>1, <2>2, <2>3, QuietStep DEF Raise, ends
    <2>4. CASE t # curr_thread
      <3>1. \A u \in Ring : context[u] # "none" /\ (~fatal /\ u # curr_thread => context[u] = "saved")
        BY <2>2, <2>4 DEF RingInv, ContextSaved
      <3>2. context' = [[context EXCEPT ![curr_thread] = "saved"] EXCEPT ![t] = "stale"]
        BY <1>8, <2>2, <2>4 DEF Raise, Restore, SaveCurr
      <3>3. \A u \in Ring \ {t} : context'[u] = context[u] \/ context'[u] = "saved"
        BY <3>2 DEF Ring
      <3>4. context'[t] = "stale" /\ context'[curr_thread] = "saved"
        BY <3>2, <2>4
      <3>5. \A u \in Ring \ {t, curr_thread} : context'[u] = context[u]
        BY <3>2 DEF Ring
      <3>6. curr_thread' = t /\ next' = next /\ prev' = prev /\ fatal' = fatal
        BY <1>8 DEF Raise, ends
      <3>7. \A u \in Ring : context'[u] # "none"
        BY <3>1, <3>3, <3>4
      <3>8. fatal' \/ \A u \in Ring \ {t} : context'[u] = "saved"
        BY <3>1, <3>4, <3>5, <3>6
      <3> QED BY <2>1, <2>2, <3>6, <3>7, <3>8, SwitchStep
    <2> QED BY <2>3, <2>4
  <1>9. ASSUME NEW t \in Thread, NEW op \in {"join", "limited_join", "value"}, Join(t, op)
        PROVE  RingInv'
    <2>1. Ring' = Ring
      BY <1>9, CurrAlive DEF Join, MayCall, JoinAlive, JoinRefused, Ring
    <2> QED BY <1>9, <2>1, CurrAlive, QuietStep DEF Join, MayCall, ends
  <1>10. ASSUME NEW t \in Thread, NEW p \in Prio, PrioritySet(t, p) PROVE RingInv'
    <2>1. Ring' = Ring
      BY <1>10 DEF PrioritySet, Ring
    <2> QED BY <1>10, <2>1, CurrAlive, QuietStep DEF PrioritySet, MayCall, ends
  <1>11. ASSUME NEW t \in Thread, Start(t) PROVE RingInv'
    BY <1>11, StartStep
  <1>12. CASE \E t \in Thread :
                 \/ Start(t) \/ Wakeup(t) \/ Kill(t) \/ Raise(t)
                 \/ \E op \in {"join", "limited_join", "value"} : Join(t, op)
                 \/ \E p \in Prio : PrioritySet(t, p)
    BY <1>12, <1>6, <1>7, <1>8, <1>9, <1>10, <1>11
  <1>13. CASE \E b \in BOOLEAN : CriticalSet(b)
    BY <1>13, <1>5
  <1> QED BY <1>1, <1>2, <1>3, <1>4, <1>12, <1>13, Zenon DEF Operation

LEMMA ReturnStep ==
    ASSUME TypeOK, RingInv, Return
    PROVE  RingInv'
  <1> USE DEF TypeOK
  <1>1. curr_thread \in Ring
    BY CurrAlive DEF Return, StopReturn, JoinReturn, ValueReturn, Returned
  <1> DEFINE st == [status EXCEPT ![curr_thread] = last_status[curr_thread]]
  <1>2. ASSUME status' = st PROVE Ring' = Ring
    BY <1>1, <1>2 DEF Ring
  <1>3. CASE StopReturn \/ JoinReturn
    BY <1>1, <1>2, <1>3, QuietStep DEF StopReturn, JoinReturn, ends
  <1>4. CASE ValueReturn
    <2>1. Ring' = Ring /\ next' = next /\ prev' = prev
      <3>1. CASE status' = st
        BY <1>2, <1>4, <3>1 DEF ValueReturn
      <3>2. CASE JoinAlive(join[curr_thread], "value", st)
        BY <1>1, <1>4, <3>2 DEF ValueReturn, JoinAlive, Ring
      <3> QED BY <1>4, <3>1, <3>2 DEF ValueReturn, JoinRefused
    <2>2. CASE UNCHANGED <<context, curr_thread, fatal, jumped>>
      BY <1>1, <2>1, <2>2, QuietStep
    <2>3. CASE MainJump("RAISE", context) /\ fatal' = TRUE
      <3>1. main_thread \in Ring /\ curr_thread' = main_thread
        BY <2>3 DEF MainJump, RingInv, RingOK
      <3>2. Ring # {main_thread} => \A t \in Ring : context'[t] # "none"
        BY <1>1, <2>3, <3>1 DEF MainJump, Restore, RingInv, ContextSaved, Ring
      <3> QED BY <2>1, <2>3, <3>1, <3>2, SwitchStep
    <2> QED BY <1>4, <2>2, <2>3 DEF ValueReturn
  <1> QED BY <1>3, <1>4 DEF Return

(* The scans of rb_thread_schedule change the status of living threads     *)
(* only, and keep them alive.                                              *)
LEMMA ScannedRing ==
    ASSUME TypeOK
    PROVE  \A t \in Thread : t \in Ring <=> Scanned[t] \notin {"UNBORN", "KILLED"}
  BY DEF TypeOK, Scanned, Joined, TimedOut, Stopped, Selected, Expired, Ring

LEMMA ScheduleStep ==
    ASSUME TypeOK, RingInv, Schedule
    PROVE  RingInv'
  <1>1. CASE ScheduleAlone
    <2>1. Ring' = Ring /\ curr_thread \in Ring
      BY <1>1 DEF ScheduleAlone, RingInv, CurrOK, Ring, ring
    <2> QED BY <1>1, <2>1, QuietStep DEF ScheduleAlone, ring, ends
  <1>2. ASSUME NEW t \in Thread, ScheduleNext(t) PROVE RingInv'
    <2>1. Ring' = Ring /\ t \in Ring
      BY <1>2, ScannedRing DEF ScheduleNext, IsNext, ToKill, Runnable, Ring
    <2>2. next' = next /\ prev' = prev /\ curr_thread' = t /\ fatal' = fatal
      BY <1>2 DEF ScheduleNext
    <2>3. CASE t = curr_thread /\ Scanned[t] = "RUNNABLE"
      BY <1>2, <2>1, <2>2, <2>3, QuietStep DEF ScheduleNext
    <2>4. CASE ~(t = curr_thread /\ Scanned[t] = "RUNNABLE")
      <3>1. context' = Restore(SaveCurr, t)
        BY <1>2, <2>4 DEF ScheduleNext
      <3>2. curr_thread \in Ring => context'[curr_thread] \in {"saved", "stale"}
        BY <3>1 DEF Restore, SaveCurr, Ring, TypeOK
      <3>3. \A u \in Ring \ {t, curr_thread} : context'[u] = context[u]
        BY <3>1 DEF Restore, SaveCurr, Ring, TypeOK
      <3>4. curr_thread \in Ring /\ curr_thread # t => context'[curr_thread] = "saved"
        BY <3>1 DEF Restore, SaveCurr, Ring, TypeOK
      <3>5. context'[t] = "stale"
        BY <3>1 DEF Restore, SaveCurr, TypeOK
      <3>6. Ring # {t} => \A u \in Ring : context'[u] # "none"
        <4>1. Ring # {t} => \A u \in Ring \ {t, curr_thread} : context[u] # "none"
          BY <2>1 DEF RingInv, ContextSaved
        <4> QED BY <3>2, <3>3, <3>5, <4>1
      <3>7. fatal' \/ \A u \in Ring \ {t} : context'[u] = "saved"
        <4>1. ~fatal => \A u \in Ring \ {curr_thread} : context[u] = "saved"
          BY DEF RingInv, ContextSaved
        <4> QED BY <2>2, <3>3, <3>4, <4>1
      <3> QED BY <2>1, <2>2, <3>6, <3>7, SwitchStep
    <2> QED BY <2>3, <2>4
  <1>3. CASE ScheduleDeadlock
    <2>1. status' = [Scanned EXCEPT ![main_thread] = "TO_KILL"] /\ main_thread \in Ring
      BY <1>3 DEF ScheduleDeadlock, RingInv, RingOK
    <2>2. Ring' = Ring
      BY <2>1, ScannedRing, ScannedType DEF Ring
    <2>3. next' = next /\ prev' = prev /\ curr_thread' = main_thread /\ fatal'
      BY <1>3 DEF ScheduleDeadlock, MainJump
    <2>4. \A u \in Ring : context'[u] = context[u] \/ context'[u] = "stale"
      BY <1>3 DEF ScheduleDeadlock, MainJump, Restore, Ring, TypeOK
    <2>5. \A u \in Ring \cap {curr_thread, main_thread} : context'[u] = "stale"
      BY <1>3 DEF ScheduleDeadlock, MainJump, Restore, Ring, TypeOK
    <2>6. Ring # {main_thread} => \A u \in Ring : context'[u] # "none"
      BY <2>1, <2>4, <2>5 DEF RingInv, ContextSaved
    <2> QED BY <2>1, <2>2, <2>3, <2>6, SwitchStep
  <1>4. CASE ScheduleAgain
    <2>1. Ring' = Ring
      BY <1>4 DEF ScheduleAgain, Ring, ring
    <2> QED BY <1>4, <2>1, QuietStep DEF ScheduleAgain, ring, ends
  <1> QED BY <1>1, <1>2, <1>3, <1>4 DEF Schedule

LEMMA EnvStep ==
    ASSUME TypeOK, RingInv, Env
    PROVE  RingInv'
  <1>1. Ring' = Ring
    BY DEF Env, Tick, FdChange, Ring, ring
  <1> QED BY <1>1, QuietStep DEF Env, Tick, FdChange, ring, ends

(* The living threads always form one cycle around the running thread, no  *)
(* dead thread runs, and no switch meets a thread without a context: the   *)
(* scans of the scheduler terminate and rb_bug("unsaved context") is       *)
(* unreachable, whatever operations the program uses.                      *)
THEOREM RingCorrect == Spec => [](RingOK /\ CurrOK /\ ContextSaved)
  <1>1. Init => RingInv
    <2> SUFFICES ASSUME Init PROVE RingInv
      OBVIOUS
    <2>1. Ring = {main_thread} /\ next[main_thread] = main_thread
          /\ prev[main_thread] = main_thread /\ curr_thread = main_thread
      BY ThreadAssumption DEF Init, Ring
    <2> QED BY <2>1 DEF RingInv, RingOK, Linked, OneCycle, CurrOK, ContextSaved
  <1>2. TypeOK /\ RingInv /\ [Next]_vars => RingInv'
    <2>1. ASSUME RingInv, UNCHANGED vars PROVE RingInv'
      <3>1. Ring' = Ring
        BY <2>1 DEF vars, ring, Ring
      <3> QED BY <2>1, <3>1, QuietStep DEF vars, ring, ends
    <2> QED BY <2>1, LifeStep, OperationStep, ReturnStep, ScheduleStep, EnvStep DEF Next
  <1>3. RingInv => RingOK /\ CurrOK /\ ContextSaved
    BY DEF RingInv
  <1> QED BY <1>1, <1>2, <1>3, TypeCorrect, PTL DEF Spec

(* curr_thread is alive, or dead inside the scheduler with a prev in the   *)
(* ring: the loop "curr = curr->prev" of rb_thread_schedule ends.          *)
THEOREM CurrCorrect == Spec => []CurrOK
  BY RingCorrect, PTL

(* rb_bug("unsaved context") is unreachable.                               *)
THEOREM ContextCorrect == Spec => []ContextSaved
  BY RingCorrect, PTL

(* Inside rb_thread_schedule no operation of class Thread runs.            *)
LEMMA OnlyScheduler ==
    ASSUME Next, scheduling
    PROVE  Schedule \/ Env
  <1>1. ~Operation
    <2>1. ~(Rescue \/ RaiseError \/ Exit \/ Block \/ Stop \/ Pass \/ JoinInCritical)
      BY DEF Rescue, RaiseError, Exit, Block, WaitFd, FdWritable, Select, WaitFor, SleepForever,
             Polling, Stop, Pass, JoinInCritical, MayCall
    <2>2. \A b \in BOOLEAN : ~CriticalSet(b)
      BY DEF CriticalSet, MayCall
    <2>3. \A t \in Thread : ~(Start(t) \/ Wakeup(t) \/ Kill(t) \/ Raise(t))
      BY DEF Start, Wakeup, Kill, Raise, MayCall
    <2>4. \A t \in Thread : \A op \in {"join", "limited_join", "value"} : ~Join(t, op)
      BY DEF Join, MayCall
    <2>5. \A t \in Thread : \A p \in Prio : ~PrioritySet(t, p)
      BY DEF PrioritySet, MayCall
    <2> QED BY <2>1, <2>2, <2>3, <2>4, <2>5, Zenon DEF Operation
  <1>2. ~(Preempt \/ End)
    BY DEF Preempt, End, EndQuietly, EndByException, EndByExit, EndByFatal, MainEnd, WaitOthers,
           MayEnd, MayCall
  <1>3. ~Return
    BY DEF Return, StopReturn, JoinReturn, ValueReturn, Returned
  <1> QED BY <1>1, <1>2, <1>3 DEF Next

(* rb_thread_schedule ends in a thread that is awake, and only it leaves   *)
(* the scheduler: no operation of class Thread runs inside.                *)
THEOREM AwakeCorrect == Spec => SchedulesAwake
  <1> DEFINE Awake == scheduling /\ ~scheduling' => status'[curr_thread'] \in {"RUNNABLE", "TO_KILL"}
  <1>1. ASSUME TypeOK, Next, scheduling, ~scheduling'
        PROVE  status'[curr_thread'] \in {"RUNNABLE", "TO_KILL"}
    <2>1. Schedule \/ Env
      BY <1>1, OnlyScheduler
    <2>4. ~Env
      BY <1>1 DEF Env, Tick, FdChange
    <2>5. CASE ScheduleAlone
      BY <2>5 DEF ScheduleAlone, ring
    <2>6. ASSUME NEW t \in Thread, ScheduleNext(t)
          PROVE  status'[curr_thread'] \in {"RUNNABLE", "TO_KILL"}
      BY <2>6 DEF ScheduleNext, IsNext, ToKill, Runnable
    <2>7. CASE ScheduleDeadlock
      BY <1>1, <2>7, ThreadAssumption, ScannedType DEF ScheduleDeadlock, MainJump
    <2>8. ~ScheduleAgain
      BY <1>1 DEF ScheduleAgain
    <2> QED BY <2>1, <2>4, <2>5, <2>6, <2>7, <2>8 DEF Schedule
  <1>2. TypeOK /\ [Next]_vars => [Awake]_vars
    BY <1>1
  <1> QED BY <1>2, TypeCorrect, PTL DEF Spec, SchedulesAwake

-----------------------------------------------------------------------------
(* Who executes is awake.                                                  *)

(* A thread that has not been started waits for nothing; who executes, but *)
(* for a main thread an error met in its sleep, is awake; and who is in    *)
(* the scheduler and was not put to sleep waits for nothing.               *)
Responsible == ~(jumped /\ curr_thread = main_thread)
AwakeInv ==
    /\ \A t \in Thread : status[t] = "UNBORN" => wait_for[t] = {}
    /\ exited = "no" /\ Responsible =>
          /\ ~scheduling => status[curr_thread] # "STOPPED" /\ wait_for[curr_thread] = {}
          /\ scheduling /\ status[curr_thread] = "RUNNABLE" => wait_for[curr_thread] = {}

(* Operations after which the running thread still runs, or is about to be *)
(* scheduled, as awake as before.                                          *)
LEMMA AwakeKept ==
    ASSUME AwakeInv, exited = "no", ~scheduling,
           UNCHANGED <<status, wait_for, curr_thread, exited, jumped>>
    PROVE  AwakeInv'
  BY DEF AwakeInv, Responsible

(* Operations that put the running thread to sleep.                        *)
LEMMA AwakeAsleep ==
    ASSUME TypeOK, AwakeInv, scheduling', UNCHANGED curr_thread,
           status[curr_thread] # "UNBORN" \/ status'[curr_thread] # "UNBORN",
           status'[curr_thread] \in {"STOPPED", "KILLED"},
           \A t \in Thread \ {curr_thread} :
               status'[t] = "UNBORN" => status[t] = "UNBORN" /\ wait_for'[t] \in {wait_for[t], {}}
    PROVE  AwakeInv'
  BY DEF AwakeInv, Responsible, TypeOK

(* Steps that leave a thread running, or scheduling, that waits for        *)
(* nothing.                                                                *)
LEMMA AwakeRuns ==
    ASSUME TypeOK, AwakeInv,
           status'[curr_thread'] \in {"RUNNABLE", "TO_KILL"}, wait_for'[curr_thread'] = {},
           \A t \in Thread : status'[t] = "UNBORN" =>
               status[t] = "UNBORN" /\ wait_for'[t] \in {wait_for[t], {}}
    PROVE  AwakeInv'
  BY DEF AwakeInv, TypeOK

(* rb_thread_main_jump notes whether it has met the main thread asleep.    *)
LEMMA AwakeJumps ==
    ASSUME AwakeInv, main_thread \in Thread, curr_thread' = main_thread, jumped' = Jumped,
           UNCHANGED <<status[main_thread], wait_for[main_thread]>>,
           \A t \in Thread : status'[t] = "UNBORN" =>
               status[t] = "UNBORN" /\ wait_for'[t] \in {wait_for[t], {}}
    PROVE  AwakeInv'
  BY DEF AwakeInv, Responsible, Jumped

LEMMA AwakeOperation ==
    ASSUME TypeOK, RingInv, AwakeInv, Operation \/ Preempt
    PROVE  AwakeInv'
  <1>0. curr_thread \in Thread /\ main_thread \in Thread
    BY ThreadAssumption DEF TypeOK
  <1>1. CASE Rescue \/ Pass \/ Preempt
    BY <1>1, AwakeKept DEF Rescue, Pass, Preempt, Yield, MayCall, TypeOK, ring, waits, ends, frames
  <1>2. CASE RaiseError \/ Exit
    BY <1>2, AwakeKept DEF RaiseError, Exit, RaiseHere, Deliver, MayCall, TypeOK, ring, waits, ends
  <1>3. ASSUME NEW b \in BOOLEAN, CriticalSet(b) PROVE AwakeInv'
    BY <1>3, AwakeKept DEF CriticalSet, MayCall, ring, waits, ends, frames
  <1>4. CASE Block
    <2>1. /\ scheduling' /\ UNCHANGED curr_thread
          /\ \E F, D : Sleep(F, D)
      BY <1>4 DEF Block, WaitFd, FdWritable, Select, WaitFor, SleepForever, Polling, Sleep, frames
    <2>2. /\ status'[curr_thread] = "STOPPED"
          /\ \A t \in Thread \ {curr_thread} : status'[t] = status[t] /\ wait_for'[t] = wait_for[t]
      BY <1>0, <2>1 DEF Sleep, TypeOK
    <2> QED BY <2>1, <2>2, AwakeAsleep
  <1>5. CASE Stop
    <2>1. CASE Alone
      BY <1>5, <2>1, AwakeKept DEF Stop, RaiseHere, Deliver, MayCall, TypeOK, ring, waits, ends
    <2>2. CASE ~Alone
      <3>1. /\ scheduling' /\ UNCHANGED curr_thread
            /\ status'[curr_thread] = "STOPPED"
            /\ \A t \in Thread \ {curr_thread} : status'[t] = status[t] /\ wait_for'[t] = wait_for[t]
        BY <1>0, <1>5, <2>2 DEF Stop, Sleep, TypeOK
      <3> QED BY <3>1, AwakeAsleep
    <2> QED BY <2>1, <2>2
  <1>6. CASE JoinInCritical
    <2>1. curr_thread' = main_thread /\ jumped' = Jumped /\ UNCHANGED <<status, wait_for>>
      BY <1>6 DEF JoinInCritical, MainJump, waits
    <2> QED BY <1>0, <2>1, AwakeJumps DEF AwakeInv
  <1>7. ASSUME NEW t \in Thread, Start(t) PROVE AwakeInv'
    <2>1. /\ curr_thread' = t /\ status'[t] = "RUNNABLE" /\ status[t] = "UNBORN"
          /\ UNCHANGED wait_for
          /\ \A u \in Thread \ {t} : status'[u] = status[u]
      BY <1>7 DEF Start, TypeOK, waits, frames
    <2> QED BY <2>1, AwakeRuns DEF AwakeInv
  <1>8. ASSUME NEW t \in Thread, Wakeup(t) PROVE AwakeInv'
    <2>1. CASE RaiseHere("RAISE")
      BY <1>8, <2>1, AwakeKept DEF Wakeup, RaiseHere, Deliver, MayCall, TypeOK, ring, waits, ends
    <2>2. CASE t \in Ring /\ Ready(t)
      <3>1. /\ UNCHANGED <<curr_thread, exited, jumped>> /\ exited = "no" /\ ~scheduling
            /\ status'[t] \in {"RUNNABLE", "TO_KILL"} /\ wait_for'[t] = {}
            /\ \A u \in Thread \ {t} : status'[u] = status[u] /\ wait_for'[u] = wait_for[u]
        BY <1>8, <2>2 DEF Wakeup, RaiseHere, Ready, ReadyStatus, MayCall, TypeOK, ends, frames, Ring
      <3> QED BY <1>0, <3>1 DEF AwakeInv, Responsible
    <2> QED BY <1>8, <2>1, <2>2 DEF Wakeup
  <1>9. ASSUME NEW t \in Thread, Kill(t) PROVE AwakeInv'
    <2>1. CASE RaiseHere("EXIT")
      BY <1>9, <2>1, AwakeKept DEF Kill, RaiseHere, Deliver, MayCall, TypeOK, ring, waits, ends
    <2>2. CASE ~RaiseHere("EXIT")
      <3>1. /\ UNCHANGED <<curr_thread, exited, jumped>> /\ exited = "no" /\ ~scheduling
            /\ status'[t] = "TO_KILL" /\ wait_for'[t] = {}
            /\ \A u \in Thread \ {t} : status'[u] = status[u] /\ wait_for'[u] = wait_for[u]
        BY <1>9, <2>2 DEF Kill, MayCall, TypeOK, ends, frames
      <3> QED BY <1>0, <3>1 DEF AwakeInv, Responsible
    <2> QED BY <2>1, <2>2
  <1>10. ASSUME NEW t \in Thread, Raise(t) PROVE AwakeInv'
    <2>1. CASE t = curr_thread
      BY <1>10, <2>1, AwakeKept DEF Raise, MayCall, ends
    <2>2. CASE t # curr_thread
      <3>1. /\ curr_thread' = t /\ status'[t] \in {"RUNNABLE", "TO_KILL"} /\ wait_for'[t] = {}
            /\ \A u \in Thread \ {t} : status'[u] = status[u] /\ wait_for'[u] = wait_for[u]
        BY <1>10, <2>2 DEF Raise, Ready, ReadyStatus, TypeOK
      <3> QED BY <3>1, AwakeRuns
    <2> QED BY <2>1, <2>2
  <1>11. ASSUME NEW t \in Thread, NEW op \in {"join", "limited_join", "value"}, Join(t, op)
         PROVE  AwakeInv'
    <2>0. exited = "no" /\ ~scheduling /\ UNCHANGED <<curr_thread, exited, jumped>>
      BY <1>11 DEF Join, MayCall, ends
    <2>1. CASE JoinAlive(t, op, status)
      <3>1. /\ scheduling' /\ status'[curr_thread] = "STOPPED"
            /\ \A u \in Thread \ {curr_thread} : status'[u] = status[u] /\ wait_for'[u] = wait_for[u]
        BY <1>0, <2>1 DEF JoinAlive, TypeOK
      <3> QED BY <2>0, <3>1, AwakeAsleep
    <2>2. CASE UNCHANGED <<status, wait_for>>
      BY <2>0, <2>2, AwakeKept
    <2> QED BY <1>11, <2>1, <2>2 DEF Join, JoinRefused
  <1>12. ASSUME NEW t \in Thread, NEW p \in Prio, PrioritySet(t, p) PROVE AwakeInv'
    BY <1>12, AwakeKept DEF PrioritySet, MayCall, waits, ends, frames
  <1>13. CASE \E t \in Thread :
                 \/ Start(t) \/ Wakeup(t) \/ Kill(t) \/ Raise(t)
                 \/ \E op \in {"join", "limited_join", "value"} : Join(t, op)
                 \/ \E p \in Prio : PrioritySet(t, p)
    BY <1>13, <1>7, <1>8, <1>9, <1>10, <1>11, <1>12
  <1>14. CASE \E b \in BOOLEAN : CriticalSet(b)
    BY <1>14, <1>3
  <1> QED BY <1>1, <1>2, <1>4, <1>5, <1>6, <1>13, <1>14, Zenon DEF Operation

LEMMA AwakeReturn ==
    ASSUME TypeOK, AwakeInv, Return
    PROVE  AwakeInv'
  <1>0. curr_thread \in Thread /\ ~scheduling /\ exited = "no" /\ UNCHANGED exited
    BY DEF TypeOK, Return, StopReturn, JoinReturn, ValueReturn, Returned, ends
  <1> DEFINE st == [status EXCEPT ![curr_thread] = last_status[curr_thread]]
  <1>1. /\ st[curr_thread] \in {"RUNNABLE", "TO_KILL"}
        /\ \A t \in Thread \ {curr_thread} : st[t] = status[t]
    BY <1>0 DEF TypeOK
  <1> HIDE DEF st
  <1>2. ASSUME status' = st, UNCHANGED <<wait_for, curr_thread, jumped>>
        PROVE  AwakeInv'
    BY <1>0, <1>1, <1>2 DEF AwakeInv, Responsible
  <1>3. CASE StopReturn
    BY <1>2, <1>3 DEF StopReturn, st, waits, ends
  <1>4. CASE JoinReturn
    BY <1>2, <1>4 DEF JoinReturn, st, ends
  <1>5. CASE ValueReturn
    <2>1. CASE status' = st /\ UNCHANGED <<wait_for, curr_thread, jumped>>
      BY <1>2, <2>1
    <2>2. CASE JoinAlive(join[curr_thread], "value", st) /\ UNCHANGED curr_thread
      <3>1. st \in [Thread -> Statuses]
        BY <1>0 DEF TypeOK, st, Statuses
      <3>2. /\ scheduling' /\ status'[curr_thread] = "STOPPED"
            /\ \A u \in Thread \ {curr_thread} : status'[u] = st[u] /\ wait_for'[u] = wait_for[u]
        BY <1>0, <2>2, <3>1 DEF JoinAlive, TypeOK
      <3> QED BY <1>1, <2>2, <3>2, AwakeAsleep
    <2>3. CASE /\ status' = st /\ UNCHANGED wait_for
               /\ curr_thread' = main_thread /\ jumped' = Jumped
      BY <1>0, <1>1, <2>3, ThreadAssumption DEF AwakeInv, Responsible, Jumped
    <2> QED BY <1>5, <2>1, <2>2, <2>3 DEF ValueReturn, JoinRefused, MainJump, st
  <1> QED BY <1>3, <1>4, <1>5 DEF Return

LEMMA AwakeEnd ==
    ASSUME TypeOK, RingInv, AwakeInv, End
    PROVE  AwakeInv'
  <1>0. curr_thread \in Thread /\ main_thread \in Thread /\ ~scheduling /\ curr_thread \in Ring
    BY ThreadAssumption, CurrAlive
       DEF TypeOK, End, EndQuietly, EndByException, EndByExit, EndByFatal, MainEnd, WaitOthers, MayEnd
  <1>1. CASE EndQuietly \/ EndByException
    <2>1. /\ status'[curr_thread] = "KILLED"
          /\ \A t \in Thread \ {curr_thread} : status'[t] = status[t] /\ wait_for'[t] = wait_for[t]
      BY <1>0, <1>1 DEF EndQuietly, EndByException, Remove, EndedWaits, EndedFrame, TypeOK
    <2>2. \/ scheduling' /\ UNCHANGED curr_thread
          \/ exited' = "abort"
      BY <1>1 DEF EndQuietly, EndByException
    <2>3. CASE scheduling' /\ UNCHANGED curr_thread
      BY <2>1, <2>3, AwakeAsleep
    <2>4. CASE exited' = "abort"
      BY <2>1, <2>4 DEF AwakeInv
    <2> QED BY <2>2, <2>3, <2>4
  <1>2. CASE EndByExit
    <2>1. /\ status'[curr_thread] = "KILLED"
          /\ \A t \in Thread \ {curr_thread} : status'[t] = status[t] /\ wait_for'[t] = wait_for[t]
      BY <1>0, <1>2 DEF EndByExit, Remove, EndedWaits, TypeOK
    <2>2. curr_thread' = main_thread /\ jumped' = Jumped /\ curr_thread # main_thread
      BY <1>2 DEF EndByExit, MayEnd
    <2> QED BY <1>0, <2>1, <2>2, AwakeJumps
  <1>3. CASE EndByFatal
    <2>1. /\ status'[curr_thread] = "KILLED" /\ scheduling' /\ UNCHANGED curr_thread
          /\ \A t \in Thread : wait_for'[t] = {}
          /\ \A t \in Thread \ {curr_thread} : status'[t] = CleanupStatus[t]
      BY <1>0, <1>3, CleanupRing DEF EndByFatal, Remove, Cleanup
    <2>2. \A t \in Thread : CleanupStatus[t] = "UNBORN" => status[t] = "UNBORN"
      BY DEF CleanupStatus, ReadyStatus
    <2> QED BY <2>1, <2>2, AwakeAsleep
  <1>4. CASE MainEnd
    <2>1. /\ status' = CleanupStatus /\ UNCHANGED curr_thread /\ curr_thread = main_thread
          /\ \A t \in Thread : wait_for'[t] = {}
      BY <1>4 DEF MainEnd, Cleanup, TypeOK
    <2>2. CleanupStatus[main_thread] \in {"RUNNABLE", "TO_KILL"}
      BY <1>0, <2>1 DEF CleanupStatus, ReadyStatus
    <2>3. \A t \in Thread : CleanupStatus[t] = "UNBORN" => status[t] = "UNBORN"
      BY DEF CleanupStatus, ReadyStatus
    <2>4. /\ status'[curr_thread'] \in {"RUNNABLE", "TO_KILL"} /\ wait_for'[curr_thread'] = {}
          /\ \A t \in Thread : status'[t] = "UNBORN" => status[t] = "UNBORN"
      BY <1>0, <2>1, <2>2, <2>3
    <2> QED BY <2>1, <2>4, AwakeRuns
  <1>5. CASE WaitOthers
    BY <1>0, <1>5 DEF WaitOthers, AwakeInv, Responsible, ring, waits, frames
  <1> QED BY <1>1, <1>2, <1>3, <1>4, <1>5 DEF End

LEMMA AwakeSchedule ==
    ASSUME TypeOK, AwakeInv, Schedule
    PROVE  AwakeInv'
  <1>0. main_thread \in Thread /\ \A t \in Thread : Scanned[t] = "UNBORN" => status[t] = "UNBORN"
    BY ThreadAssumption DEF Scanned
  <1>1. \A t \in Thread : ScannedWait[t] \in {wait_for[t], {}}
    BY DEF ScannedWait
  <1>2. CASE ScheduleAlone
    BY <1>2 DEF ScheduleAlone, AwakeInv, Responsible, ring, waits, frames, ends
  <1>3. ASSUME NEW t \in Thread, ScheduleNext(t) PROVE AwakeInv'
    <2>1. /\ curr_thread' = t /\ status' = Scanned /\ Scanned[t] \in {"RUNNABLE", "TO_KILL"}
          /\ wait_for' = [ScannedWait EXCEPT ![t] = {}]
      BY <1>3 DEF ScheduleNext, IsNext, ToKill, Runnable
    <2>2. wait_for'[t] = {} /\ \A u \in Thread \ {t} : wait_for'[u] = ScannedWait[u]
      BY <2>1, ScannedType
    <2> QED BY <1>0, <1>1, <2>1, <2>2, AwakeRuns
  <1>4. CASE ScheduleDeadlock
    <2>1. /\ curr_thread' = main_thread /\ status' = [Scanned EXCEPT ![main_thread] = "TO_KILL"]
          /\ wait_for' = [ScannedWait EXCEPT ![main_thread] = {}]
      BY <1>4 DEF ScheduleDeadlock, MainJump
    <2>2. /\ wait_for'[main_thread] = {} /\ status'[main_thread] = "TO_KILL"
          /\ \A u \in Thread \ {main_thread} : wait_for'[u] = ScannedWait[u] /\ status'[u] = Scanned[u]
      BY <1>0, <2>1, ScannedType
    <2> QED BY <1>0, <1>1, <2>1, <2>2, AwakeRuns
  <1>5. CASE ScheduleAgain
    BY <1>5 DEF ScheduleAgain, AwakeInv, Responsible, ring, frames, ends
  <1> QED BY <1>2, <1>3, <1>4, <1>5 DEF Schedule

LEMMA AwakeEnv ==
    ASSUME TypeOK, AwakeInv, Env
    PROVE  AwakeInv'
  <1>1. /\ UNCHANGED <<status, curr_thread, exited, jumped, scheduling>>
        /\ \A t \in Thread : wait_for[t] = {} => wait_for'[t] = {}
    BY DEF Env, Tick, FdChange, TypeOK, ring, waits, frames, ends
  <1>2. curr_thread \in Thread
    BY DEF TypeOK
  <1> QED BY <1>1, <1>2 DEF AwakeInv, Responsible

(* The invariants of the ring hold together.                               *)
LEMMA RingHolds == Spec => []RingInv
  <1>1. RingOK /\ CurrOK /\ ContextSaved => RingInv
    BY DEF RingInv
  <1> QED BY <1>1, RingCorrect, PTL

LEMMA AwakeHolds == Spec => []AwakeInv
  <1>1. Init => AwakeInv
    BY ThreadAssumption DEF Init, AwakeInv
  <1>2. TypeOK /\ RingInv /\ AwakeInv /\ [Next]_vars => AwakeInv'
    <2>1. ASSUME AwakeInv, UNCHANGED vars PROVE AwakeInv'
      BY <2>1 DEF AwakeInv, Responsible, vars, ring, waits, frames, ends
    <2> QED BY <2>1, AwakeOperation, AwakeReturn, AwakeEnd, AwakeSchedule, AwakeEnv DEF Next
  <1> QED BY <1>1, <1>2, TypeCorrect, RingHolds, PTL DEF Spec

(* Whichever way a thread came to run, through the scheduler or behind its *)
(* back (Thread#raise, the start of a thread, an error delegated to the    *)
(* main thread), it executes with the status of a thread that is awake.    *)
THEOREM ExecutesAwake == Spec => []RunningAwake
  <1>1. AwakeInv => RunningAwake
    BY DEF AwakeInv, Responsible, RunningAwake, Executing
  <1> QED BY <1>1, AwakeHolds, PTL

-----------------------------------------------------------------------------
(* The scans of the ring meet everybody.                                   *)

Count == Cardinality(Thread)

LEMMA CountNat == Count \in Nat \ {0}
  <1>1. Count \in Nat
    BY ThreadAssumption, FS_CardinalityType DEF Count
  <1>2. Count # 0
    BY ThreadAssumption, FS_EmptySet DEF Count
  <1> QED BY <1>1, <1>2

(* Walk is a function, and follows the links.                              *)
Follows(at, link, c) ==
    /\ DOMAIN at = 0 .. Count /\ at[0] = c
    /\ \A k \in 1 .. Count : at[k] = IF at[k - 1] = Null THEN Null ELSE link[at[k - 1]]

LEMMA WalkFollows ==
    ASSUME NEW link \in [Thread -> Thread \cup {Null}], NEW c \in Thread
    PROVE  Follows(Walk(link, c), link, c)
  <1> DEFINE n == Count
             U == Thread \cup {Null}
             g == [t \in U |-> IF t = Null THEN Null ELSE link[t]]
             G == [i \in 1 .. n |-> g]
             IsWalk(F) == F = [k \in 0 .. n |-> IF k = 0 THEN c ELSE IF F[k-1] = Null THEN Null ELSE link[F[k-1]]]
  <1>1. n \in Nat /\ c \in U
    BY CountNat
  <1>2. g \in [U -> U] /\ \A t \in U : g[t] = IF t = Null THEN Null ELSE link[t]
    BY NullAssumption
  <1> HIDE DEF g
  <1>3. G \in [1 .. n -> [U -> U]] /\ \A i \in 1 .. n : G[i] = g
    BY <1>2
  <1> HIDE DEF G, n, U
  <1>4. PICK F \in [0 .. n -> U] : F[0] = c /\ \A i \in 1 .. n : F[i] = G[i][F[i - 1]]
    <2>1. \E F \in [0 .. n -> U] : Steps(F, c, n, G)
      BY <1>1, <1>3, Recursion
    <2> QED BY <2>1 DEF Steps
  <1>5. \A i \in 1 .. n : F[i] = IF F[i - 1] = Null THEN Null ELSE link[F[i - 1]]
    <2> SUFFICES ASSUME NEW i \in 1 .. n
                 PROVE  F[i] = IF F[i - 1] = Null THEN Null ELSE link[F[i - 1]]
      OBVIOUS
    <2>1. i - 1 \in 0 .. n
      BY <1>1
    <2>2. F[i - 1] \in U /\ F[i] = g[F[i - 1]]
      BY <1>3, <1>4, <2>1
    <2> QED BY <1>2, <2>2
  <1>6. IsWalk(F)
    <2>1. \A i \in 0 .. n : i = 0 \/ i \in 1 .. n
      BY <1>1
    <2> QED BY <1>4, <1>5, <2>1
  <1>7. Walk(link, c) = CHOOSE at : IsWalk(at)
    BY Zenon DEF Walk, n, Count
  <1> DEFINE W == Walk(link, c)
  <1>8. IsWalk(W)
    <2> HIDE DEF IsWalk
    <2> QED BY <1>6, <1>7, Zenon
  <1> HIDE DEF W
  <1>9. DOMAIN W = 0 .. n
    BY <1>8
  <1>10. W[0] = c /\ \A i \in 1 .. n : W[i] = IF W[i - 1] = Null THEN Null ELSE link[W[i - 1]]
    <2>1. 0 \in 0 .. n /\ \A i \in 1 .. n : i \in 0 .. n /\ i # 0
      BY <1>1
    <2> QED BY <1>8, <2>1
  <1> QED BY <1>9, <1>10 DEF Follows, W, n

(* The scan starts at a living thread.                                     *)
LEMMA CurrInRing ==
    ASSUME TypeOK, RingInv
    PROVE  Curr \in Ring
  <1> DEFINE at == Walk(prev, curr_thread)
             IsFirst(k) == at[k] \in Ring /\ \A j \in 0 .. k-1 : at[j] \notin Ring
  <1>1. Follows(at, prev, curr_thread)
    BY WalkFollows DEF TypeOK
  <1>2. 0 \in 0 .. Count /\ 1 \in 1 .. Count /\ 1 \in 0 .. Count /\ 1 - 1 = 0
    BY CountNat
  <1> HIDE DEF at
  <1>3. at[0] = curr_thread /\ at[1] = prev[curr_thread] /\ DOMAIN at = 0 .. Count
    BY <1>1, <1>2, NullAssumption DEF Follows, TypeOK
  <1>4. \E k \in DOMAIN at : IsFirst(k)
    <2>1. CASE curr_thread \in Ring
      <3>1. \A j \in 0 .. 0-1 : FALSE
        OBVIOUS
      <3> QED BY <1>2, <1>3, <2>1, <3>1
    <2>2. CASE curr_thread \notin Ring
      <3>1. prev[curr_thread] \in Ring
        BY <2>2 DEF RingInv, CurrOK
      <3>2. \A j \in 0 .. 1-1 : j = 0
        OBVIOUS
      <3> QED BY <1>2, <1>3, <2>2, <3>1, <3>2
    <2> QED BY <2>1, <2>2
  <1>5. at[CHOOSE k \in DOMAIN at : IsFirst(k)] \in Ring
    BY <1>4
  <1> QED BY <1>5 DEF Curr, at

(* FOREACH_THREAD_FROM meets every living thread, and no other: the ring   *)
(* is one cycle, and the walk is long enough to come back.                 *)
LEMMA ScanMeetsAll ==
    ASSUME TypeOK, RingInv, NEW at, at = Walk(next, Curr)
    PROVE  /\ DOMAIN at = 0 .. Count
           /\ \A t \in Ring : \E k \in 1 .. Count : at[k] = t
  <1>1. Curr \in Ring /\ Ring \subseteq Thread /\ Null \notin Ring
    BY CurrInRing, NullAssumption DEF Ring
  <1>2. Follows(at, next, Curr)
    BY <1>1, WalkFollows DEF TypeOK
  <1>3. /\ DOMAIN at = 0 .. Count /\ at[0] = Curr
        /\ \A k \in 1 .. Count : at[k] = IF at[k - 1] = Null THEN Null ELSE next[at[k - 1]]
    BY <1>2 DEF Follows
  <1>4. \A k \in Nat : k <= Count => at[k] \in Ring
    <2> DEFINE R == {k \in Nat : k <= Count => at[k] \in Ring}
    <2>1. 0 \in R
      BY <1>1, <1>3
    <2>2. ASSUME NEW k \in R PROVE k + 1 \in R
      <3> SUFFICES ASSUME k + 1 <= Count PROVE at[k + 1] \in Ring
        OBVIOUS
      <3>1. k + 1 \in 1 .. Count /\ (k + 1) - 1 = k /\ at[k] \in Ring
        BY CountNat
      <3>2. at[k + 1] = next[at[k]]
        BY <1>1, <1>3, <3>1
      <3> QED BY <3>1, <3>2 DEF RingInv, RingOK, Linked
    <2> HIDE DEF R
    <2>3. R \in SUBSET Nat
      BY DEF R
    <2>4. \A k \in Nat : k \in R
      BY <2>1, <2>2, <2>3, Induction
    <2> QED BY <2>4 DEF R
  <1>5. \A k \in 0 .. Count : at[k] \in Ring
    BY <1>4, CountNat
  <1>6. \A k \in 1 .. Count : at[k] = next[at[k - 1]]
    <2>1. \A k \in 1 .. Count : k - 1 \in 0 .. Count
      BY CountNat
    <2> QED BY <1>1, <1>3, <1>5, <2>1
  <1>7. \E i, j \in 0 .. Count : i < j /\ at[i] = at[j]
    <2> DEFINE f == [k \in 0 .. Count |-> at[k]]
    <2>1. f \in [0 .. Count -> Thread]
      BY <1>1, <1>5
    <2>2. IsFiniteSet(0 .. Count) /\ Cardinality(0 .. Count) = Count + 1
      BY CountNat, FS_Interval
    <2>3. IsFiniteSet(Thread) /\ Cardinality(Thread) < Cardinality(0 .. Count)
      BY <2>2, ThreadAssumption, CountNat DEF Count
    <2> HIDE DEF f
    <2>4. PICK x, y \in 0 .. Count : x # y /\ f[x] = f[y]
      BY <2>1, <2>2, <2>3, FS_PigeonHole
    <2>5. at[x] = at[y]
      BY <2>4 DEF f
    <2>6. x < y \/ y < x
      BY <2>4, CountNat
    <2> QED BY <2>5, <2>6
  <1>8. PICK i \in 0 .. Count, j \in 0 .. Count : i < j /\ at[i] = at[j]
    BY <1>7
  <1> DEFINE S == {at[k] : k \in i + 1 .. j}
  <1>9. \A k \in i + 1 .. j : k \in 1 .. Count /\ k \in 0 .. Count
    BY <1>8, CountNat
  <1>10. S \in SUBSET Ring /\ S # {}
    <2>1. j \in i + 1 .. j
      BY <1>8, CountNat
    <2> QED BY <1>5, <1>9, <2>1
  <1>11. ASSUME NEW k \in i + 1 .. j PROVE next[at[k]] \in S
    <2>1. CASE k = j
      <3>1. i + 1 \in i + 1 .. j /\ (i + 1) - 1 = i
        BY <1>8, CountNat
      <3>2. next[at[i]] = at[i + 1]
        BY <1>6, <1>9, <3>1
      <3> QED BY <1>8, <2>1, <3>1, <3>2
    <2>2. CASE k # j
      <3>1. k + 1 \in i + 1 .. j /\ (k + 1) - 1 = k
        BY <1>8, <2>2, CountNat
      <3>2. next[at[k]] = at[k + 1]
        BY <1>6, <1>9, <3>1
      <3> QED BY <3>1, <3>2
    <2> QED BY <2>1, <2>2
  <1>12. \A t \in S : next[t] \in S
    BY <1>11
  <1>13. S = Ring
    <2> HIDE DEF S
    <2> QED BY <1>10, <1>12 DEF RingInv, RingOK, OneCycle
  <1> QED BY <1>3, <1>9, <1>13

(* One of the threads that wait for a descriptor select reports is met     *)
(* first, and is woken.                                                    *)
LEMMA SomeSelected ==
    ASSUME TypeOK, RingInv, Reported # {}
    PROVE  Selected # {}
  <1>1. PICK f \in Reported : TRUE
    OBVIOUS
  <1> DEFINE Wants(u) == Polls(u) /\ f \in fds[u]
  <1>2. PICK v \in Ring : Wants(v)
    BY DEF Reported, Left, Asked, Stopped
  <1>3. PICK at : at = Walk(next, Curr)
    OBVIOUS
  <1>4. DOMAIN at = 0 .. Count /\ \A t \in Ring : \E k \in 1 .. Count : at[k] = t
    BY <1>3, ScanMeetsAll
  <1> HIDE DEF Wants
  <1> DEFINE P == {k \in 1 .. Count : at[k] \in Ring /\ Wants(at[k])}
  <1>5. P \in SUBSET Nat /\ P # {}
    BY <1>2, <1>4, CountNat
  <1>6. PICK k \in P : \A y \in P : k <= y
    <2> HIDE DEF P
    <2> QED BY <1>5, Smallest
  <1>7. /\ k \in 1 .. Count /\ k \in DOMAIN at \ {0} /\ at[k] \in Ring /\ Wants(at[k])
        /\ \A j \in 1 .. k : j \in 1 .. Count
    BY <1>4, <1>6, CountNat
  <1>8. ASSUME NEW u \in Ring \ {at[k]}, Wants(u) PROVE Before(at[k], u)
    <2>1. ASSUME NEW j \in 1 .. k, at[j] = u PROVE FALSE
      <3>1. j \in P /\ k <= j
        BY <1>6, <1>7, <1>8, <2>1
      <3>2. j = k
        BY <1>7, <3>1, CountNat
      <3> QED BY <1>8, <2>1, <3>2
    <2> QED BY <1>3, <1>7, <2>1 DEF Before
  <1>9. at[k] \in Selected
    BY <1>1, <1>7, <1>8 DEF Selected, Wants
  <1> QED BY <1>9

(* rb_thread_schedule reports a deadlock only when every thread sleeps and *)
(* none until a time: no delay and no dead thread that is joined is        *)
(* overlooked by its three scans, however the ring is linked; and it does  *)
(* so while a thread waits for a descriptor, or sleeps for ever, only      *)
(* behind a select that has failed.                                        *)
THEOREM DeadlocksReal == Spec => DeadlockIsReal
  <1> DEFINE Real(t) == /\ status[t] = "STOPPED"
                        /\ wait_for[t] \cap {"TIME", "PAST"} = {}
                        /\ "JOIN" \in wait_for[t] => status[join[t]] # "KILLED"
                        /\ ~SelectFails => wait_for[t] \subseteq {"JOIN"}
  <1>1. ASSUME TypeOK, RingInv, Next, scheduling, fatal', ~fatal, NEW t \in Ring
        PROVE  Real(t)
    <2>1. ScheduleDeadlock
      BY <1>1, OnlyScheduler
      DEF Schedule, ScheduleAlone, ScheduleNext, ScheduleAgain, Env, Tick, FdChange, ends
    <2>2. ~Blocked /\ ToKill = {} /\ Runnable = {} /\ next[Curr] # Curr
      BY <2>1 DEF ScheduleDeadlock, Schedules
    <2>3. \A u \in Ring : context[u] # "none"
      <3>1. Curr \in Ring /\ next[Curr] \in Ring
        BY <1>1, CurrInRing DEF RingInv, RingOK, Linked
      <3> QED BY <1>1, <2>2, <3>1 DEF RingInv, ContextSaved
    <2>4. \A u \in Ring : /\ u \notin Joined \cup TimedOut \cup Selected \cup Expired
                          /\ status[u] = "STOPPED"
      <3>1. \A u \in Ring : Scanned[u] \notin {"TO_KILL", "RUNNABLE"}
        BY <2>2, <2>3 DEF ToKill, Runnable
      <3>2. \A u \in Ring : u \in Thread /\ status[u] \in {"TO_KILL", "RUNNABLE", "STOPPED"}
        BY <1>1 DEF Ring, TypeOK, Statuses
      <3>3. \A u \in Ring : u \notin Joined \cup TimedOut \cup Selected \cup Expired
        BY <3>1, <3>2 DEF Scanned
      <3> QED BY <3>1, <3>2, <3>3 DEF Scanned
    <2>5. Ring = Stopped /\ Joined = {} /\ TimedOut = {} /\ Selected = {} /\ ~Found
      BY <2>4 DEF Stopped, Joined, TimedOut, Selected, Found
    <2>6. Reported = {}
      BY <1>1, <2>5, SomeSelected
    <2>7. ~NeedSelect \/ (SelectFails /\ ~Delay)
      BY <2>2, <2>5, <2>6 DEF Blocked
    <2>8. wait_for[t] \cap {"TIME", "PAST"} = {}
      BY <2>5, <2>7 DEF NeedSelect, Delay, TimedOut
    <2>9. ~SelectFails => wait_for[t] \subseteq {"JOIN"}
      <3>1. wait_for[t] \in SUBSET Flags
        BY <1>1 DEF TypeOK, Ring
      <3> QED BY <2>5, <2>7, <2>8, <3>1 DEF NeedSelect, Flags
    <2>10. "JOIN" \in wait_for[t] => status[join[t]] # "KILLED"
      BY <2>5 DEF Joined
    <2> QED BY <2>4, <2>8, <2>9, <2>10
  <1>2. TypeOK /\ RingInv /\ [Next]_vars =>
          [scheduling /\ fatal' /\ ~fatal => \A t \in Ring : Real(t)]_vars
    BY <1>1
  <1> QED BY <1>2, TypeCorrect, RingHolds, PTL DEF Spec, DeadlockIsReal

(* The order in which the scan meets the threads is strict.                *)
LEMMA BeforeStrict ==
    ASSUME TypeOK, RingInv, NEW t \in Thread, NEW u \in Thread, Before(t, u), Before(u, t)
    PROVE  FALSE
  <1>1. PICK at : at = Walk(next, Curr)
    OBVIOUS
  <1>2. DOMAIN at = 0 .. Count
    BY <1>1, ScanMeetsAll
  <1>3. PICK k \in 1 .. Count : at[k] = t /\ \A i \in 1 .. k : at[i] # u
    BY <1>1, <1>2, CountNat DEF Before
  <1>4. PICK l \in 1 .. Count : at[l] = u /\ \A i \in 1 .. l : at[i] # t
    BY <1>1, <1>2, CountNat DEF Before
  <1>5. l \in 1 .. k \/ k \in 1 .. l
    BY CountNat
  <1> QED BY <1>3, <1>4, <1>5

(* The scheduler wakes one thread per descriptor: whoever it wakes for     *)
(* descriptors has one of its own among those that select reported, and    *)
(* nobody is woken who waits for that one alone.                           *)
THEOREM FdsWakeOne == Spec => FdWakesOne
  <1> DEFINE Earned(t) ==
               \E f \in fds[t] : /\ fd_state[f] = "ready" \/ SelectFails
                                 /\ \A u \in Thread \ {t} : ByFd(u) => fds[u] # {f}
  <1>1. ASSUME TypeOK, RingInv, Next, scheduling, NEW t \in Thread, ByFd(t)
        PROVE  Earned(t)
    <2>1. \A u \in Thread : ByFd(u) => u \in Selected
      <3>1. SUFFICES ASSUME NEW u \in Thread, ByFd(u) PROVE u \in Selected
        OBVIOUS
      <3>2. status[u] = "STOPPED" /\ status'[u] = "RUNNABLE" /\ u \notin Joined \cup TimedOut
        BY <3>1 DEF ByFd, Stopped
      <3>3. ScheduleDeadlock \/ \E v \in Thread : ScheduleNext(v)
        BY <1>1, <3>2, OnlyScheduler
        DEF Schedule, ScheduleAlone, ScheduleAgain, Env, Tick, FdChange, ring
      <3>4. status'[u] = Scanned[u]
        BY <3>2, <3>3, ScannedType, <1>1, ThreadAssumption DEF ScheduleDeadlock, ScheduleNext
      <3>5. u \notin Expired
        BY <3>1, <3>2 DEF Expired, TimedOut, ByFd
      <3> QED BY <3>2, <3>4, <3>5 DEF Scanned
    <2>2. PICK f \in Reported \cap fds[t] :
             Polls(t) /\ \A u \in Ring \ {t} : Polls(u) /\ f \in fds[u] => Before(t, u)
      BY <1>1, <2>1 DEF Selected
    <2>3. fd_state[f] = "ready" \/ SelectFails
      BY <2>2 DEF Reported
    <2>4. ASSUME NEW u \in Thread \ {t}, ByFd(u), fds[u] = {f} PROVE FALSE
      <3>1. t \in Ring /\ u \in Ring /\ u \in Selected
        BY <1>1, <2>1, <2>4 DEF ByFd, Stopped
      <3>2. Polls(u) /\ Before(u, t)
        BY <2>2, <2>4, <3>1 DEF Selected
      <3>3. Before(t, u)
        BY <2>2, <2>4, <3>1, <3>2
      <3> QED BY <1>1, <3>2, <3>3, BeforeStrict
    <2> QED BY <2>2, <2>3, <2>4
  <1>2. TypeOK /\ RingInv /\ [Next]_vars =>
          [scheduling => \A t \in Thread : ByFd(t) => Earned(t)]_vars
    BY <1>1
  <1> QED BY <1>2, TypeCorrect, RingHolds, PTL DEF Spec, FdWakesOne

-----------------------------------------------------------------------------
(* A kill is not forgotten.                                                *)

(* The program uses neither of the two operations that forget a kill: the  *)
(* polling of Process.wait and flock, and Thread#raise of a thread that    *)
(* sleeps in an ensure clause while it is killed.                          *)
CarriesKills == Calls \cap {"polling", "raise"} = {}

Others == Thread \ {main_thread}
Asleep == {"stop", "join", "limited_join", "value"}

(* A thread that is to be killed waits for nothing, and one that has been  *)
(* told so is to be killed until it is dead, in its status or, while it is *)
(* in Thread.stop or Thread#join, in the local the status is restored      *)
(* from.  A thread comes back there to be killed only for the second time: *)
(* the first time it is thrown out.                                        *)
KillBound(t) ==
    /\ status[t] = "TO_KILL" => wait_for[t] = {}
    /\ t \in terminating /\ status[t] # "KILLED" =>
          /\ pc[t] \in Asleep => last_status[t] = "TO_KILL"
          /\ pc[t] \notin Asleep => status[t] = "TO_KILL"
KillInv ==
    /\ \A t \in Others : KillBound(t)
    /\ ~scheduling /\ curr_thread # main_thread /\ status[curr_thread] = "TO_KILL"
         /\ pc[curr_thread] \in Asleep => curr_thread \in terminating

KillSafe(t) == KillBound(t)' /\ (Doomed(t) => Doomed(t)' \/ status'[t] = "KILLED")
KillStep == KillInv' /\ \A t \in Others : Doomed(t) => Doomed(t)' \/ status'[t] = "KILLED"

(* A thread to which nothing happens.                                      *)
LEMMA KillSame ==
    ASSUME NEW t \in Others, KillInv, status'[t] = status[t], pc'[t] = pc[t],
           last_status'[t] = last_status[t], wait_for[t] = {} => wait_for'[t] = {},
           t \in terminating' => t \in terminating
    PROVE  KillSafe(t)
  BY DEF KillSafe, KillInv, KillBound, Doomed

(* Steps of the running thread that concern no other.                      *)
LEMMA KillAlone ==
    ASSUME TypeOK, KillInv, terminating' = terminating, NEW c \in Thread, c = curr_thread,
           \A t \in Others \ {curr_thread} :
               /\ status'[t] = status[t] /\ pc'[t] = pc[t] /\ last_status'[t] = last_status[t]
               /\ wait_for[t] = {} => wait_for'[t] = {},
           c \in Others => KillSafe(c),
           \/ scheduling' \/ curr_thread' = main_thread
           \/ status'[curr_thread'] # "TO_KILL" \/ pc'[curr_thread'] \notin Asleep
    PROVE  KillStep
  <1>1. \A t \in Others : KillSafe(t)
    BY KillSame
  <1> QED BY <1>1 DEF KillStep, KillSafe, KillInv

(* A thread that is to be killed and comes back from a sleep has it in its *)
(* local.                                                                  *)
LEMMA KillRemembered ==
    ASSUME TypeOK, RingInv, KillInv, ~scheduling, curr_thread \in Others,
           pc[curr_thread] \in Asleep,
           Doomed(curr_thread) \/ curr_thread \in terminating
    PROVE  last_status[curr_thread] = "TO_KILL"
  <1>1. status[curr_thread] # "KILLED"
    BY CurrAlive DEF Ring
  <1> QED BY <1>1 DEF KillInv, KillBound, Doomed, Others, Asleep

(* What the running thread does in interpreted code, and whether it is to  *)
(* be killed.                                                              *)
LEMMA KillSees ==
    ASSUME TypeOK, RingInv, KillInv, ~scheduling, curr_thread \in Others,
           pc[curr_thread] = "user", Doomed(curr_thread) \/ curr_thread \in terminating
    PROVE  status[curr_thread] = "TO_KILL"
  <1>1. status[curr_thread] # "KILLED"
    BY CurrAlive DEF Ring
  <1> QED BY <1>1 DEF KillInv, KillBound, Doomed, Asleep

(* In interpreted code the running thread goes on, or schedules.           *)
LEMMA KillQuiet ==
    ASSUME TypeOK, KillInv, pc[curr_thread] = "user",
           UNCHANGED <<status, wait_for, curr_thread, terminating>>,
           pc'[curr_thread] = "user",
           \A t \in Others \ {curr_thread} : pc'[t] = pc[t] /\ last_status'[t] = last_status[t]
    PROVE  KillStep
  <1>c. PICK c \in Thread : c = curr_thread
    BY DEF TypeOK
  <1>1. c \in Others => KillSafe(c)
    BY <1>c DEF KillSafe, KillInv, KillBound, Doomed, Asleep
  <1> QED BY <1>c, <1>1, KillAlone DEF Asleep

LEMMA KillRaise ==
    ASSUME TypeOK, KillInv, pc[curr_thread] = "user", NEW tag, RaiseHere(tag)
    PROVE  KillStep
  <1>1. UNCHANGED <<status, wait_for, curr_thread, terminating>>
    BY DEF RaiseHere, ring, waits, ends
  <1>2. /\ pc' = [pc EXCEPT ![curr_thread] = "user"]
        /\ last_status' = [last_status EXCEPT ![curr_thread] = "RUNNABLE"]
    BY DEF RaiseHere, Deliver, TypeOK
  <1>3. /\ pc'[curr_thread] = "user"
        /\ \A t \in Others \ {curr_thread} : pc'[t] = pc[t] /\ last_status'[t] = last_status[t]
    BY <1>2 DEF TypeOK, Others
  <1> QED BY <1>1, <1>3, KillQuiet

LEMMA KillOperation ==
    ASSUME TypeOK, RingInv, AwakeInv, KillInv, CarriesKills, Operation \/ Preempt
    PROVE  KillStep
  <1>0. curr_thread \in Thread /\ main_thread \in Thread
    BY ThreadAssumption DEF TypeOK
  <1>c. PICK c \in Thread : c = curr_thread
    BY <1>0
  <1>1. CASE Rescue \/ Pass \/ Preempt
    BY <1>1, KillQuiet DEF Rescue, Pass, Preempt, Yield, MayCall, ring, waits, ends, frames
  <1>2. CASE RaiseError \/ Exit
    BY <1>2, KillRaise DEF RaiseError, Exit, MayCall
  <1>3. ASSUME NEW b \in BOOLEAN, CriticalSet(b) PROVE KillStep
    BY <1>3, KillQuiet DEF CriticalSet, MayCall, ring, waits, ends, frames
  <1>4. CASE Block
    <2>1. /\ scheduling' /\ UNCHANGED <<curr_thread, terminating, pc, last_status>>
          /\ ~scheduling /\ pc[curr_thread] = "user"
          /\ \E F, D : Sleep(F, D)
      BY <1>4 DEF Block, WaitFd, FdWritable, Select, WaitFor, SleepForever, Polling, Sleep, MayCall,
                  frames, ends
    <2>2. status[curr_thread] # "TO_KILL"
      BY <1>4 DEF Block, WaitFd, FdWritable, Select, WaitFor, SleepForever, Polling, MaySwitch, MayCall,
                  CarriesKills
    <2>3. /\ status'[curr_thread] = "STOPPED"
          /\ \A t \in Thread \ {curr_thread} : status'[t] = status[t] /\ wait_for'[t] = wait_for[t]
      BY <1>0, <2>1 DEF Sleep, TypeOK
    <2>4. c \in Others => KillSafe(c)
      BY <1>c, <2>1, <2>2, <2>3, KillSees DEF KillSafe, KillBound, Asleep
    <2> QED BY <1>c, <1>0, <2>1, <2>3, <2>4, KillAlone DEF Others
  <1>5. CASE Stop
    <2>1. CASE Alone
      BY <1>5, <2>1, KillRaise DEF Stop, MayCall
    <2>2. CASE ~Alone
      <3>1. /\ scheduling' /\ UNCHANGED <<curr_thread, terminating>> /\ ~scheduling
            /\ pc[curr_thread] = "user" /\ pc'[curr_thread] = "stop"
            /\ last_status'[curr_thread] = LastStatus(status[curr_thread])
            /\ status'[curr_thread] = "STOPPED"
            /\ \A t \in Thread \ {curr_thread} :
                   /\ status'[t] = status[t] /\ wait_for'[t] = wait_for[t]
                   /\ pc'[t] = pc[t] /\ last_status'[t] = last_status[t]
        BY <1>0, <1>5, <2>2 DEF Stop, Sleep, MayCall, TypeOK, ends
      <3>2. c \in Others => KillSafe(c)
        BY <1>c, <3>1, KillSees DEF KillSafe, KillBound, Doomed, Asleep, LastStatus
      <3> QED BY <1>c, <1>0, <3>1, <3>2, KillAlone DEF Others
    <2> QED BY <2>1, <2>2
  <1>6. CASE JoinInCritical
    <2>1. /\ curr_thread' = main_thread /\ UNCHANGED <<status, wait_for, terminating>>
          /\ \A t \in Others : pc'[t] = pc[t] /\ last_status'[t] = last_status[t]
      BY <1>6 DEF JoinInCritical, MainJump, Deliver, TypeOK, waits, Others
    <2>2. c \in Others => KillSafe(c)
      BY <2>1, KillSame
    <2> QED BY <1>c, <2>1, <2>2, KillAlone
  <1>7. ASSUME NEW t \in Thread, Start(t) PROVE KillStep
    <2>1. /\ curr_thread' = t /\ status'[t] = "RUNNABLE" /\ status[t] = "UNBORN"
          /\ UNCHANGED <<wait_for, pc, last_status, terminating>>
          /\ \A u \in Thread \ {t} : status'[u] = status[u]
      BY <1>7 DEF Start, TypeOK, waits, frames, ends
    <2>2. ASSUME NEW u \in Others PROVE KillSafe(u)
      <3>1. CASE u = t
        BY <2>1, <3>1 DEF KillSafe, KillInv, KillBound, Doomed
      <3>2. CASE u # t
        BY <2>1, <3>2, KillSame DEF Others
      <3> QED BY <3>1, <3>2
    <2> QED BY <2>1, <2>2 DEF KillStep, KillSafe, KillInv
  <1>8. ASSUME NEW t \in Thread, Wakeup(t) PROVE KillStep
    <2>1. CASE RaiseHere("RAISE")
      BY <1>8, <2>1, KillRaise DEF Wakeup, MayCall
    <2>2. CASE t \in Ring /\ Ready(t)
      <3>1. /\ UNCHANGED <<curr_thread, pc, last_status, terminating>> /\ pc[curr_thread] = "user"
            /\ status'[t] = ReadyStatus(t) /\ wait_for'[t] = {}
            /\ \A u \in Thread \ {t} : status'[u] = status[u] /\ wait_for'[u] = wait_for[u]
            /\ status[t] # "KILLED"
        BY <1>8, <2>2 DEF Wakeup, RaiseHere, Ready, MayCall, TypeOK, ends, frames, Ring
      <3>2. ASSUME NEW u \in Others PROVE KillSafe(u)
        <4>1. CASE u = t
          BY <3>1, <4>1 DEF KillSafe, KillInv, KillBound, Doomed, ReadyStatus
        <4>2. CASE u # t
          BY <3>1, <4>2, KillSame DEF Others
        <4> QED BY <4>1, <4>2
      <3> QED BY <3>1, <3>2 DEF KillStep, KillSafe, KillInv, Asleep
    <2> QED BY <1>8, <2>1, <2>2 DEF Wakeup
  <1>9. ASSUME NEW t \in Thread, Kill(t) PROVE KillStep
    <2>1. CASE RaiseHere("EXIT")
      BY <1>9, <2>1, KillRaise DEF Kill, MayCall
    <2>2. CASE ~RaiseHere("EXIT")
      <3>1. /\ UNCHANGED <<curr_thread, pc, last_status, terminating>> /\ pc[curr_thread] = "user"
            /\ status'[t] = "TO_KILL" /\ wait_for'[t] = {} /\ status[t] # "KILLED"
            /\ \A u \in Thread \ {t} : status'[u] = status[u] /\ wait_for'[u] = wait_for[u]
        BY <1>9, <2>2 DEF Kill, MayCall, TypeOK, ends, frames
      <3>2. ASSUME NEW u \in Others PROVE KillSafe(u)
        <4>1. CASE u = t
          BY <3>1, <4>1 DEF KillSafe, KillInv, KillBound, Doomed
        <4>2. CASE u # t
          BY <3>1, <4>2, KillSame DEF Others
        <4> QED BY <4>1, <4>2
      <3> QED BY <3>1, <3>2 DEF KillStep, KillSafe, KillInv, Asleep
    <2> QED BY <2>1, <2>2
  <1>10. ASSUME NEW t \in Thread, Raise(t) PROVE KillStep
    BY <1>10 DEF Raise, MayCall, CarriesKills
  <1>11. ASSUME NEW t \in Thread, NEW op \in {"join", "limited_join", "value"}, Join(t, op)
         PROVE  KillStep
    <2>0. ~scheduling /\ UNCHANGED <<curr_thread, terminating>> /\ pc[curr_thread] = "user"
      BY <1>11 DEF Join, MayCall, ends
    <2>1. CASE JoinAlive(t, op, status)
      <3>1. /\ scheduling' /\ pc'[curr_thread] = op /\ status'[curr_thread] = "STOPPED"
            /\ last_status'[curr_thread] = LastStatus(status[curr_thread])
            /\ \A u \in Thread \ {curr_thread} :
                   /\ status'[u] = status[u] /\ wait_for'[u] = wait_for[u]
                   /\ pc'[u] = pc[u] /\ last_status'[u] = last_status[u]
        BY <1>0, <2>1 DEF JoinAlive, TypeOK
      <3>2. c \in Others => KillSafe(c)
        BY <1>c, <2>0, <3>1, KillSees DEF KillSafe, KillBound, Doomed, Asleep, LastStatus
      <3> QED BY <1>c, <1>0, <2>0, <3>1, <3>2, KillAlone DEF Others
    <2>2. CASE status[t] = "KILLED" \/ JoinRefused(t, status)
      <3>1. /\ UNCHANGED <<status, wait_for>> /\ pc'[curr_thread] = "user"
            /\ \A u \in Others \ {curr_thread} : pc'[u] = pc[u] /\ last_status'[u] = last_status[u]
        BY <1>0, <1>11, <2>0, <2>2 DEF Join, JoinDead, JoinRefused, Deliver, TypeOK, Others
      <3> QED BY <2>0, <3>1, KillQuiet
    <2> QED BY <1>11, <2>1, <2>2 DEF Join
  <1>12. ASSUME NEW t \in Thread, NEW p \in Prio, PrioritySet(t, p) PROVE KillStep
    BY <1>12, KillQuiet DEF PrioritySet, MayCall, waits, ends, frames
  <1>13. CASE \E t \in Thread :
                 \/ Start(t) \/ Wakeup(t) \/ Kill(t) \/ Raise(t)
                 \/ \E op \in {"join", "limited_join", "value"} : Join(t, op)
                 \/ \E p \in Prio : PrioritySet(t, p)
    BY <1>13, <1>7, <1>8, <1>9, <1>10, <1>11, <1>12
  <1>14. CASE \E b \in BOOLEAN : CriticalSet(b)
    BY <1>14, <1>3
  <1> QED BY <1>1, <1>2, <1>4, <1>5, <1>6, <1>13, <1>14, Zenon DEF Operation

LEMMA KillReturn ==
    ASSUME TypeOK, RingInv, AwakeInv, KillInv, Return
    PROVE  KillStep
  <1>0. /\ curr_thread \in Thread /\ ~scheduling /\ exited = "no" /\ pc[curr_thread] \in Asleep
        /\ UNCHANGED terminating
    BY DEF TypeOK, Return, StopReturn, JoinReturn, ValueReturn, Returned, Asleep, ends
  <1>c. PICK c \in Thread : c = curr_thread
    BY <1>0
  <1>1. curr_thread \in Others => wait_for[curr_thread] = {}
    BY <1>0 DEF AwakeInv, Responsible, Others
  <1> DEFINE st == [status EXCEPT ![curr_thread] = last_status[curr_thread]]
  <1>2. /\ st \in [Thread -> Statuses] /\ st[curr_thread] = last_status[curr_thread]
        /\ \A t \in Thread \ {curr_thread} : st[t] = status[t]
    BY <1>0 DEF TypeOK, Statuses
  <1>3. last_status[curr_thread] \in {"RUNNABLE", "TO_KILL"}
    BY <1>0 DEF TypeOK
  <1> HIDE DEF st
  <1>4. ASSUME status' = st, wait_for' = wait_for, pc' = [pc EXCEPT ![curr_thread] = "user"],
               curr_thread' = curr_thread,
               \A t \in Thread \ {curr_thread} : last_status'[t] = last_status[t]
        PROVE  KillStep
    <2>1. /\ pc'[curr_thread] = "user" /\ status'[curr_thread] = last_status[curr_thread]
          /\ \A t \in Others \ {curr_thread} :
                 pc'[t] = pc[t] /\ status'[t] = status[t] /\ last_status'[t] = last_status[t]
      BY <1>0, <1>2, <1>4 DEF TypeOK, Others
    <2>2. c \in Others => KillSafe(c)
      BY <1>c, <1>0, <1>1, <1>4, <2>1, KillRemembered DEF KillSafe, KillBound, Doomed, Asleep
    <2> QED BY <1>c, <1>0, <1>4, <2>1, <2>2, KillAlone DEF Asleep
  <1>5. CASE StopReturn \/ JoinReturn
    <2>1. /\ status' = st /\ wait_for' = wait_for /\ pc' = [pc EXCEPT ![curr_thread] = "user"]
          /\ curr_thread' = curr_thread
          /\ \A t \in Thread \ {curr_thread} : last_status'[t] = last_status[t]
      BY <1>5 DEF StopReturn, JoinReturn, JoinDead, ForgetStatus, TypeOK, st, waits
    <2> QED BY <1>4, <2>1
  <1>6. CASE ValueReturn
    <2> DEFINE u == join[curr_thread]
    <2>1. \/ status' = st /\ JoinDead(u) /\ ForgetStatus /\ UNCHANGED <<wait_for, curr_thread>>
          \/ JoinAlive(u, "value", st) /\ UNCHANGED curr_thread
          \/ JoinRefused(u, st) /\ UNCHANGED curr_thread
          \/ status' = st /\ MainJump("RAISE", context) /\ UNCHANGED wait_for
      BY <1>6 DEF ValueReturn, st
    <2> HIDE DEF u
    <2>2. CASE status' = st /\ JoinDead(u) /\ ForgetStatus /\ UNCHANGED <<wait_for, curr_thread>>
      <3>1. /\ pc' = [pc EXCEPT ![curr_thread] = "user"]
            /\ \A t \in Thread \ {curr_thread} : last_status'[t] = last_status[t]
        BY <2>2 DEF JoinDead, ForgetStatus, TypeOK
      <3> QED BY <1>4, <2>2, <3>1
    <2>3. CASE JoinAlive(u, "value", st) /\ UNCHANGED curr_thread
      <3>1. /\ scheduling' /\ pc'[curr_thread] = "value" /\ status'[curr_thread] = "STOPPED"
            /\ last_status'[curr_thread] = LastStatus(st[curr_thread])
            /\ \A t \in Thread \ {curr_thread} :
                   /\ status'[t] = st[t] /\ wait_for'[t] = wait_for[t]
                   /\ pc'[t] = pc[t] /\ last_status'[t] = last_status[t]
        BY <1>0, <1>2, <2>3 DEF JoinAlive, TypeOK
      <3>2. c \in Others => KillSafe(c)
        BY <1>c, <1>0, <1>2, <3>1, KillRemembered DEF KillSafe, KillBound, Doomed, Asleep, LastStatus
      <3> QED BY <1>c, <1>0, <1>2, <3>1, <3>2, KillAlone DEF Others
    <2>4. CASE JoinRefused(u, st) /\ UNCHANGED curr_thread
      <3>1. /\ status' = st /\ wait_for' = wait_for /\ pc' = [pc EXCEPT ![curr_thread] = "user"]
            /\ \A t \in Thread \ {curr_thread} : last_status'[t] = last_status[t]
        BY <1>0, <2>4 DEF JoinRefused, Deliver, TypeOK, Asleep
      <3> QED BY <1>4, <2>4, <3>1
    <2>5. CASE status' = st /\ MainJump("RAISE", context) /\ UNCHANGED wait_for
      <3>1. /\ curr_thread' = main_thread
            /\ \A t \in Others : pc'[t] = pc[t] /\ last_status'[t] = last_status[t]
        BY <2>5 DEF MainJump, Deliver, TypeOK, Others
      <3>2. c \in Others => KillSafe(c)
        BY <1>c, <1>0, <1>1, <1>2, <2>5, <3>1, KillRemembered DEF KillSafe, KillBound, Doomed, Asleep
      <3> QED BY <1>c, <1>0, <1>2, <2>5, <3>1, <3>2, KillAlone DEF Others
    <2> QED BY <2>1, <2>2, <2>3, <2>4, <2>5
  <1> QED BY <1>5, <1>6 DEF Return

LEMMA KillEnd ==
    ASSUME TypeOK, RingInv, KillInv, End
    PROVE  KillStep
  <1>0. curr_thread \in Thread /\ main_thread \in Thread /\ ~scheduling /\ UNCHANGED terminating
    BY ThreadAssumption
       DEF TypeOK, End, EndQuietly, EndByException, EndByExit, EndByFatal, MainEnd, WaitOthers, MayEnd,
           ends
  <1>c. PICK c \in Thread : c = curr_thread
    BY <1>0
  <1>1. ASSUME status'[c] = "KILLED" PROVE KillSafe(c)
    BY <1>1 DEF KillSafe, KillBound
  <1>2. CASE EndQuietly \/ EndByException \/ EndByExit
    <2>1. /\ status'[curr_thread] = "KILLED"
          /\ \A t \in Thread \ {curr_thread} : status'[t] = status[t] /\ wait_for'[t] = wait_for[t]
      BY <1>0, <1>2 DEF EndQuietly, EndByException, EndByExit, Remove, EndedWaits, TypeOK
    <2>2. \A t \in Others \ {curr_thread} : pc'[t] = pc[t] /\ last_status'[t] = last_status[t]
      BY <1>2 DEF EndQuietly, EndByException, EndByExit, EndedFrame, TypeOK, Others
    <2>3. scheduling' \/ curr_thread' = main_thread
      BY <1>2 DEF EndQuietly, EndByException, EndByExit
    <2> QED BY <1>c, <1>0, <1>1, <2>1, <2>2, <2>3, KillAlone DEF Others
  <1>3. CASE EndByFatal \/ MainEnd
    <2>1. /\ \A t \in Thread : wait_for'[t] = {}
          /\ \A t \in Others : pc'[t] = pc[t] /\ last_status'[t] = last_status[t]
          /\ \A t \in Others \ {curr_thread} : status'[t] = CleanupStatus[t]
          /\ status'[curr_thread] = "KILLED" \/ curr_thread = main_thread
          /\ scheduling' \/ curr_thread' = main_thread
      BY <1>0, <1>3, CleanupRing DEF EndByFatal, MainEnd, Remove, Cleanup, EndedFrame, TypeOK, Others
    <2>2. ASSUME NEW t \in Others PROVE KillSafe(t)
      <3>1. CASE t = curr_thread
        BY <1>c, <1>1, <2>1, <3>1 DEF Others
      <3>2. CASE t # curr_thread /\ t \in Ring
        <4>1. status'[t] = "TO_KILL"
          BY <2>1, <3>2 DEF CleanupStatus, Others
        <4> QED BY <1>0, <2>1, <3>2, <4>1 DEF KillSafe, KillInv, KillBound, Doomed, Ring
      <3>3. CASE t # curr_thread /\ t \notin Ring
        <4>1. status'[t] = status[t]
          BY <2>1, <3>3 DEF CleanupStatus, Others
        <4> QED BY <1>0, <2>1, <4>1, KillSame DEF Others
      <3> QED BY <3>1, <3>2, <3>3
    <2> QED BY <2>1, <2>2 DEF KillStep, KillSafe, KillInv
  <1>4. CASE WaitOthers
    <2>1. UNCHANGED <<status, wait_for, pc, last_status, curr_thread>> /\ curr_thread = main_thread
      BY <1>4 DEF WaitOthers, ring, waits, frames
    <2>2. c \notin Others
      BY <1>c, <2>1 DEF Others
    <2> QED BY <1>c, <1>0, <2>1, <2>2, KillAlone DEF Others
  <1> QED BY <1>2, <1>3, <1>4 DEF End

(* The scans leave the threads that are to be killed alone.                *)
LEMMA KillScanned ==
    ASSUME TypeOK, KillInv, NEW t \in Others
    PROVE  /\ status[t] = "TO_KILL" => Scanned[t] = "TO_KILL"
           /\ Scanned[t] = "TO_KILL" => status[t] = "TO_KILL"
           /\ Scanned[t] = "KILLED" <=> status[t] = "KILLED"
           /\ wait_for[t] = {} => ScannedWait[t] = {}
  <1>1. t \in Thread /\ (status[t] = "TO_KILL" => wait_for[t] = {})
    BY DEF KillInv, KillBound, Others
  <1>2. wait_for[t] = {} => t \notin Selected \cup Expired
    BY DEF Selected, Polls, Expired
  <1>3. status[t] = "TO_KILL" => t \notin Joined \cup TimedOut
    BY DEF Joined, TimedOut, Stopped
  <1>4. Scanned[t] = "KILLED" <=> status[t] = "KILLED"
    BY <1>1 DEF Scanned, Joined, TimedOut, Stopped, Selected, Expired, Ring
  <1> QED BY <1>1, <1>2, <1>3, <1>4 DEF Scanned, ScannedWait

LEMMA KillSchedule ==
    ASSUME TypeOK, KillInv, Schedule
    PROVE  KillStep
  <1>0. main_thread \in Thread
    BY ThreadAssumption
  <1>s. ASSUME NEW t \in Others, status'[t] = Scanned[t], wait_for'[t] \in {ScannedWait[t], {}},
               pc'[t] = pc[t], last_status'[t] = last_status[t],
               t \in terminating' => t \in terminating
        PROVE  KillSafe(t)
    BY <1>s, KillScanned DEF KillSafe, KillInv, KillBound, Doomed
  <1>1. CASE ScheduleAlone
    BY <1>1, KillSame DEF ScheduleAlone, ring, waits, frames, ends, KillStep, KillSafe, KillInv
  <1>2. ASSUME NEW t \in Thread, ScheduleNext(t) PROVE KillStep
    <2>1. /\ curr_thread' = t /\ status' = Scanned
          /\ wait_for' = [ScannedWait EXCEPT ![t] = {}]
      BY <1>2 DEF ScheduleNext
    <2>2. wait_for'[t] = {} /\ \A u \in Thread \ {t} : wait_for'[u] = ScannedWait[u]
      BY <2>1, ScannedType
    <2>3. \A u \in Thread \ {t} : /\ pc'[u] = pc[u] /\ last_status'[u] = last_status[u]
                                  /\ u \in terminating' => u \in terminating
      BY <1>2 DEF ScheduleNext, Deliver, TypeOK, frames
    <2>4. \A u \in Others \ {t} : KillSafe(u)
      BY <1>s, <2>1, <2>2, <2>3 DEF Others
    <2>5. CASE Scanned[t] = "TO_KILL" /\ t \notin terminating
      <3>1. terminating' = terminating \cup {t} /\ pc'[t] \in {"user", "cleanup"}
        BY <1>2, <2>5 DEF ScheduleNext, Deliver, TypeOK
      <3>2. t \in Others => KillSafe(t)
        BY <2>1, <2>2, <2>5, <3>1 DEF KillSafe, KillBound, Doomed, Asleep
      <3> QED BY <2>1, <2>4, <3>1, <3>2 DEF KillStep, KillSafe, KillInv, Asleep
    <2>6. CASE ~(Scanned[t] = "TO_KILL" /\ t \notin terminating)
      <3>1. UNCHANGED <<terminating, pc, last_status>>
        BY <1>2, <2>6 DEF ScheduleNext, frames
      <3>2. t \in Others => KillSafe(t)
        BY <1>s, <2>1, <2>2, <3>1
      <3> QED BY <2>1, <2>4, <2>6, <3>1, <3>2 DEF KillStep, KillSafe, KillInv
    <2> QED BY <2>5, <2>6
  <1>3. CASE ScheduleDeadlock
    <2>1. /\ curr_thread' = main_thread /\ status' = [Scanned EXCEPT ![main_thread] = "TO_KILL"]
          /\ wait_for' = [ScannedWait EXCEPT ![main_thread] = {}] /\ UNCHANGED terminating
      BY <1>3 DEF ScheduleDeadlock, MainJump
    <2>2. \A t \in Others : pc'[t] = pc[t] /\ last_status'[t] = last_status[t]
      BY <1>3 DEF ScheduleDeadlock, MainJump, Deliver, TypeOK, Others
    <2>3. \A t \in Others : wait_for'[t] = ScannedWait[t] /\ status'[t] = Scanned[t]
      BY <1>0, <2>1, ScannedType DEF Others
    <2>4. \A t \in Others : KillSafe(t)
      BY <1>s, <2>1, <2>2, <2>3
    <2> QED BY <2>1, <2>4 DEF KillStep, KillSafe, KillInv
  <1>4. CASE ScheduleAgain
    BY <1>4, KillSame DEF ScheduleAgain, ring, frames, ends, KillStep, KillSafe, KillInv
  <1> QED BY <1>1, <1>2, <1>3, <1>4 DEF Schedule

LEMMA KillEnv ==
    ASSUME TypeOK, KillInv, Env \/ UNCHANGED vars
    PROVE  KillStep
  <1>1. /\ UNCHANGED <<status, pc, last_status, terminating, curr_thread, scheduling>>
        /\ \A t \in Thread : wait_for[t] = {} => wait_for'[t] = {}
    BY DEF Env, Tick, FdChange, TypeOK, vars, ring, waits, frames, ends
  <1>2. \A t \in Others : KillSafe(t)
    BY <1>1, KillSame DEF Others
  <1> QED BY <1>1, <1>2 DEF KillStep, KillSafe, KillInv

LEMMA KillNext ==
    ASSUME TypeOK, RingInv, AwakeInv, KillInv, CarriesKills, [Next]_vars
    PROVE  KillStep
  BY KillOperation, KillReturn, KillEnd, KillSchedule, KillEnv DEF Next

LEMMA KillHolds ==
    ASSUME CarriesKills
    PROVE  Spec => []KillInv
  <1>1. Init => KillInv
    BY ThreadAssumption DEF Init, KillInv, KillBound, Others
  <1>2. TypeOK /\ RingInv /\ AwakeInv /\ KillInv /\ [Next]_vars => KillInv'
    BY KillNext DEF KillStep
  <1> QED BY <1>1, <1>2, TypeCorrect, RingHolds, AwakeHolds, PTL DEF Spec

(* Every thread that is killed stays so over all the sleeps of its ensure  *)
(* clauses, until it is dead, as long as the program does not use the two  *)
(* operations that forget a kill.                                          *)
THEOREM KillsKept ==
    ASSUME CarriesKills
    PROVE  Spec => KillKept
  <1>1. TypeOK /\ RingInv /\ AwakeInv /\ KillInv /\ [Next]_vars =>
          [\A t \in Thread \ {main_thread} : Doomed(t) => Doomed(t)' \/ status'[t] = "KILLED"]_vars
    BY KillNext DEF KillStep, Others
  <1>2. Spec => []KillInv
    BY KillHolds
  <1> QED BY <1>1, <1>2, TypeCorrect, RingHolds, AwakeHolds, PTL DEF Spec, KillKept

-----------------------------------------------------------------------------
(* join waits.                                                             *)

(* The program does not forget kills, nor wake threads that have joined.   *)
Undisturbed == CarriesKills /\ "wakeup" \notin Calls

(* A thread in join sleeps for nothing but the end of the other thread,    *)
(* which is dead else, or it is to be killed.                              *)
JoinBound(t) ==
    pc[t] = "join" =>
        /\ join[t] \in Thread
        /\ \/ status[join[t]] = "KILLED"
           \/ t \in terminating
           \/ status[t] = "TO_KILL" /\ wait_for[t] = {}
           \/ status[t] = "STOPPED" /\ wait_for[t] = {"JOIN"}

(* Only a thread that is being killed unwinds with TAG_FATAL, a thread     *)
(* that has not been started is nowhere, and one that is back in join has  *)
(* a reason.                                                               *)
JoinInv ==
    /\ \A t \in Thread : unwinding[t] = "FATAL" => t \in terminating
    /\ \A t \in Thread : status[t] = "UNBORN" => pc[t] = "user"
    /\ \A t \in Thread : JoinBound(t)
    /\ exited = "no" /\ ~scheduling /\ pc[curr_thread] = "join" /\ curr_thread \notin terminating
          => status[join[curr_thread]] = "KILLED"

(* The dead stay dead, and nobody is spared.                               *)
Mortal ==
    /\ \A t \in Thread : status[t] = "KILLED" => status'[t] = "KILLED"
    /\ terminating \subseteq terminating'

(* What happens to a thread in join.                                       *)
JoinHeld(t) ==
    pc'[t] = "join" =>
        /\ pc[t] = "join" /\ join'[t] = join[t]
        /\ status[t] = "TO_KILL" /\ wait_for[t] = {} =>
               status'[t] = "TO_KILL" /\ wait_for'[t] = {}
        /\ status[t] = "STOPPED" /\ wait_for[t] = {"JOIN"} =>
               \/ status[join[t]] = "KILLED"
               \/ status'[t] = "TO_KILL" /\ wait_for'[t] = {}
               \/ status'[t] = "STOPPED" /\ wait_for'[t] = {"JOIN"}

LEMMA JoinKept ==
    ASSUME NEW t \in Thread, JoinBound(t), Mortal, JoinHeld(t)
    PROVE  JoinBound(t)'
  BY DEF JoinBound, JoinHeld, Mortal

(* Steps of the running thread that leave the others where they are.       *)
LEMMA JoinAlone ==
    ASSUME TypeOK, JoinInv, Mortal, NEW c \in Thread,
           \A t \in Thread \ {c} :
               /\ pc'[t] = pc[t] /\ join'[t] = join[t]
               /\ status'[t] = status[t] /\ wait_for'[t] = wait_for[t],
           status'[c] = "UNBORN" => pc'[c] = "user",
           \/ pc'[c] # "join"
           \/ join'[c] \in Thread /\ status'[c] = "STOPPED" /\ wait_for'[c] = {"JOIN"},
           \A t \in Thread : unwinding'[t] = "FATAL" => unwinding[t] = "FATAL" \/ t \in terminating,
           scheduling' \/ exited' # "no" \/ pc'[curr_thread'] # "join"
    PROVE  JoinInv'
  <1>1. \A t \in Thread \ {c} : JoinBound(t)'
    BY JoinKept DEF JoinInv, JoinHeld
  <1>2. JoinBound(c)'
    BY DEF JoinBound
  <1> QED BY <1>1, <1>2 DEF JoinInv, Mortal

(* In interpreted code the running thread goes on, or schedules.           *)
LEMMA JoinQuiet ==
    ASSUME TypeOK, JoinInv, UNCHANGED <<status, wait_for, terminating>>,
           NEW c \in Thread, pc[c] = "user", pc'[c] \in {"user", "cleanup"},
           curr_thread' = c, status[c] # "UNBORN",
           \A t \in Thread \ {c} : pc'[t] = pc[t] /\ join'[t] = join[t],
           \A t \in Thread : unwinding'[t] = "FATAL" => unwinding[t] = "FATAL" \/ t \in terminating
    PROVE  JoinInv'
  <1>1. Mortal
    BY DEF Mortal
  <1> QED BY <1>1, JoinAlone

LEMMA JoinRaise ==
    ASSUME TypeOK, RingInv, JoinInv, ~scheduling, pc[curr_thread] = "user",
           NEW tag \in {"RAISE", "EXIT"}, RaiseHere(tag)
    PROVE  JoinInv'
  <1>c. PICK c \in Thread : c = curr_thread
    BY DEF TypeOK
  <1>1. /\ UNCHANGED <<status, wait_for, join, curr_thread, terminating>>
        /\ pc' = [pc EXCEPT ![c] = "user"]
        /\ unwinding' = [unwinding EXCEPT ![c] = tag]
    BY <1>c DEF RaiseHere, Deliver, ring, waits, ends, TypeOK
  <1>2. status[c] # "UNBORN"
    BY <1>c, CurrAlive DEF Ring
  <1> QED BY <1>c, <1>1, <1>2, JoinQuiet DEF TypeOK

LEMMA JoinOperation ==
    ASSUME TypeOK, RingInv, JoinInv, Undisturbed, Operation \/ Preempt
    PROVE  JoinInv'
  <1>0. curr_thread \in Thread /\ main_thread \in Thread
    BY ThreadAssumption DEF TypeOK
  <1>c. PICK c \in Thread : c = curr_thread
    BY <1>0
  <1>a. ~scheduling => status[c] \notin {"UNBORN", "KILLED"}
    BY <1>c, CurrAlive DEF Ring
  <1>1. CASE Rescue \/ Pass \/ Preempt
    <2>1. /\ UNCHANGED <<status, wait_for, join, pc, curr_thread, terminating>>
          /\ ~scheduling /\ pc[c] = "user"
      BY <1>1, <1>c DEF Rescue, Pass, Preempt, Yield, MayCall, ring, waits, ends, frames
    <2>2. \A t \in Thread : unwinding'[t] = "FATAL" => unwinding[t] = "FATAL" \/ t \in terminating
      BY <1>1 DEF Rescue, Pass, Preempt, Yield, frames, TypeOK
    <2> QED BY <1>c, <1>a, <2>1, <2>2, JoinQuiet
  <1>2. CASE RaiseError \/ Exit
    BY <1>2, JoinRaise DEF RaiseError, Exit, MayCall
  <1>3. ASSUME NEW b \in BOOLEAN, CriticalSet(b) PROVE JoinInv'
    <2>1. /\ UNCHANGED <<status, wait_for, join, pc, curr_thread, terminating, unwinding>>
          /\ ~scheduling /\ pc[c] = "user"
      BY <1>3, <1>c DEF CriticalSet, MayCall, ring, waits, ends, frames
    <2> QED BY <1>c, <1>a, <2>1, JoinQuiet
  <1>4. CASE Block \/ (Stop /\ ~Alone)
    <2>1. /\ scheduling' /\ UNCHANGED <<terminating, join, unwinding>> /\ ~scheduling
          /\ \E F, D : Sleep(F, D)
          /\ pc' \in {pc, [pc EXCEPT ![c] = "stop"]} /\ pc[c] = "user"
      BY <1>4, <1>c DEF Block, Stop, WaitFd, FdWritable, Select, WaitFor, SleepForever, Polling, Sleep,
                        MayCall, frames, ends
    <2>2. /\ status'[c] = "STOPPED" /\ pc'[c] # "join"
          /\ \A t \in Thread \ {c} : /\ status'[t] = status[t] /\ wait_for'[t] = wait_for[t]
                                     /\ pc'[t] = pc[t]
      BY <1>0, <1>c, <2>1 DEF Sleep, TypeOK
    <2>3. Mortal
      BY <1>a, <2>1, <2>2 DEF Mortal
    <2> QED BY <2>1, <2>2, <2>3, JoinAlone
  <1>5. CASE Stop /\ Alone
    BY <1>5, JoinRaise DEF Stop, MayCall
  <1>6. CASE JoinInCritical
    <2>1. /\ UNCHANGED <<status, wait_for, join, terminating>>
          /\ curr_thread' = main_thread /\ pc'[main_thread] \in {"user", "cleanup"}
          /\ unwinding'[main_thread] = "RAISE"
          /\ \A t \in Thread \ {main_thread} : pc'[t] = pc[t] /\ unwinding'[t] = unwinding[t]
      BY <1>0, <1>6 DEF JoinInCritical, MainJump, Deliver, TypeOK, waits
    <2>2. status[main_thread] # "UNBORN" /\ Mortal
      BY <2>1 DEF RingInv, RingOK, Ring, Mortal
    <2> QED BY <1>0, <2>1, <2>2, JoinAlone
  <1>7. ASSUME NEW t \in Thread, Start(t) PROVE JoinInv'
    <2>1. /\ curr_thread' = t /\ status'[t] = "RUNNABLE" /\ status[t] = "UNBORN"
          /\ UNCHANGED <<wait_for, join, pc, unwinding, terminating>>
          /\ \A u \in Thread \ {t} : status'[u] = status[u]
      BY <1>7 DEF Start, TypeOK, waits, frames, ends
    <2>2. Mortal /\ pc[t] = "user"
      BY <2>1 DEF Mortal, JoinInv
    <2> QED BY <2>1, <2>2, JoinAlone
  <1>8. ASSUME NEW t \in Thread, Wakeup(t) \/ Raise(t) PROVE JoinInv'
    BY <1>8 DEF Wakeup, Raise, MayCall, Undisturbed, CarriesKills
  <1>9. ASSUME NEW t \in Thread, Kill(t) PROVE JoinInv'
    <2>1. CASE RaiseHere("EXIT")
      BY <1>9, <2>1, JoinRaise DEF Kill, MayCall
    <2>2. CASE ~RaiseHere("EXIT")
      <3>1. /\ UNCHANGED <<curr_thread, pc, join, unwinding, terminating>> /\ pc[curr_thread] = "user"
            /\ status'[t] = "TO_KILL" /\ wait_for'[t] = {} /\ status[t] # "KILLED"
            /\ \A u \in Thread \ {t} : status'[u] = status[u] /\ wait_for'[u] = wait_for[u]
        BY <1>9, <2>2 DEF Kill, MayCall, TypeOK, ends, frames
      <3>2. Mortal
        BY <3>1 DEF Mortal
      <3>3. \A u \in Thread : JoinBound(u)'
        BY <3>1, <3>2, JoinKept DEF JoinInv, JoinHeld
      <3> QED BY <3>1, <3>3 DEF JoinInv
    <2> QED BY <2>1, <2>2
  <1>10. ASSUME NEW t \in Thread, NEW op \in {"join", "limited_join", "value"}, Join(t, op)
         PROVE  JoinInv'
    <2>0. ~scheduling /\ UNCHANGED <<curr_thread, terminating>> /\ pc[c] = "user"
      BY <1>10, <1>c DEF Join, MayCall, ends
    <2>1. CASE JoinAlive(t, op, status)
      <3>1. /\ scheduling' /\ pc'[c] = op /\ status'[c] = "STOPPED" /\ join'[c] = t
            /\ op = "join" => wait_for'[c] = {"JOIN"}
            /\ unwinding' = unwinding
            /\ \A u \in Thread \ {c} :
                   /\ status'[u] = status[u] /\ wait_for'[u] = wait_for[u]
                   /\ pc'[u] = pc[u] /\ join'[u] = join[u]
        BY <1>0, <1>c, <2>1 DEF JoinAlive, TypeOK
      <3>2. Mortal
        BY <1>a, <2>0, <3>1 DEF Mortal
      <3> QED BY <2>0, <3>1, <3>2, JoinAlone
    <2>2. CASE status[t] = "KILLED" \/ JoinRefused(t, status)
      <3>1. /\ UNCHANGED <<status, wait_for>> /\ pc'[c] = "user"
            /\ \A u \in Thread \ {c} : /\ pc'[u] = pc[u] /\ join'[u] = join[u]
                                       /\ unwinding'[u] = unwinding[u]
            /\ unwinding'[c] \in {unwinding[c], "RAISE"}
        BY <1>0, <1>c, <1>10, <2>0, <2>2 DEF Join, JoinDead, JoinRefused, ForgetJoin, Deliver, TypeOK
      <3> QED BY <1>c, <1>a, <2>0, <3>1, JoinQuiet
    <2> QED BY <1>10, <2>1, <2>2 DEF Join
  <1>11. ASSUME NEW t \in Thread, NEW p \in Prio, PrioritySet(t, p) PROVE JoinInv'
    <2>1. /\ UNCHANGED <<status, wait_for, join, pc, curr_thread, terminating, unwinding>>
          /\ ~scheduling /\ pc[c] = "user"
      BY <1>11, <1>c DEF PrioritySet, MayCall, waits, ends, frames
    <2> QED BY <1>c, <1>a, <2>1, JoinQuiet
  <1>12. CASE \E t \in Thread :
                 \/ Start(t) \/ Wakeup(t) \/ Kill(t) \/ Raise(t)
                 \/ \E op \in {"join", "limited_join", "value"} : Join(t, op)
                 \/ \E p \in Prio : PrioritySet(t, p)
    BY <1>12, <1>7, <1>8, <1>9, <1>10, <1>11
  <1>13. CASE \E b \in BOOLEAN : CriticalSet(b)
    BY <1>13, <1>3
  <1>14. CASE Stop
    BY <1>14, <1>4, <1>5
  <1> QED BY <1>1, <1>2, <1>4, <1>6, <1>12, <1>13, <1>14, Zenon DEF Operation

(* The second halves leave join, or are those of other operations.         *)
LEMMA JoinReturns ==
    ASSUME TypeOK, RingInv, JoinInv, Return
    PROVE  JoinInv'
  <1>0. /\ curr_thread \in Thread /\ main_thread \in Thread /\ ~scheduling
        /\ pc[curr_thread] \in Asleep /\ UNCHANGED terminating
    BY ThreadAssumption DEF TypeOK, Return, StopReturn, JoinReturn, ValueReturn, Returned, Asleep, ends
  <1>c. PICK c \in Thread : c = curr_thread
    BY <1>0
  <1>a. status[c] \notin {"UNBORN", "KILLED"}
    BY <1>c, <1>0, CurrAlive DEF Ring
  <1> DEFINE st == [status EXCEPT ![c] = last_status[c]]
  <1>1. /\ st \in [Thread -> Statuses] /\ st[c] \in {"RUNNABLE", "TO_KILL"}
        /\ \A t \in Thread \ {c} : st[t] = status[t]
    BY DEF TypeOK, Statuses
  <1> HIDE DEF st
  <1>2. CASE StopReturn \/ JoinReturn
    <2>1. /\ status' = st /\ UNCHANGED <<wait_for, curr_thread>>
          /\ pc' = [pc EXCEPT ![c] = "user"]
          /\ \A t \in Thread \ {c} : join'[t] = join[t]
          /\ \A t \in Thread : unwinding'[t] \in {unwinding[t], "RAISE"}
      BY <1>2, <1>c DEF StopReturn, JoinReturn, JoinDead, ForgetJoin, TypeOK, st, waits
    <2>2. Mortal
      BY <1>0, <1>1, <1>a, <2>1 DEF Mortal
    <2> QED BY <1>1, <1>c, <2>1, <2>2, JoinAlone DEF TypeOK
  <1>3. CASE ValueReturn
    <2> DEFINE u == join[c]
    <2>1. \/ status' = st /\ JoinDead(u) /\ UNCHANGED <<wait_for, curr_thread>>
          \/ JoinAlive(u, "value", st) /\ UNCHANGED curr_thread
          \/ JoinRefused(u, st) /\ UNCHANGED curr_thread
          \/ status' = st /\ MainJump("RAISE", context) /\ UNCHANGED <<wait_for, join>>
      BY <1>3, <1>c DEF ValueReturn, st
    <2> HIDE DEF u
    <2>2. ASSUME UNCHANGED curr_thread,
                 \/ status' = st /\ JoinDead(u) /\ UNCHANGED wait_for
                 \/ JoinRefused(u, st)
          PROVE  JoinInv'
      <3>1. /\ status' = st /\ UNCHANGED <<wait_for, curr_thread>> /\ pc'[c] = "user"
            /\ \A t \in Thread \ {c} : join'[t] = join[t] /\ pc'[t] = pc[t]
            /\ \A t \in Thread : unwinding'[t] \in {unwinding[t], "RAISE"}
        BY <1>0, <1>c, <2>2 DEF JoinDead, JoinRefused, ForgetJoin, Deliver, TypeOK, Asleep
      <3>2. Mortal
        BY <1>0, <1>1, <1>a, <3>1 DEF Mortal
      <3> QED BY <1>1, <1>c, <3>1, <3>2, JoinAlone
    <2>3. CASE JoinAlive(u, "value", st)
      <3>1. /\ scheduling' /\ pc'[c] = "value" /\ status'[c] = "STOPPED" /\ unwinding' = unwinding
            /\ \A t \in Thread \ {c} :
                   /\ status'[t] = status[t] /\ wait_for'[t] = wait_for[t]
                   /\ pc'[t] = pc[t] /\ join'[t] = join[t]
        BY <1>1, <1>c, <2>3 DEF JoinAlive, TypeOK
      <3>2. Mortal
        BY <1>0, <1>a, <3>1 DEF Mortal
      <3> QED BY <3>1, <3>2, JoinAlone
    <2>4. CASE status' = st /\ MainJump("RAISE", context) /\ UNCHANGED <<wait_for, join>>
      <3>1. /\ curr_thread' = main_thread /\ pc'[main_thread] \in {"user", "cleanup"}
            /\ unwinding'[main_thread] = "RAISE"
            /\ \A t \in Thread \ {main_thread} : pc'[t] = pc[t] /\ unwinding'[t] = unwinding[t]
        BY <1>0, <2>4 DEF MainJump, Deliver, TypeOK
      <3>2. Mortal /\ status'[main_thread] # "UNBORN"
        BY <1>0, <1>1, <1>a, <2>4 DEF Mortal, RingInv, RingOK, Ring
      <3>3. pc[c] # "join"
        BY <1>3, <1>c DEF ValueReturn, Returned
      <3>4. \A t \in Thread : JoinBound(t)'
        BY <1>1, <2>4, <3>1, <3>2, <3>3, JoinKept DEF JoinInv, JoinHeld
      <3>5. \A t \in Thread : status'[t] = "UNBORN" => pc'[t] = "user"
        BY <1>1, <2>4, <3>1, <3>2 DEF JoinInv
      <3> QED BY <1>0, <3>1, <3>4, <3>5 DEF JoinInv
    <2> QED BY <2>1, <2>2, <2>3, <2>4
  <1> QED BY <1>2, <1>3 DEF Return

LEMMA JoinEnd ==
    ASSUME TypeOK, RingInv, KillInv, JoinInv, End
    PROVE  JoinInv'
  <1>0. curr_thread \in Thread /\ main_thread \in Thread /\ ~scheduling /\ UNCHANGED terminating
    BY ThreadAssumption
       DEF TypeOK, End, EndQuietly, EndByException, EndByExit, EndByFatal, MainEnd, WaitOthers, MayEnd,
           ends
  <1>c. PICK c \in Thread : c = curr_thread
    BY <1>0
  <1>m. status[main_thread] \notin {"UNBORN", "KILLED"}
    BY DEF RingInv, RingOK, Ring
  <1>1. CASE EndQuietly \/ EndByException
    <2>1. /\ status'[c] = "KILLED" /\ pc' = pc /\ pc[c] = "user" /\ join' = join
          /\ \A t \in Thread \ {c} : status'[t] = status[t] /\ wait_for'[t] = wait_for[t]
      BY <1>c, <1>1 DEF EndQuietly, EndByException, MayEnd, Remove, EndedWaits, EndedFrame, TypeOK
    <2>2. /\ scheduling' \/ exited' # "no"
          /\ \A t \in Thread : unwinding'[t] \in {unwinding[t], "none"}
      BY <1>1 DEF EndQuietly, EndByException, EndedFrame, TypeOK
    <2>3. Mortal
      BY <1>0, <2>1 DEF Mortal
    <2> QED BY <2>1, <2>2, <2>3, JoinAlone
  <1>2. CASE EndByExit
    <2>1. /\ status'[c] = "KILLED" /\ pc[c] = "user" /\ c # main_thread /\ join' = join
          /\ \A t \in Thread \ {c} : status'[t] = status[t] /\ wait_for'[t] = wait_for[t]
      BY <1>c, <1>2 DEF EndByExit, MayEnd, Remove, EndedWaits, TypeOK
    <2>2. /\ curr_thread' = main_thread /\ pc'[main_thread] \in {"user", "cleanup"}
          /\ \A t \in Thread \ {main_thread} : pc'[t] = pc[t]
          /\ \A t \in Thread : unwinding'[t] \in {unwinding[t], "none", "EXIT"}
      BY <1>0, <1>2 DEF EndByExit, TypeOK
    <2>3. Mortal
      BY <1>0, <2>1 DEF Mortal
    <2>4. \A t \in Thread : JoinBound(t)'
      BY <2>1, <2>2, <2>3, JoinKept DEF JoinInv, JoinHeld
    <2> QED BY <1>0, <1>m, <2>1, <2>2, <2>4 DEF JoinInv
  <1>3. ~EndByFatal
    <2>1. ASSUME EndByFatal PROVE FALSE
      <3>1. c \in Others /\ pc[c] = "user" /\ c \in terminating /\ status[c] # "TO_KILL"
        BY <1>c, <2>1 DEF EndByFatal, MayEnd, JoinInv, Others
      <3> QED BY <1>0, <1>c, <3>1, KillSees
    <2> QED BY <2>1
  <1>4. CASE MainEnd
    <2>1. /\ pc' = [pc EXCEPT ![main_thread] = "cleanup"] /\ curr_thread' = main_thread
          /\ status' = CleanupStatus /\ join' = join /\ \A t \in Thread : wait_for'[t] = {}
          /\ \A t \in Thread : unwinding'[t] \in {unwinding[t], "none"}
      BY <1>4 DEF MainEnd, Cleanup, TypeOK
    <2>2. Mortal
      BY <1>0, <2>1 DEF Mortal, CleanupStatus, Ring
    <2>3. ASSUME NEW t \in Thread PROVE JoinHeld(t) /\ (status'[t] = "UNBORN" => status[t] = "UNBORN")
      BY <1>0, <1>m, <2>1 DEF JoinHeld, CleanupStatus, Ring, ReadyStatus, TypeOK
    <2>4. \A t \in Thread : JoinBound(t)'
      BY <2>2, <2>3, JoinKept DEF JoinInv
    <2>5. \A t \in Thread : status'[t] = "UNBORN" => pc'[t] = "user"
      BY <1>0, <1>m, <2>1, <2>3 DEF JoinInv, TypeOK, CleanupStatus, Ring, ReadyStatus
    <2> QED BY <1>0, <2>1, <2>4, <2>5 DEF JoinInv, TypeOK
  <1>5. CASE WaitOthers
    <2>1. /\ UNCHANGED <<status, wait_for, join, pc, unwinding, curr_thread>>
          /\ curr_thread = main_thread /\ pc[main_thread] = "cleanup"
      BY <1>5 DEF WaitOthers, ring, waits, frames
    <2>2. Mortal
      BY <1>0, <2>1 DEF Mortal
    <2> QED BY <1>0, <1>m, <2>1, <2>2, JoinAlone
  <1> QED BY <1>1, <1>2, <1>3, <1>4, <1>5 DEF End

LEMMA JoinSchedule ==
    ASSUME TypeOK, RingInv, JoinInv, Schedule
    PROVE  JoinInv'
  <1>0. main_thread \in Thread /\ status[main_thread] \notin {"UNBORN", "KILLED"}
    BY ThreadAssumption DEF RingInv, RingOK, Ring
  <1>1. ASSUME NEW t \in Thread
        PROVE  /\ status[t] \in {"UNBORN", "KILLED"} => Scanned[t] = status[t]
               /\ Scanned[t] = "UNBORN" => status[t] = "UNBORN"
               /\ status[t] = "TO_KILL" /\ wait_for[t] = {} =>
                      Scanned[t] = "TO_KILL" /\ ScannedWait[t] = {}
               /\ status[t] = "STOPPED" /\ wait_for[t] = {"JOIN"} =>
                      \/ status[join[t]] = "KILLED"
                      \/ Scanned[t] = "STOPPED" /\ ScannedWait[t] = {"JOIN"}
    BY <1>1 DEF Scanned, ScannedWait, Joined, TimedOut, Stopped, Selected, Polls, Expired, Ring
  <1>2. CASE ScheduleAlone
    <2>1. /\ UNCHANGED <<status, wait_for, join, pc, unwinding, terminating, curr_thread>>
          /\ status[curr_thread] = "RUNNABLE"
      BY <1>2 DEF ScheduleAlone, ring, waits, frames, ends
    <2>2. \A t \in Thread : JoinBound(t)'
      BY <2>1 DEF JoinInv, JoinBound
    <2>3. pc[curr_thread] = "join" /\ curr_thread \notin terminating =>
              status[join[curr_thread]] = "KILLED"
      BY <2>1 DEF JoinInv, JoinBound, TypeOK
    <2> QED BY <2>1, <2>2, <2>3 DEF JoinInv
  <1>3. ASSUME NEW t \in Thread, ScheduleNext(t) PROVE JoinInv'
    <2>1. /\ curr_thread' = t /\ status' = Scanned /\ join' = join
          /\ wait_for' = [ScannedWait EXCEPT ![t] = {}]
      BY <1>3 DEF ScheduleNext
    <2>2. wait_for'[t] = {} /\ \A u \in Thread \ {t} : wait_for'[u] = ScannedWait[u]
      BY <2>1, ScannedType
    <2>3. /\ Scanned[t] \in {"TO_KILL", "RUNNABLE"} /\ status[t] # "UNBORN"
      BY <1>3 DEF ScheduleNext, IsNext, ToKill, Runnable, Ring
    <2>4. Mortal
      BY <1>1, <1>3, <2>1 DEF Mortal, ScheduleNext
    <2>5. /\ \A u \in Thread \ {t} : pc'[u] = pc[u] /\ unwinding'[u] = unwinding[u]
          /\ \/ pc'[t] \in {"user", "cleanup"} /\ unwinding'[t] = "FATAL" /\ t \in terminating'
             \/ /\ pc'[t] = pc[t] /\ unwinding'[t] = unwinding[t]
                /\ Scanned[t] # "TO_KILL" \/ t \in terminating
      BY <1>3 DEF ScheduleNext, Deliver, TypeOK, frames
    <2>6. \A u \in Thread \ {t} : JoinBound(u)'
      BY <1>1, <2>1, <2>2, <2>4, <2>5, JoinKept DEF JoinInv, JoinHeld
    <2>7. pc'[t] = "join" /\ t \notin terminating' => join[t] \in Thread /\ status'[join[t]] = "KILLED"
      <3>1. SUFFICES ASSUME pc'[t] = "join", t \notin terminating'
                     PROVE  join[t] \in Thread /\ status'[join[t]] = "KILLED"
        OBVIOUS
      <3>2. pc[t] = "join" /\ t \notin terminating /\ Scanned[t] = "RUNNABLE"
        BY <2>3, <2>4, <2>5, <3>1 DEF Mortal
      <3>3. join[t] \in Thread /\ status[join[t]] = "KILLED"
        BY <1>1, <3>2 DEF JoinInv, JoinBound
      <3> QED BY <2>4, <3>3 DEF Mortal
    <2>8. pc'[t] = "join" => join[t] \in Thread
      BY <2>5 DEF JoinInv, JoinBound
    <2>9. JoinBound(t)'
      BY <2>1, <2>7, <2>8 DEF JoinBound
    <2>10. \A u \in Thread : status'[u] = "UNBORN" => pc'[u] = "user"
      BY <1>1, <2>1, <2>3, <2>5 DEF JoinInv
    <2>11. \A u \in Thread : unwinding'[u] = "FATAL" => u \in terminating'
      BY <2>4, <2>5 DEF JoinInv, Mortal
    <2> QED BY <2>1, <2>6, <2>7, <2>9, <2>10, <2>11 DEF JoinInv
  <1>4. CASE ScheduleDeadlock
    <2>1. /\ curr_thread' = main_thread /\ status' = [Scanned EXCEPT ![main_thread] = "TO_KILL"]
          /\ wait_for' = [ScannedWait EXCEPT ![main_thread] = {}] /\ UNCHANGED <<terminating, join>>
      BY <1>4 DEF ScheduleDeadlock, MainJump
    <2>2. /\ pc'[main_thread] \in {"user", "cleanup"} /\ unwinding'[main_thread] = "RAISE"
          /\ \A t \in Thread \ {main_thread} : pc'[t] = pc[t] /\ unwinding'[t] = unwinding[t]
      BY <1>0, <1>4 DEF ScheduleDeadlock, MainJump, Deliver, TypeOK
    <2>3. /\ status'[main_thread] = "TO_KILL"
          /\ \A t \in Thread \ {main_thread} : wait_for'[t] = ScannedWait[t] /\ status'[t] = Scanned[t]
      BY <1>0, <2>1, ScannedType
    <2>4. Mortal
      BY <1>0, <1>1, <2>1, <2>3 DEF Mortal
    <2>5. \A t \in Thread : JoinBound(t)'
      BY <1>1, <2>1, <2>2, <2>3, <2>4, JoinKept DEF JoinInv, JoinHeld
    <2>6. \A t \in Thread : status'[t] = "UNBORN" => pc'[t] = "user"
      BY <1>1, <2>2, <2>3 DEF JoinInv
    <2> QED BY <2>1, <2>2, <2>5, <2>6 DEF JoinInv
  <1>5. CASE ScheduleAgain
    <2>1. /\ UNCHANGED <<status, wait_for, join, pc, unwinding, terminating, curr_thread, exited>>
          /\ scheduling /\ scheduling'
      BY <1>5 DEF ScheduleAgain, ring, frames, ends
    <2>2. \A t \in Thread : JoinBound(t)'
      BY <2>1 DEF JoinInv, JoinBound
    <2> QED BY <2>1, <2>2 DEF JoinInv
  <1> QED BY <1>2, <1>3, <1>4, <1>5 DEF Schedule

LEMMA JoinEnv ==
    ASSUME TypeOK, JoinInv, Env \/ UNCHANGED vars
    PROVE  JoinInv'
  <1>1. /\ UNCHANGED <<status, join, pc, unwinding, terminating, curr_thread, scheduling, exited>>
        /\ \A t \in Thread : wait_for[t] \in {{}, {"JOIN"}} => wait_for'[t] = wait_for[t]
    BY DEF Env, Tick, FdChange, TypeOK, vars, ring, waits, frames, ends
  <1>2. \A t \in Thread : JoinBound(t)'
    BY <1>1 DEF JoinInv, JoinBound
  <1> QED BY <1>1, <1>2 DEF JoinInv

(* Nothing happens after the process has ended.                            *)
LEMMA OnlyWhileAlive ==
    ASSUME Next
    PROVE  exited = "no"
  <1>1. CASE Operation \/ Preempt
    <2>1. CASE Rescue \/ RaiseError \/ Exit \/ Block \/ Stop \/ Pass \/ JoinInCritical \/ Preempt
      BY <2>1 DEF Rescue, RaiseError, Exit, Block, WaitFd, FdWritable, Select, WaitFor, SleepForever,
                  Polling, Stop, Pass, JoinInCritical, Preempt, MayCall
    <2>2. \A b \in BOOLEAN : CriticalSet(b) => exited = "no"
      BY DEF CriticalSet, MayCall
    <2>3. \A t \in Thread : Start(t) \/ Wakeup(t) \/ Kill(t) \/ Raise(t) => exited = "no"
      BY DEF Start, Wakeup, Kill, Raise, MayCall
    <2>4. \A t \in Thread : \A op \in {"join", "limited_join", "value"} : Join(t, op) => exited = "no"
      BY DEF Join, MayCall
    <2>5. \A t \in Thread : \A p \in Prio : PrioritySet(t, p) => exited = "no"
      BY DEF PrioritySet, MayCall
    <2> QED BY <1>1, <2>1, <2>2, <2>3, <2>4, <2>5, Zenon DEF Operation
  <1>2. CASE End
    BY <1>2 DEF End, EndQuietly, EndByException, EndByExit, EndByFatal, MainEnd, WaitOthers, MayEnd
  <1>3. CASE Return
    BY <1>3 DEF Return, StopReturn, JoinReturn, ValueReturn, Returned
  <1>4. CASE Schedule \/ Env
    BY <1>4 DEF Schedule, ScheduleAlone, ScheduleNext, ScheduleDeadlock, ScheduleAgain, Schedules, Env,
                Tick, FdChange
  <1> QED BY <1>1, <1>2, <1>3, <1>4 DEF Next

(* Thread#join without a limit returns only when the thread it waits for   *)
(* is dead, whatever else happens to it and to the others, in a program    *)
(* that neither wakes threads by hand nor forgets kills.                   *)
THEOREM JoinsWait ==
    ASSUME Undisturbed
    PROVE  Spec => JoinWaits
  <1> DEFINE Waits == \A t \in Thread :
                 curr_thread = t /\ ~scheduling /\ pc[t] = "join" /\ pc'[t] = "user"
                   /\ t \notin terminating => status[join[t]] = "KILLED"
  <1>1. Init => JoinInv
    BY ThreadAssumption DEF Init, JoinInv, JoinBound
  <1>2. TypeOK /\ RingInv /\ KillInv /\ JoinInv /\ [Next]_vars => JoinInv'
    BY JoinOperation, JoinReturns, JoinEnd, JoinSchedule, JoinEnv DEF Next
  <1>3. TypeOK /\ JoinInv /\ [Next]_vars => [Waits]_vars
    BY OnlyWhileAlive DEF JoinInv
  <1>4. Spec => []KillInv
    BY KillHolds DEF Undisturbed
  <1> QED BY <1>1, <1>2, <1>3, <1>4, TypeCorrect, RingHolds, PTL DEF Spec, JoinWaits
=============================================================================
