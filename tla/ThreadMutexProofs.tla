-------------------------- MODULE ThreadMutexProofs --------------------------
(***************************************************************************)
(* Proofs about ThreadMutex, for any number of threads.                    *)
(*                                                                         *)
(* Thread.critical works as the lock of the library: CritInv says that it  *)
(* is set exactly while the running thread is between a "critical = true"  *)
(* and the matching "critical = false", and that no other thread is there. *)
(* LockInv then says who owns the mutex.                                   *)
(***************************************************************************)
EXTENDS ThreadMutex, ArrayProofs

(* The statements that are executed with Thread.critical set.              *)
CritPcs == {"lock_test", "lock_stop", "lock_take", "lock_open", "try_test", "try_open",
            "unlock_free", "unlock_shift", "unlock_wakeup", "unlock_open",
            "wait_push", "wait_stop", "broadcast_take", "broadcast_open"}

CritInv ==
    /\ critical <=> pc[curr] \in CritPcs
    /\ \A t \in Thread : pc[t] \in CritPcs => t = curr /\ state[t] = "awake"
    /\ \A t \in Thread : ~old[t]

(* The methods a statement can belong to.                                  *)
FrameInv ==
    \A t \in Thread :
        /\ pc[t] \in LockPcs => frame[t] \in {"enter", "relock"}
        /\ pc[t] \in {"try_critical", "try_test"} => frame[t] = "enter"
        /\ pc[t] = "try_open" => frame[t] \in {"enter", "user"}
        /\ pc[t] \in {"unlock_test", "unlock_critical", "unlock_open", "unlock_run"} =>
             frame[t] = "leave"
        /\ pc[t] \in {"unlock_free", "unlock_shift", "unlock_wakeup"} => frame[t] \in {"leave", "wait"}
        /\ pc[t] \in {"wait_test", "wait_old", "wait_critical", "wait_push", "wait_stop", "wait_open"} =>
             frame[t] = "wait"
        /\ pc[t] \in SignalPcs \cup BroadcastPcs => frame[t] \in {"user", "body"}
        /\ pc[t] = "run" => frame[t] \in {"user", "enter", "body"}
        /\ state[t] = "dead" => frame[t] = "user" /\ pc[t] = "run"

Owns(t) ==
    \/ frame[t] = "body"
    \/ frame[t] = "enter" /\ pc[t] \in {"lock_open", "try_open", "run"}
    \/ frame[t] = "relock" /\ pc[t] = "lock_open"
    \/ frame[t] = "leave" /\ pc[t] \in {"unlock_test", "unlock_critical", "unlock_free"}
    \/ frame[t] = "wait" /\ pc[t] \in {"wait_test", "wait_old", "wait_critical", "unlock_free"}

LockInv ==
    /\ \A t \in Thread : Owns(t) => locked
    /\ \A t, u \in Thread : Owns(t) /\ Owns(u) => t = u
    /\ \A t \in Thread : pc[t] = "lock_take" => ~locked
    /\ \A t \in Thread : pc[t] = "lock_stop" => locked
    /\ "wait" \notin Calls => \A t \in Thread : frame[t] \notin {"wait", "relock"}

(* The program does not use both condition variables and asynchronous      *)
(* exceptions: one that meets a thread in the ensure clause of wait makes  *)
(* it unlock a mutex it does not own.                                      *)
Disciplined == "wait" \notin Calls \/ Calls \cap {"kill", "raise"} = {}

Inv == TypeOK /\ CritInv /\ FrameInv

-----------------------------------------------------------------------------
LEMMA NoneWaits == << >> \in Seq(Thread)
  OBVIOUS

(* Every statement keeps the types.                                        *)
LEMMA TypeStep ==
    ASSUME TypeOK, [Next]_vars
    PROVE  TypeOK'
<1>1. CASE Synchronize
  BY <1>1, TypeOK, MutexAssumption DEF Synchronize, MayLock, Call, At, Goto, TypeOK, Pcs, Frames,
     LockPcs, UnlockPcs, WaitPcs, TryPcs, SignalPcs, BroadcastPcs, greenVars, sync
<1>2. CASE TryLock
  BY <1>2, TypeOK, MutexAssumption DEF TryLock, MayLock, Call, At, Goto, TypeOK, Pcs, Frames,
     LockPcs, UnlockPcs, WaitPcs, TryPcs, SignalPcs, BroadcastPcs, greenVars, sync
<1>3. CASE Leave
  BY <1>3, TypeOK, MutexAssumption DEF Leave, Call, At, Goto, TypeOK, Pcs, Frames, LockPcs,
     UnlockPcs, WaitPcs, TryPcs, SignalPcs, BroadcastPcs, greenVars, sync
<1>4. CASE Wait
  BY <1>4, TypeOK, MutexAssumption DEF Wait, Call, At, Goto, TypeOK, Pcs, Frames, LockPcs,
     UnlockPcs, WaitPcs, TryPcs, SignalPcs, BroadcastPcs, greenVars, sync
<1>5. CASE Signal
  BY <1>5, TypeOK, MutexAssumption DEF Signal, MaySignal, Call, At, Goto, TypeOK, Pcs, Frames, LockPcs,
     UnlockPcs, WaitPcs, TryPcs, SignalPcs, BroadcastPcs, greenVars, sync
<1>6. CASE Broadcast
  BY <1>6, TypeOK, MutexAssumption DEF Broadcast, MaySignal, Call, At, Goto, TypeOK, Pcs, Frames,
     LockPcs, UnlockPcs, WaitPcs, TryPcs, SignalPcs, BroadcastPcs, greenVars, sync
<1>7. CASE Begin
  BY <1>7, TypeOK, MutexAssumption DEF Begin, Call, At, Goto, TypeOK, Pcs, Frames, LockPcs,
     UnlockPcs, WaitPcs, TryPcs, SignalPcs, BroadcastPcs, greenVars, sync
<1>8. CASE LockCritical
  BY <1>8, TypeOK, MutexAssumption DEF LockCritical, Set, Critical, At, Goto, TypeOK, Pcs,
     Frames, LockPcs, UnlockPcs, WaitPcs, TryPcs, SignalPcs, BroadcastPcs, greenVars, sync
<1>9. CASE LockTest
  <2>1. waiting' \in Seq(Thread)
    <3>1. waiting \in Seq(Thread) /\ curr \in Thread
      BY TypeOK DEF TypeOK
    <3>2. Append(waiting, curr) \in Seq(Thread)
      BY <3>1
    <3> QED
      BY <1>9, <3>1, <3>2 DEF LockTest
  <2>2. pc' \in [Thread -> Pcs]
    BY <1>9, TypeOK DEF LockTest, Goto, TypeOK, Pcs, Frames, LockPcs, UnlockPcs, WaitPcs,
       TryPcs, SignalPcs, BroadcastPcs
  <2> QED
    BY <1>9, <2>1, <2>2, TypeOK DEF LockTest, TypeOK, greenVars
<1>10. CASE LockStop
  <2>1. CASE OnlyThread
    <3>1. UnwindFrame(curr) \in Frames /\ UnwindPc(curr) \in Pcs
      BY TypeOK DEF UnwindFrame, UnwindPc, TypeOK, Pcs, Frames, LockPcs, UnlockPcs, WaitPcs,
         TryPcs, SignalPcs, BroadcastPcs
    <3>2. pending' \in [Thread -> {"none", "raise", "kill"}]
      BY <1>10, <2>1, TypeOK DEF LockStop, StopAt, Unwind, TypeOK
    <3>3. rest' \in [Thread -> Seq(Thread)]
      BY <1>10, <2>1, TypeOK, NoneWaits, ZenonT(60) DEF LockStop, StopAt, Unwind, TypeOK
    <3>4. target' \in [Thread -> Thread \cup {Nil}]
      BY <1>10, <2>1, TypeOK DEF LockStop, StopAt, Unwind, TypeOK
    <3>5. frame' = [frame EXCEPT ![curr] = UnwindFrame(curr)] /\ pc' = [pc EXCEPT ![curr] =
       UnwindPc(curr)]
      BY <1>10, <2>1 DEF LockStop, StopAt, Unwind
    <3>6. frame' \in [Thread -> Frames] /\ pc' \in [Thread -> Pcs]
      BY <3>1, <3>5, TypeOK DEF TypeOK
    <3> QED
      BY <1>10, <2>1, <3>2, <3>3, <3>4, <3>6, TypeOK DEF LockStop, StopAt, Unwind, TypeOK,
         sync
  <2>2. CASE ~OnlyThread
    BY <1>10, <2>2, TypeOK DEF LockStop, StopAt, Goto, TypeOK, Pcs, Frames, LockPcs,
       UnlockPcs, WaitPcs, TryPcs, SignalPcs, BroadcastPcs, sync
  <2> QED
    BY <2>1, <2>2
<1>11. CASE LockTake
  BY <1>11, TypeOK, MutexAssumption DEF LockTake, At, Goto, TypeOK, Pcs, Frames, LockPcs,
     UnlockPcs, WaitPcs, TryPcs, SignalPcs, BroadcastPcs, greenVars, sync
<1>12. CASE LockOpen
  BY <1>12, TypeOK, MutexAssumption DEF LockOpen, Critical, At, Goto, TypeOK, Pcs, Frames,
     LockPcs, UnlockPcs, WaitPcs, TryPcs, SignalPcs, BroadcastPcs, greenVars, sync
<1>13. CASE TryCritical
  BY <1>13, TypeOK, MutexAssumption DEF TryCritical, Set, Critical, At, Goto, TypeOK, Pcs,
     Frames, LockPcs, UnlockPcs, WaitPcs, TryPcs, SignalPcs, BroadcastPcs, greenVars, sync
<1>14. CASE TryTest
  BY <1>14, TypeOK, MutexAssumption DEF TryTest, At, Goto, TypeOK, Pcs, Frames, LockPcs,
     UnlockPcs, WaitPcs, TryPcs, SignalPcs, BroadcastPcs, greenVars, sync
<1>15. CASE TryOpen
  BY <1>15, TypeOK, MutexAssumption DEF TryOpen, Set, Critical, At, Goto, TypeOK, Pcs,
     Frames, LockPcs, UnlockPcs, WaitPcs, TryPcs, SignalPcs, BroadcastPcs, greenVars, sync
<1>16. CASE UnlockTest
  BY <1>16, TypeOK, MutexAssumption DEF UnlockTest, UnlockReturn, At, Goto, TypeOK, Pcs,
     Frames, LockPcs, UnlockPcs, WaitPcs, TryPcs, SignalPcs, BroadcastPcs, greenVars, sync
<1>17. CASE UnlockCritical
  BY <1>17, TypeOK, MutexAssumption DEF UnlockCritical, Set, Critical, At, Goto, TypeOK,
     Pcs, Frames, LockPcs, UnlockPcs, WaitPcs, TryPcs, SignalPcs, BroadcastPcs, greenVars,
     sync
<1>18. CASE UnlockFree
  BY <1>18, TypeOK, MutexAssumption DEF UnlockFree, At, Goto, TypeOK, Pcs, Frames, LockPcs,
     UnlockPcs, WaitPcs, TryPcs, SignalPcs, BroadcastPcs, greenVars, sync
<1>19. CASE UnlockShift
  BY <1>19, TypeOK, MutexAssumption DEF UnlockShift, Shifted, First, At, Goto, TypeOK, Pcs,
     Frames, LockPcs, UnlockPcs, WaitPcs, TryPcs, SignalPcs, BroadcastPcs, greenVars, sync
<1>20. CASE UnlockWakeup
  BY <1>20, TypeOK, MutexAssumption, ZenonT(60) DEF UnlockWakeup, Rouse, At, Goto, TypeOK, Pcs, Frames,
     LockPcs, UnlockPcs, WaitPcs, TryPcs, SignalPcs, BroadcastPcs, greenVars, sync
<1>21. CASE UnlockOpen
  BY <1>21, TypeOK, MutexAssumption DEF UnlockOpen, Set, Critical, At, Goto, TypeOK, Pcs,
     Frames, LockPcs, UnlockPcs, WaitPcs, TryPcs, SignalPcs, BroadcastPcs, greenVars, sync
<1>22. CASE UnlockRun
  BY <1>22, TypeOK, MutexAssumption, ZenonT(60) DEF UnlockRun, Rouse, UnlockReturn, At, Goto, TypeOK,
     Pcs, Frames, LockPcs, UnlockPcs, WaitPcs, TryPcs, SignalPcs, BroadcastPcs, greenVars,
     sync
<1>23. CASE WaitTest
  BY <1>23, TypeOK, MutexAssumption DEF WaitTest, At, Goto, TypeOK, Pcs, Frames, LockPcs,
     UnlockPcs, WaitPcs, TryPcs, SignalPcs, BroadcastPcs, greenVars, sync
<1>24. CASE WaitOld
  BY <1>24, TypeOK, MutexAssumption DEF WaitOld, SaveCritical, At, Goto, TypeOK, Pcs,
     Frames, LockPcs, UnlockPcs, WaitPcs, TryPcs, SignalPcs, BroadcastPcs, greenVars, sync
<1>25. CASE WaitCritical
  BY <1>25, TypeOK, MutexAssumption DEF WaitCritical, Set, Critical, At, Goto, TypeOK, Pcs,
     Frames, LockPcs, UnlockPcs, WaitPcs, TryPcs, SignalPcs, BroadcastPcs, greenVars, sync
<1>26. CASE WaitPush
  BY <1>26, TypeOK, MutexAssumption DEF WaitPush, At, Goto, TypeOK, Pcs, Frames, LockPcs,
     UnlockPcs, WaitPcs, TryPcs, SignalPcs, BroadcastPcs, greenVars, sync
<1>27. CASE WaitStop
  <2>1. CASE OnlyThread
    <3>1. UnwindFrame(curr) \in Frames /\ UnwindPc(curr) \in Pcs
      BY TypeOK DEF UnwindFrame, UnwindPc, TypeOK, Pcs, Frames, LockPcs, UnlockPcs, WaitPcs,
         TryPcs, SignalPcs, BroadcastPcs
    <3>2. pending' \in [Thread -> {"none", "raise", "kill"}]
      BY <1>27, <2>1, TypeOK DEF WaitStop, StopAt, Unwind, TypeOK
    <3>3. rest' \in [Thread -> Seq(Thread)]
      BY <1>27, <2>1, TypeOK, NoneWaits, ZenonT(60) DEF WaitStop, StopAt, Unwind, TypeOK
    <3>4. target' \in [Thread -> Thread \cup {Nil}]
      BY <1>27, <2>1, TypeOK DEF WaitStop, StopAt, Unwind, TypeOK
    <3>5. frame' = [frame EXCEPT ![curr] = UnwindFrame(curr)] /\ pc' = [pc EXCEPT ![curr] =
       UnwindPc(curr)]
      BY <1>27, <2>1 DEF WaitStop, StopAt, Unwind
    <3>6. frame' \in [Thread -> Frames] /\ pc' \in [Thread -> Pcs]
      BY <3>1, <3>5, TypeOK DEF TypeOK
    <3> QED
      BY <1>27, <2>1, <3>2, <3>3, <3>4, <3>6, TypeOK DEF WaitStop, StopAt, Unwind, TypeOK,
         sync
  <2>2. CASE ~OnlyThread
    BY <1>27, <2>2, TypeOK DEF WaitStop, StopAt, Goto, TypeOK, Pcs, Frames, LockPcs,
       UnlockPcs, WaitPcs, TryPcs, SignalPcs, BroadcastPcs, sync
  <2> QED
    BY <2>1, <2>2
<1>28. CASE WaitOpen
  BY <1>28, TypeOK, MutexAssumption DEF WaitOpen, Critical, At, Goto, TypeOK, Pcs, Frames,
     LockPcs, UnlockPcs, WaitPcs, TryPcs, SignalPcs, BroadcastPcs, greenVars, sync
<1>29. CASE SignalShift
  BY <1>29, TypeOK, MutexAssumption DEF SignalShift, Shifted, First, At, Goto, TypeOK, Pcs,
     Frames, LockPcs, UnlockPcs, WaitPcs, TryPcs, SignalPcs, BroadcastPcs, greenVars, sync
<1>30. CASE SignalRun
  BY <1>30, TypeOK, MutexAssumption, ZenonT(60) DEF SignalRun, Rouse, At, Goto, TypeOK, Pcs, Frames,
     LockPcs, UnlockPcs, WaitPcs, TryPcs, SignalPcs, BroadcastPcs, greenVars, sync
<1>31. CASE BroadcastOld
  BY <1>31, TypeOK, MutexAssumption DEF BroadcastOld, SaveCritical, At, Goto, TypeOK, Pcs,
     Frames, LockPcs, UnlockPcs, WaitPcs, TryPcs, SignalPcs, BroadcastPcs, greenVars, sync
<1>32. CASE BroadcastCritical
  BY <1>32, TypeOK, MutexAssumption DEF BroadcastCritical, Set, Critical, At, Goto, TypeOK,
     Pcs, Frames, LockPcs, UnlockPcs, WaitPcs, TryPcs, SignalPcs, BroadcastPcs, greenVars,
     sync
<1>33. CASE BroadcastTake
  BY <1>33, TypeOK, MutexAssumption DEF BroadcastTake, At, Goto, TypeOK, Pcs, Frames,
     LockPcs, UnlockPcs, WaitPcs, TryPcs, SignalPcs, BroadcastPcs, greenVars, sync
<1>34. CASE BroadcastOpen
  BY <1>34, TypeOK, MutexAssumption DEF BroadcastOpen, Set, Critical, At, Goto, TypeOK, Pcs,
     Frames, LockPcs, UnlockPcs, WaitPcs, TryPcs, SignalPcs, BroadcastPcs, greenVars, sync
<1>35. CASE BroadcastRun
  <2>1. CASE rest[curr] = << >>
    BY <1>35, <2>1, TypeOK DEF BroadcastRun, Goto, TypeOK, Pcs, Frames, LockPcs, UnlockPcs,
       WaitPcs, TryPcs, SignalPcs, BroadcastPcs, greenVars, sync
  <2>2. CASE rest[curr] # << >>
    <3>1. rest[curr] \in Seq(Thread) /\ Head(rest[curr]) \in Thread /\ Tail(rest[curr]) \in
       Seq(Thread)
      BY <2>2, TypeOK DEF TypeOK
    <3>2. rest' \in [Thread -> Seq(Thread)]
      BY <1>35, <2>2, <3>1, TypeOK DEF BroadcastRun, TypeOK
    <3>3. state' \in [Thread -> {"awake", "stopped", "dead"}]
      BY <1>35, <2>2, <3>1, TypeOK DEF BroadcastRun, Rouse, TypeOK
    <3> QED
      BY <1>35, <2>2, <3>2, <3>3, TypeOK DEF BroadcastRun, Rouse, TypeOK, sync
  <2> QED
    BY <2>1, <2>2
<1>36. ASSUME NEW t \in Thread, Kill(t) PROVE TypeOK'
  BY <1>36, TypeOK, MutexAssumption DEF Kill, Rouse, Unwind, UnwindFrame, UnwindPc,
     InExclusive, At, Goto, TypeOK, Pcs, Frames, LockPcs, UnlockPcs, WaitPcs, TryPcs,
     SignalPcs, BroadcastPcs, greenVars, sync
<1>37. ASSUME NEW t \in Thread, Raise(t) PROVE TypeOK'
  BY <1>37, TypeOK, MutexAssumption DEF Raise, Interrupt, Unwind, UnwindFrame, UnwindPc,
     InExclusive, At, Goto, TypeOK, Pcs, Frames, LockPcs, UnlockPcs, WaitPcs, TryPcs,
     SignalPcs, BroadcastPcs, greenVars, sync
<1>38. ASSUME NEW t \in Thread, Schedule(t) PROVE TypeOK'
  BY <1>38, TypeOK, MutexAssumption DEF Schedule, Switch, Awaken, mutexVars, local, TypeOK,
     Pcs, Frames, LockPcs, UnlockPcs, WaitPcs, TryPcs, SignalPcs, BroadcastPcs, greenVars,
     sync
<1>39. CASE EndThread
  BY <1>39, TypeOK, MutexAssumption DEF EndThread, Die, Awaken, mutexVars, local, At, Goto,
     TypeOK, Pcs, Frames, LockPcs, UnlockPcs, WaitPcs, TryPcs, SignalPcs, BroadcastPcs,
     greenVars, sync
<1>40. CASE Deadlock
  BY <1>40, TypeOK, MutexAssumption DEF Deadlock, mutexVars, local, TypeOK, Pcs, Frames,
     LockPcs, UnlockPcs, WaitPcs, TryPcs, SignalPcs, BroadcastPcs, greenVars, sync
<1>41. CASE UNCHANGED vars
  BY <1>41 DEF vars, mutexVars, local, TypeOK, Pcs, Frames, LockPcs, UnlockPcs, WaitPcs,
     TryPcs, SignalPcs, BroadcastPcs, greenVars, sync
<1> QED
  BY <1>1, <1>2, <1>3, <1>4, <1>5, <1>6, <1>7, <1>8, <1>9, <1>10, <1>11, <1>12, <1>13,
     <1>14, <1>15, <1>16, <1>17, <1>18, <1>19, <1>20, <1>21, <1>22, <1>23, <1>24, <1>25,
     <1>26, <1>27, <1>28, <1>29, <1>30, <1>31, <1>32, <1>33, <1>34, <1>35, <1>36, <1>37,
     <1>38, <1>39, <1>40, <1>41 DEF Next, Statement

(* Thread.critical protects the statements between its assignments.        *)
LEMMA CritStep ==
    ASSUME TypeOK, CritInv, [Next]_vars
    PROVE  CritInv'
<1>1. CASE Synchronize
  BY <1>1, TypeOK, CritInv DEF Synchronize, MayLock, Call, At, Goto, TypeOK, CritInv, CritPcs,
     greenVars, sync
<1>2. CASE TryLock
  BY <1>2, TypeOK, CritInv DEF TryLock, MayLock, Call, At, Goto, TypeOK, CritInv, CritPcs, greenVars,
     sync
<1>3. CASE Leave
  BY <1>3, TypeOK, CritInv DEF Leave, Call, At, Goto, TypeOK, CritInv, CritPcs, greenVars,
     sync
<1>4. CASE Wait
  BY <1>4, TypeOK, CritInv DEF Wait, Call, At, Goto, TypeOK, CritInv, CritPcs, greenVars,
     sync
<1>5. CASE Signal
  BY <1>5, TypeOK, CritInv DEF Signal, MaySignal, Call, At, Goto, TypeOK, CritInv, CritPcs, greenVars,
     sync
<1>6. CASE Broadcast
  BY <1>6, TypeOK, CritInv DEF Broadcast, MaySignal, Call, At, Goto, TypeOK, CritInv, CritPcs,
     greenVars, sync
<1>7. CASE Begin
  BY <1>7, TypeOK, CritInv DEF Begin, Call, At, Goto, TypeOK, CritInv, CritPcs, greenVars,
     sync
<1>8. CASE LockCritical
  BY <1>8, TypeOK, CritInv DEF LockCritical, Set, Critical, At, Goto, TypeOK, CritInv,
     CritPcs, greenVars, sync
<1>9. CASE LockTest
  BY <1>9, TypeOK, CritInv DEF LockTest, At, Goto, TypeOK, CritInv, CritPcs, greenVars, sync
<1>10. CASE LockStop
  BY <1>10, TypeOK, CritInv DEF LockStop, StopAt, Unwind, UnwindFrame, UnwindPc,
     InExclusive, OnlyThread, At, Goto, TypeOK, CritInv, CritPcs, greenVars, sync
<1>11. CASE LockTake
  BY <1>11, TypeOK, CritInv DEF LockTake, At, Goto, TypeOK, CritInv, CritPcs, greenVars,
     sync
<1>12. CASE LockOpen
  BY <1>12, TypeOK, CritInv DEF LockOpen, Critical, At, Goto, TypeOK, CritInv, CritPcs,
     greenVars, sync
<1>13. CASE TryCritical
  BY <1>13, TypeOK, CritInv DEF TryCritical, Set, Critical, At, Goto, TypeOK, CritInv,
     CritPcs, greenVars, sync
<1>14. CASE TryTest
  BY <1>14, TypeOK, CritInv DEF TryTest, At, Goto, TypeOK, CritInv, CritPcs, greenVars, sync
<1>15. CASE TryOpen
  BY <1>15, TypeOK, CritInv DEF TryOpen, Set, Critical, At, Goto, TypeOK, CritInv, CritPcs,
     greenVars, sync
<1>16. CASE UnlockTest
  BY <1>16, TypeOK, CritInv DEF UnlockTest, UnlockReturn, At, Goto, TypeOK, CritInv,
     CritPcs, greenVars, sync
<1>17. CASE UnlockCritical
  BY <1>17, TypeOK, CritInv DEF UnlockCritical, Set, Critical, At, Goto, TypeOK, CritInv,
     CritPcs, greenVars, sync
<1>18. CASE UnlockFree
  BY <1>18, TypeOK, CritInv DEF UnlockFree, At, Goto, TypeOK, CritInv, CritPcs, greenVars,
     sync
<1>19. CASE UnlockShift
  BY <1>19, TypeOK, CritInv DEF UnlockShift, Shifted, First, At, Goto, TypeOK, CritInv,
     CritPcs, greenVars, sync
<1>20. CASE UnlockWakeup
  <2>1. CASE target[curr] = Nil
    BY <1>20, <2>1, TypeOK, CritInv DEF UnlockWakeup, At, Goto, TypeOK, CritInv, CritPcs,
       greenVars
  <2>2. CASE target[curr] # Nil
    <3>1. pc'[curr] \in CritPcs /\ \A t \in Thread \ {curr} : pc'[t] = pc[t]
      BY <1>20, TypeOK DEF UnlockWakeup, Goto, TypeOK, CritPcs
    <3>2. state'[curr] = "awake" /\ curr' = curr /\ critical' = critical
      BY <1>20, <2>2, TypeOK DEF UnlockWakeup, Rouse, At, TypeOK
    <3>3. critical /\ old' = old
      BY <1>20, CritInv DEF UnlockWakeup, At, CritInv, CritPcs
    <3> QED
      BY <3>1, <3>2, <3>3, TypeOK, CritInv DEF TypeOK, CritInv
  <2> QED
    BY <2>1, <2>2
<1>21. CASE UnlockOpen
  BY <1>21, TypeOK, CritInv DEF UnlockOpen, Set, Critical, At, Goto, TypeOK, CritInv,
     CritPcs, greenVars, sync
<1>22. CASE UnlockRun
  BY <1>22, TypeOK, CritInv DEF UnlockRun, Rouse, UnlockReturn, At, Goto, TypeOK, CritInv,
     CritPcs, greenVars, sync
<1>23. CASE WaitTest
  BY <1>23, TypeOK, CritInv DEF WaitTest, At, Goto, TypeOK, CritInv, CritPcs, greenVars,
     sync
<1>24. CASE WaitOld
  BY <1>24, TypeOK, CritInv DEF WaitOld, SaveCritical, At, Goto, TypeOK, CritInv, CritPcs,
     greenVars, sync
<1>25. CASE WaitCritical
  BY <1>25, TypeOK, CritInv DEF WaitCritical, Set, Critical, At, Goto, TypeOK, CritInv,
     CritPcs, greenVars, sync
<1>26. CASE WaitPush
  BY <1>26, TypeOK, CritInv DEF WaitPush, At, Goto, TypeOK, CritInv, CritPcs, greenVars,
     sync
<1>27. CASE WaitStop
  BY <1>27, TypeOK, CritInv DEF WaitStop, StopAt, Unwind, UnwindFrame, UnwindPc,
     InExclusive, OnlyThread, At, Goto, TypeOK, CritInv, CritPcs, greenVars, sync
<1>28. CASE WaitOpen
  BY <1>28, TypeOK, CritInv DEF WaitOpen, Critical, At, Goto, TypeOK, CritInv, CritPcs,
     greenVars, sync
<1>29. CASE SignalShift
  BY <1>29, TypeOK, CritInv DEF SignalShift, Shifted, First, At, Goto, TypeOK, CritInv,
     CritPcs, greenVars, sync
<1>30. CASE SignalRun
  BY <1>30, TypeOK, CritInv DEF SignalRun, Rouse, At, Goto, TypeOK, CritInv, CritPcs,
     greenVars, sync
<1>31. CASE BroadcastOld
  BY <1>31, TypeOK, CritInv DEF BroadcastOld, SaveCritical, At, Goto, TypeOK, CritInv,
     CritPcs, greenVars, sync
<1>32. CASE BroadcastCritical
  BY <1>32, TypeOK, CritInv DEF BroadcastCritical, Set, Critical, At, Goto, TypeOK, CritInv,
     CritPcs, greenVars, sync
<1>33. CASE BroadcastTake
  BY <1>33, TypeOK, CritInv DEF BroadcastTake, At, Goto, TypeOK, CritInv, CritPcs,
     greenVars, sync
<1>34. CASE BroadcastOpen
  BY <1>34, TypeOK, CritInv DEF BroadcastOpen, Set, Critical, At, Goto, TypeOK, CritInv,
     CritPcs, greenVars, sync
<1>35. CASE BroadcastRun
  BY <1>35, TypeOK, CritInv DEF BroadcastRun, Rouse, At, Goto, TypeOK, CritInv, CritPcs,
     greenVars, sync
<1>36. ASSUME NEW t \in Thread, Kill(t) PROVE CritInv'
  BY <1>36, TypeOK, CritInv DEF Kill, Rouse, Unwind, UnwindFrame, UnwindPc, InExclusive, At,
     Goto, TypeOK, CritInv, CritPcs, greenVars, sync
<1>37. ASSUME NEW t \in Thread, Raise(t) PROVE CritInv'
  BY <1>37, TypeOK, CritInv DEF Raise, Interrupt, Unwind, UnwindFrame, UnwindPc,
     InExclusive, At, Goto, TypeOK, CritInv, CritPcs, greenVars, sync
<1>38. ASSUME NEW t \in Thread, Schedule(t) PROVE CritInv'
  BY <1>38, TypeOK, CritInv DEF Schedule, Switch, Awaken, mutexVars, local, TypeOK, CritInv,
     CritPcs, greenVars, sync
<1>39. CASE EndThread
  BY <1>39, TypeOK, CritInv DEF EndThread, Die, Awaken, mutexVars, local, At, Goto, TypeOK,
     CritInv, CritPcs, greenVars, sync
<1>40. CASE Deadlock
  BY <1>40, TypeOK, CritInv DEF Deadlock, mutexVars, local, TypeOK, CritInv, CritPcs,
     greenVars, sync
<1>41. CASE UNCHANGED vars
  BY <1>41 DEF vars, mutexVars, local, TypeOK, CritInv, CritPcs, greenVars, sync
<1> QED
  BY <1>1, <1>2, <1>3, <1>4, <1>5, <1>6, <1>7, <1>8, <1>9, <1>10, <1>11, <1>12, <1>13,
     <1>14, <1>15, <1>16, <1>17, <1>18, <1>19, <1>20, <1>21, <1>22, <1>23, <1>24, <1>25,
     <1>26, <1>27, <1>28, <1>29, <1>30, <1>31, <1>32, <1>33, <1>34, <1>35, <1>36, <1>37,
     <1>38, <1>39, <1>40, <1>41 DEF Next, Statement

(* The statement and the method of a thread fit.                           *)
LEMMA FrameStep ==
    ASSUME TypeOK, FrameInv, CritInv, [Next]_vars
    PROVE  FrameInv'
<1>1. CASE Synchronize
  BY <1>1, TypeOK, FrameInv DEF Synchronize, MayLock, Call, At, Goto, TypeOK, FrameInv, LockPcs,
     SignalPcs, BroadcastPcs, greenVars, sync
<1>2. CASE TryLock
  BY <1>2, TypeOK, FrameInv DEF TryLock, MayLock, Call, At, Goto, TypeOK, FrameInv, LockPcs,
     SignalPcs, BroadcastPcs, greenVars, sync
<1>3. CASE Leave
  BY <1>3, TypeOK, FrameInv DEF Leave, Call, At, Goto, TypeOK, FrameInv, LockPcs, SignalPcs,
     BroadcastPcs, greenVars, sync
<1>4. CASE Wait
  BY <1>4, TypeOK, FrameInv DEF Wait, Call, At, Goto, TypeOK, FrameInv, LockPcs, SignalPcs,
     BroadcastPcs, greenVars, sync
<1>5. CASE Signal
  BY <1>5, TypeOK, FrameInv DEF Signal, MaySignal, Call, At, Goto, TypeOK, FrameInv, LockPcs,
     SignalPcs, BroadcastPcs, greenVars, sync
<1>6. CASE Broadcast
  BY <1>6, TypeOK, FrameInv DEF Broadcast, MaySignal, Call, At, Goto, TypeOK, FrameInv, LockPcs,
     SignalPcs, BroadcastPcs, greenVars, sync
<1>7. CASE Begin
  BY <1>7, TypeOK, FrameInv DEF Begin, Call, At, Goto, TypeOK, FrameInv, LockPcs, SignalPcs,
     BroadcastPcs, greenVars, sync
<1>8. CASE LockCritical
  BY <1>8, TypeOK, FrameInv DEF LockCritical, Set, Critical, At, Goto, TypeOK, FrameInv,
     LockPcs, SignalPcs, BroadcastPcs, greenVars, sync
<1>9. CASE LockTest
  BY <1>9, TypeOK, FrameInv DEF LockTest, At, Goto, TypeOK, FrameInv, LockPcs, SignalPcs,
     BroadcastPcs, greenVars, sync
<1>10. CASE LockStop
  <2>1. CASE OnlyThread
    BY <1>10, <2>1, TypeOK, FrameInv DEF LockStop, StopAt, Unwind, UnwindFrame, UnwindPc,
       InExclusive, At, TypeOK, FrameInv, LockPcs, SignalPcs, BroadcastPcs, sync
  <2>2. CASE ~OnlyThread
    BY <1>10, <2>2, TypeOK, FrameInv DEF LockStop, StopAt, At, Goto, TypeOK, FrameInv,
       LockPcs, SignalPcs, BroadcastPcs, sync
  <2> QED
    BY <2>1, <2>2
<1>11. CASE LockTake
  BY <1>11, TypeOK, FrameInv DEF LockTake, At, Goto, TypeOK, FrameInv, LockPcs, SignalPcs,
     BroadcastPcs, greenVars, sync
<1>12. CASE LockOpen
  BY <1>12, TypeOK, FrameInv DEF LockOpen, Critical, At, Goto, TypeOK, FrameInv, LockPcs,
     SignalPcs, BroadcastPcs, greenVars, sync
<1>13. CASE TryCritical
  BY <1>13, TypeOK, FrameInv DEF TryCritical, Set, Critical, At, Goto, TypeOK, FrameInv,
     LockPcs, SignalPcs, BroadcastPcs, greenVars, sync
<1>14. CASE TryTest
  BY <1>14, TypeOK, FrameInv DEF TryTest, At, Goto, TypeOK, FrameInv, LockPcs, SignalPcs,
     BroadcastPcs, greenVars, sync
<1>15. CASE TryOpen
  BY <1>15, TypeOK, FrameInv DEF TryOpen, Set, Critical, At, Goto, TypeOK, FrameInv,
     LockPcs, SignalPcs, BroadcastPcs, greenVars, sync
<1>16. CASE UnlockTest
  BY <1>16, TypeOK, FrameInv DEF UnlockTest, UnlockReturn, At, Goto, TypeOK, FrameInv,
     LockPcs, SignalPcs, BroadcastPcs, greenVars, sync
<1>17. CASE UnlockCritical
  BY <1>17, TypeOK, FrameInv DEF UnlockCritical, Set, Critical, At, Goto, TypeOK, FrameInv,
     LockPcs, SignalPcs, BroadcastPcs, greenVars, sync
<1>18. CASE UnlockFree
  BY <1>18, TypeOK, FrameInv DEF UnlockFree, At, Goto, TypeOK, FrameInv, LockPcs, SignalPcs,
     BroadcastPcs, greenVars, sync
<1>19. CASE UnlockShift
  BY <1>19, TypeOK, FrameInv DEF UnlockShift, Shifted, First, At, Goto, TypeOK, FrameInv,
     LockPcs, SignalPcs, BroadcastPcs, greenVars, sync
<1>20. CASE UnlockWakeup
  BY <1>20, TypeOK, FrameInv DEF UnlockWakeup, Rouse, At, Goto, TypeOK, FrameInv, LockPcs,
     SignalPcs, BroadcastPcs, greenVars, sync
<1>21. CASE UnlockOpen
  BY <1>21, TypeOK, FrameInv DEF UnlockOpen, Set, Critical, At, Goto, TypeOK, FrameInv,
     LockPcs, SignalPcs, BroadcastPcs, greenVars, sync
<1>22. CASE UnlockRun
  BY <1>22, TypeOK, FrameInv DEF UnlockRun, Rouse, UnlockReturn, At, Goto, TypeOK, FrameInv,
     LockPcs, SignalPcs, BroadcastPcs, greenVars, sync
<1>23. CASE WaitTest
  BY <1>23, TypeOK, FrameInv DEF WaitTest, At, Goto, TypeOK, FrameInv, LockPcs, SignalPcs,
     BroadcastPcs, greenVars, sync
<1>24. CASE WaitOld
  BY <1>24, TypeOK, FrameInv DEF WaitOld, SaveCritical, At, Goto, TypeOK, FrameInv, LockPcs,
     SignalPcs, BroadcastPcs, greenVars, sync
<1>25. CASE WaitCritical
  BY <1>25, TypeOK, FrameInv DEF WaitCritical, Set, Critical, At, Goto, TypeOK, FrameInv,
     LockPcs, SignalPcs, BroadcastPcs, greenVars, sync
<1>26. CASE WaitPush
  BY <1>26, TypeOK, FrameInv DEF WaitPush, At, Goto, TypeOK, FrameInv, LockPcs, SignalPcs,
     BroadcastPcs, greenVars, sync
<1>27. CASE WaitStop
  BY <1>27, TypeOK, FrameInv DEF WaitStop, StopAt, Unwind, UnwindFrame, UnwindPc,
     InExclusive, OnlyThread, At, Goto, TypeOK, FrameInv, LockPcs, SignalPcs, BroadcastPcs,
     greenVars, sync
<1>28. CASE WaitOpen
  BY <1>28, TypeOK, FrameInv DEF WaitOpen, Critical, At, Goto, TypeOK, FrameInv, LockPcs,
     SignalPcs, BroadcastPcs, greenVars, sync
<1>29. CASE SignalShift
  BY <1>29, TypeOK, FrameInv DEF SignalShift, Shifted, First, At, Goto, TypeOK, FrameInv,
     LockPcs, SignalPcs, BroadcastPcs, greenVars, sync
<1>30. CASE SignalRun
  BY <1>30, TypeOK, FrameInv DEF SignalRun, Rouse, At, Goto, TypeOK, FrameInv, LockPcs,
     SignalPcs, BroadcastPcs, greenVars, sync
<1>31. CASE BroadcastOld
  BY <1>31, TypeOK, FrameInv DEF BroadcastOld, SaveCritical, At, Goto, TypeOK, FrameInv,
     LockPcs, SignalPcs, BroadcastPcs, greenVars, sync
<1>32. CASE BroadcastCritical
  BY <1>32, TypeOK, FrameInv DEF BroadcastCritical, Set, Critical, At, Goto, TypeOK,
     FrameInv, LockPcs, SignalPcs, BroadcastPcs, greenVars, sync
<1>33. CASE BroadcastTake
  BY <1>33, TypeOK, FrameInv DEF BroadcastTake, At, Goto, TypeOK, FrameInv, LockPcs,
     SignalPcs, BroadcastPcs, greenVars, sync
<1>34. CASE BroadcastOpen
  BY <1>34, TypeOK, FrameInv DEF BroadcastOpen, Set, Critical, At, Goto, TypeOK, FrameInv,
     LockPcs, SignalPcs, BroadcastPcs, greenVars, sync
<1>35. CASE BroadcastRun
  BY <1>35, TypeOK, FrameInv DEF BroadcastRun, Rouse, At, Goto, TypeOK, FrameInv, LockPcs,
     SignalPcs, BroadcastPcs, greenVars, sync
<1>36. ASSUME NEW t \in Thread, Kill(t) PROVE FrameInv'
  BY <1>36, TypeOK, FrameInv DEF Kill, Rouse, Unwind, UnwindFrame, UnwindPc, InExclusive,
     At, Goto, TypeOK, FrameInv, LockPcs, SignalPcs, BroadcastPcs, greenVars, sync
<1>37. ASSUME NEW t \in Thread, Raise(t) PROVE FrameInv'
  BY <1>37, TypeOK, FrameInv DEF Raise, Interrupt, Unwind, UnwindFrame, UnwindPc,
     InExclusive, At, Goto, TypeOK, FrameInv, LockPcs, SignalPcs, BroadcastPcs, greenVars,
     sync
<1>38. ASSUME NEW t \in Thread, Schedule(t) PROVE FrameInv'
  BY <1>38, TypeOK, FrameInv DEF Schedule, Switch, Awaken, mutexVars, local, TypeOK,
     FrameInv, LockPcs, SignalPcs, BroadcastPcs, greenVars, sync
<1>39. CASE EndThread
  BY <1>39, TypeOK, FrameInv DEF EndThread, Die, Awaken, mutexVars, local, At, Goto, TypeOK,
     FrameInv, LockPcs, SignalPcs, BroadcastPcs, greenVars, sync
<1>40. CASE Deadlock
  BY <1>40, TypeOK, FrameInv DEF Deadlock, mutexVars, local, TypeOK, FrameInv, LockPcs,
     SignalPcs, BroadcastPcs, greenVars, sync
<1>41. CASE UNCHANGED vars
  BY <1>41 DEF vars, mutexVars, local, TypeOK, FrameInv, LockPcs, SignalPcs, BroadcastPcs,
     greenVars, sync
<1> QED
  BY <1>1, <1>2, <1>3, <1>4, <1>5, <1>6, <1>7, <1>8, <1>9, <1>10, <1>11, <1>12, <1>13,
     <1>14, <1>15, <1>16, <1>17, <1>18, <1>19, <1>20, <1>21, <1>22, <1>23, <1>24, <1>25,
     <1>26, <1>27, <1>28, <1>29, <1>30, <1>31, <1>32, <1>33, <1>34, <1>35, <1>36, <1>37,
     <1>38, <1>39, <1>40, <1>41 DEF Next, Statement

(* At most one thread owns the lock.                                       *)
LEMMA LockStep ==
    ASSUME Inv, LockInv, Disciplined, [Next]_vars
    PROVE  LockInv'
<1>1. CASE Synchronize
  BY <1>1, Inv, LockInv, Disciplined DEF Synchronize, MayLock, Call, At, Goto, Inv, TypeOK, CritInv,
     CritPcs, FrameInv, LockInv, Owns, Disciplined, LockPcs, SignalPcs, BroadcastPcs,
     greenVars, sync
<1>2. CASE TryLock
  BY <1>2, Inv, LockInv, Disciplined DEF TryLock, MayLock, Call, At, Goto, Inv, TypeOK, CritInv,
     CritPcs, FrameInv, LockInv, Owns, Disciplined, LockPcs, SignalPcs, BroadcastPcs,
     greenVars, sync
<1>3. CASE Leave
  BY <1>3, Inv, LockInv, Disciplined DEF Leave, Call, At, Goto, Inv, TypeOK, CritInv,
     CritPcs, FrameInv, LockInv, Owns, Disciplined, LockPcs, SignalPcs, BroadcastPcs,
     greenVars, sync
<1>4. CASE Wait
  BY <1>4, Inv, LockInv, Disciplined DEF Wait, Call, At, Goto, Inv, TypeOK, CritInv,
     CritPcs, FrameInv, LockInv, Owns, Disciplined, LockPcs, SignalPcs, BroadcastPcs,
     greenVars, sync
<1>5. CASE Signal
  BY <1>5, Inv, LockInv, Disciplined DEF Signal, MaySignal, Call, At, Goto, Inv, TypeOK, CritInv,
     CritPcs, FrameInv, LockInv, Owns, Disciplined, LockPcs, SignalPcs, BroadcastPcs,
     greenVars, sync
<1>6. CASE Broadcast
  BY <1>6, Inv, LockInv, Disciplined DEF Broadcast, MaySignal, Call, At, Goto, Inv, TypeOK, CritInv,
     CritPcs, FrameInv, LockInv, Owns, Disciplined, LockPcs, SignalPcs, BroadcastPcs,
     greenVars, sync
<1>7. CASE Begin
  BY <1>7, Inv, LockInv, Disciplined DEF Begin, Call, At, Goto, Inv, TypeOK, CritInv,
     CritPcs, FrameInv, LockInv, Owns, Disciplined, LockPcs, SignalPcs, BroadcastPcs,
     greenVars, sync
<1>8. CASE LockCritical
  BY <1>8, Inv, LockInv, Disciplined DEF LockCritical, Set, Critical, At, Goto, Inv, TypeOK,
     CritInv, CritPcs, FrameInv, LockInv, Owns, Disciplined, LockPcs, SignalPcs,
     BroadcastPcs, greenVars, sync
<1>9. CASE LockTest
  BY <1>9, Inv, LockInv, Disciplined DEF LockTest, At, Goto, Inv, TypeOK, CritInv, CritPcs,
     FrameInv, LockInv, Owns, Disciplined, LockPcs, SignalPcs, BroadcastPcs, greenVars, sync
<1>10. CASE LockStop
  <2>1. CASE OnlyThread
    <3>1. \A t \in Thread \ {curr} : ~Owns(t)' /\ pc'[t] \notin {"lock_take", "lock_stop"}
      BY <1>10, <2>1, Inv, ZenonT(60) DEF LockStop, StopAt, Unwind, OnlyThread, Inv, TypeOK, FrameInv,
         Owns
    <3>2. locked /\ locked'
      BY <1>10, Inv, LockInv DEF LockStop, StopAt, At, Inv, TypeOK, LockInv, sync
    <3>3. pc'[curr] \notin {"lock_take", "lock_stop"}
      BY <1>10, <2>1, Inv DEF LockStop, StopAt, Unwind, UnwindPc, Inv, TypeOK
    <3>4. "wait" \notin Calls => \A t \in Thread : frame'[t] \notin {"wait", "relock"}
      BY <1>10, <2>1, Inv, LockInv DEF LockStop, StopAt, Unwind, UnwindFrame, UnwindPc,
         InExclusive, Inv, TypeOK, LockInv
    <3> QED
      BY <3>1, <3>2, <3>3, <3>4 DEF LockInv
  <2>2. CASE ~OnlyThread
    <3>1. \A t \in Thread : Owns(t)' => Owns(t)
      BY <1>10, <2>2, Inv DEF LockStop, StopAt, At, Goto, Inv, TypeOK, FrameInv, Owns,
         LockPcs
    <3>2. \A t \in Thread : pc'[t] \in {"lock_take", "lock_stop"} => pc'[t] = pc[t]
      BY <1>10, <2>2, Inv DEF LockStop, StopAt, Goto, Inv, TypeOK
    <3>3. locked' = locked /\ frame' = frame
      BY <1>10, <2>2 DEF LockStop, StopAt, sync
    <3> QED
      BY <3>1, <3>2, <3>3, LockInv DEF LockInv
  <2> QED
    BY <2>1, <2>2
<1>11. CASE LockTake
  BY <1>11, Inv, LockInv, Disciplined DEF LockTake, At, Goto, Inv, TypeOK, CritInv, CritPcs,
     FrameInv, LockInv, Owns, Disciplined, LockPcs, SignalPcs, BroadcastPcs, greenVars, sync
<1>12. CASE LockOpen
  <2>1. \A t \in Thread : Owns(t)' => Owns(t)
    BY <1>12, Inv DEF LockOpen, At, Goto, Inv, TypeOK, FrameInv, Owns, LockPcs
  <2>2. \A t \in Thread : pc'[t] \in {"lock_take", "lock_stop"} => pc'[t] = pc[t]
    BY <1>12, Inv DEF LockOpen, Goto, Inv, TypeOK
  <2>3. locked' = locked
    BY <1>12 DEF LockOpen, sync
  <2>4. "wait" \notin Calls => \A t \in Thread : frame'[t] \notin {"wait", "relock"}
    BY <1>12, Inv, LockInv DEF LockOpen, Inv, TypeOK, LockInv
  <2> QED
    BY <2>1, <2>2, <2>3, <2>4, LockInv DEF LockInv
<1>13. CASE TryCritical
  BY <1>13, Inv, LockInv, Disciplined DEF TryCritical, Set, Critical, At, Goto, Inv, TypeOK,
     CritInv, CritPcs, FrameInv, LockInv, Owns, Disciplined, LockPcs, SignalPcs,
     BroadcastPcs, greenVars, sync
<1>14. CASE TryTest
  BY <1>14, Inv, LockInv, Disciplined DEF TryTest, At, Goto, Inv, TypeOK, CritInv, CritPcs,
     FrameInv, LockInv, Owns, Disciplined, LockPcs, SignalPcs, BroadcastPcs, greenVars, sync
<1>15. CASE TryOpen
  BY <1>15, Inv, LockInv, Disciplined DEF TryOpen, Set, Critical, At, Goto, Inv, TypeOK,
     CritInv, CritPcs, FrameInv, LockInv, Owns, Disciplined, LockPcs, SignalPcs,
     BroadcastPcs, greenVars, sync
<1>16. CASE UnlockTest
  <2>0. \A t \in Thread : Owns(t)' => Owns(t)
    BY <1>16, Inv, LockInv DEF UnlockTest, UnlockReturn, At, Goto, Inv, TypeOK, FrameInv,
       LockInv, Owns, LockPcs
  <2>1. locked' = locked
    BY <1>16 DEF UnlockTest, UnlockReturn, sync
  <2>2. \A t \in Thread : pc'[t] \in {"lock_take", "lock_stop"} => pc'[t] = pc[t]
    BY <1>16, Inv DEF UnlockTest, UnlockReturn, Goto, Inv, TypeOK
  <2>3. "wait" \notin Calls => \A t \in Thread : frame'[t] \notin {"wait", "relock"}
    BY <1>16, Inv, LockInv DEF UnlockTest, UnlockReturn, At, Inv, TypeOK, FrameInv, LockInv
  <2> QED
    BY <2>0, <2>1, <2>2, <2>3, LockInv DEF LockInv
<1>17. CASE UnlockCritical
  BY <1>17, Inv, LockInv, Disciplined DEF UnlockCritical, Set, Critical, At, Goto, Inv,
     TypeOK, CritInv, CritPcs, FrameInv, LockInv, Owns, Disciplined, LockPcs, SignalPcs,
     BroadcastPcs, greenVars, sync
<1>18. CASE UnlockFree
  BY <1>18, Inv, LockInv, Disciplined DEF UnlockFree, At, Goto, Inv, TypeOK, CritInv,
     CritPcs, FrameInv, LockInv, Owns, Disciplined, LockPcs, SignalPcs, BroadcastPcs,
     greenVars, sync
<1>19. CASE UnlockShift
  BY <1>19, Inv, LockInv, Disciplined, SMTT(30) DEF UnlockShift, Shifted, First, At, Goto, Inv,
     TypeOK, CritInv, CritPcs, FrameInv, LockInv, Owns, Disciplined, LockPcs, SignalPcs,
     BroadcastPcs, greenVars, sync
<1>20. CASE UnlockWakeup
  BY <1>20, Inv, LockInv, Disciplined DEF UnlockWakeup, Rouse, At, Goto, Inv, TypeOK,
     CritInv, CritPcs, FrameInv, LockInv, Owns, Disciplined, LockPcs, SignalPcs,
     BroadcastPcs, greenVars, sync
<1>21. CASE UnlockOpen
  BY <1>21, Inv, LockInv, Disciplined DEF UnlockOpen, Set, Critical, At, Goto, Inv, TypeOK,
     CritInv, CritPcs, FrameInv, LockInv, Owns, Disciplined, LockPcs, SignalPcs,
     BroadcastPcs, greenVars, sync
<1>22. CASE UnlockRun
  BY <1>22, Inv, LockInv, Disciplined DEF UnlockRun, Rouse, UnlockReturn, At, Goto, Inv,
     TypeOK, CritInv, CritPcs, FrameInv, LockInv, Owns, Disciplined, LockPcs, SignalPcs,
     BroadcastPcs, greenVars, sync
<1>23. CASE WaitTest
  <2>0. \A t \in Thread : Owns(t)' => Owns(t)
    BY <1>23, Inv, LockInv DEF WaitTest, At, Goto, Inv, TypeOK, FrameInv, LockInv, Owns,
       LockPcs
  <2>1. locked' = locked
    BY <1>23 DEF WaitTest, sync
  <2>2. \A t \in Thread : pc'[t] \in {"lock_take", "lock_stop"} => pc'[t] = pc[t]
    BY <1>23, Inv DEF WaitTest, Goto, Inv, TypeOK
  <2>3. "wait" \notin Calls => \A t \in Thread : frame'[t] \notin {"wait", "relock"}
    BY <1>23, Inv, LockInv DEF WaitTest, At, Inv, TypeOK, FrameInv, LockInv
  <2> QED
    BY <2>0, <2>1, <2>2, <2>3, LockInv DEF LockInv
<1>24. CASE WaitOld
  BY <1>24, Inv, LockInv, Disciplined DEF WaitOld, SaveCritical, At, Goto, Inv, TypeOK,
     CritInv, CritPcs, FrameInv, LockInv, Owns, Disciplined, LockPcs, SignalPcs,
     BroadcastPcs, greenVars, sync
<1>25. CASE WaitCritical
  BY <1>25, Inv, LockInv, Disciplined DEF WaitCritical, Set, Critical, At, Goto, Inv,
     TypeOK, CritInv, CritPcs, FrameInv, LockInv, Owns, Disciplined, LockPcs, SignalPcs,
     BroadcastPcs, greenVars, sync
<1>26. CASE WaitPush
  BY <1>26, Inv, LockInv, Disciplined DEF WaitPush, At, Goto, Inv, TypeOK, CritInv, CritPcs,
     FrameInv, LockInv, Owns, Disciplined, LockPcs, SignalPcs, BroadcastPcs, greenVars, sync
<1>27. CASE WaitStop
  BY <1>27, Inv, LockInv, Disciplined DEF WaitStop, StopAt, Unwind, UnwindFrame, UnwindPc,
     InExclusive, OnlyThread, At, Goto, Inv, TypeOK, CritInv, CritPcs, FrameInv, LockInv,
     Owns, Disciplined, LockPcs, SignalPcs, BroadcastPcs, greenVars, sync
<1>28. CASE WaitOpen
  BY <1>28, Inv, LockInv, Disciplined DEF WaitOpen, Critical, At, Goto, Inv, TypeOK,
     CritInv, CritPcs, FrameInv, LockInv, Owns, Disciplined, LockPcs, SignalPcs,
     BroadcastPcs, greenVars, sync
<1>29. CASE SignalShift
  BY <1>29, Inv, LockInv, Disciplined DEF SignalShift, Shifted, First, At, Goto, Inv,
     TypeOK, CritInv, CritPcs, FrameInv, LockInv, Owns, Disciplined, LockPcs, SignalPcs,
     BroadcastPcs, greenVars, sync
<1>30. CASE SignalRun
  BY <1>30, Inv, LockInv, Disciplined DEF SignalRun, Rouse, At, Goto, Inv, TypeOK, CritInv,
     CritPcs, FrameInv, LockInv, Owns, Disciplined, LockPcs, SignalPcs, BroadcastPcs,
     greenVars, sync
<1>31. CASE BroadcastOld
  BY <1>31, Inv, LockInv, Disciplined DEF BroadcastOld, SaveCritical, At, Goto, Inv, TypeOK,
     CritInv, CritPcs, FrameInv, LockInv, Owns, Disciplined, LockPcs, SignalPcs,
     BroadcastPcs, greenVars, sync
<1>32. CASE BroadcastCritical
  BY <1>32, Inv, LockInv, Disciplined DEF BroadcastCritical, Set, Critical, At, Goto, Inv,
     TypeOK, CritInv, CritPcs, FrameInv, LockInv, Owns, Disciplined, LockPcs, SignalPcs,
     BroadcastPcs, greenVars, sync
<1>33. CASE BroadcastTake
  BY <1>33, Inv, LockInv, Disciplined DEF BroadcastTake, At, Goto, Inv, TypeOK, CritInv,
     CritPcs, FrameInv, LockInv, Owns, Disciplined, LockPcs, SignalPcs, BroadcastPcs,
     greenVars, sync
<1>34. CASE BroadcastOpen
  BY <1>34, Inv, LockInv, Disciplined DEF BroadcastOpen, Set, Critical, At, Goto, Inv,
     TypeOK, CritInv, CritPcs, FrameInv, LockInv, Owns, Disciplined, LockPcs, SignalPcs,
     BroadcastPcs, greenVars, sync
<1>35. CASE BroadcastRun
  BY <1>35, Inv, LockInv, Disciplined DEF BroadcastRun, Rouse, At, Goto, Inv, TypeOK,
     CritInv, CritPcs, FrameInv, LockInv, Owns, Disciplined, LockPcs, SignalPcs,
     BroadcastPcs, greenVars, sync
<1>36. ASSUME NEW t \in Thread, Kill(t) PROVE LockInv'
  BY <1>36, Inv, LockInv, Disciplined DEF Kill, MayInterrupt, Rouse, Unwind, UnwindFrame, UnwindPc,
     InExclusive, At, Goto, Inv, TypeOK, CritInv, CritPcs, FrameInv, LockInv, Owns,
     Disciplined, LockPcs, SignalPcs, BroadcastPcs, greenVars, sync
<1>37. ASSUME NEW t \in Thread, Raise(t) PROVE LockInv'
  BY <1>37, Inv, LockInv, Disciplined DEF Raise, MayInterrupt, Interrupt, Unwind, UnwindFrame, UnwindPc,
     InExclusive, At, Goto, Inv, TypeOK, CritInv, CritPcs, FrameInv, LockInv, Owns,
     Disciplined, LockPcs, SignalPcs, BroadcastPcs, greenVars, sync
<1>38. ASSUME NEW t \in Thread, Schedule(t) PROVE LockInv'
  BY <1>38, Inv, LockInv, Disciplined DEF Schedule, Switch, Awaken, mutexVars, local, Inv,
     TypeOK, CritInv, CritPcs, FrameInv, LockInv, Owns, Disciplined, LockPcs, SignalPcs,
     BroadcastPcs, greenVars, sync
<1>39. CASE EndThread
  BY <1>39, Inv, LockInv, Disciplined DEF EndThread, Die, Awaken, mutexVars, local, At,
     Goto, Inv, TypeOK, CritInv, CritPcs, FrameInv, LockInv, Owns, Disciplined, LockPcs,
     SignalPcs, BroadcastPcs, greenVars, sync
<1>40. CASE Deadlock
  BY <1>40, Inv, LockInv, Disciplined DEF Deadlock, mutexVars, local, Inv, TypeOK, CritInv,
     CritPcs, FrameInv, LockInv, Owns, Disciplined, LockPcs, SignalPcs, BroadcastPcs,
     greenVars, sync
<1>41. CASE UNCHANGED vars
  BY <1>41 DEF vars, mutexVars, local, Inv, TypeOK, CritInv, CritPcs, FrameInv, LockInv,
     Owns, Disciplined, LockPcs, SignalPcs, BroadcastPcs, greenVars, sync
<1> QED
  BY <1>1, <1>2, <1>3, <1>4, <1>5, <1>6, <1>7, <1>8, <1>9, <1>10, <1>11, <1>12, <1>13,
     <1>14, <1>15, <1>16, <1>17, <1>18, <1>19, <1>20, <1>21, <1>22, <1>23, <1>24, <1>25,
     <1>26, <1>27, <1>28, <1>29, <1>30, <1>31, <1>32, <1>33, <1>34, <1>35, <1>36, <1>37,
     <1>38, <1>39, <1>40, <1>41 DEF Next, Statement

LEMMA InvInit == Init => Inv /\ LockInv
<1> SUFFICES ASSUME Init PROVE Inv /\ LockInv
  OBVIOUS
<1>1. TypeOK
  <2>1. /\ waiting \in Seq(Thread) /\ waiters \in Seq(Thread)
        /\ rest \in [Thread -> Seq(Thread)]
    BY NoneWaits DEF Init
  <2>2. state \in [Thread -> {"awake", "stopped", "dead"}] /\ pc \in [Thread -> Pcs]
    BY DEF Init, Pcs
  <2>3. frame \in [Thread -> Frames] /\ pending \in [Thread -> {"none", "raise", "kill"}]
    BY DEF Init, Frames
  <2>4. target \in [Thread -> Thread \cup {Nil}] /\ old \in [Thread -> BOOLEAN]
    BY DEF Init
  <2> QED
    BY <2>1, <2>2, <2>3, <2>4, MutexAssumption DEF Init, TypeOK
<1>2. CritInv
  BY <1>1 DEF Init, TypeOK, CritInv, CritPcs
<1>3. FrameInv
  BY DEF Init, FrameInv, LockPcs, SignalPcs, BroadcastPcs
<1>4. LockInv
  BY DEF Init, LockInv, Owns
<1> QED
  BY <1>1, <1>2, <1>3, <1>4 DEF Inv

(* The statements of thread.rb keep the types of their variables.          *)
THEOREM MutexTypes == Spec => []TypeOK
<1>1. Init => TypeOK
  BY InvInit DEF Inv
<1>2. TypeOK /\ [Next]_vars => TypeOK'
  BY TypeStep
<1> QED
  BY <1>1, <1>2, PTL DEF Spec

(* The invariant of the critical sections needs no discipline.             *)
LEMMA InvHolds == Spec => []Inv
<1>1. Init => Inv
  BY InvInit
<1>2. Inv /\ [Next]_vars => Inv'
  BY TypeStep, CritStep, FrameStep DEF Inv
<1> QED
  BY <1>1, <1>2, PTL DEF Spec

(* Mutex and ConditionVariable never leave Thread.critical set, whatever   *)
(* the program does: kill and raise included.                              *)
THEOREM CriticalSafe == Spec => []CriticalReleased
<1>1. Inv => CriticalReleased
  BY DEF Inv, TypeOK, CritInv, CritPcs, CriticalReleased
<1> QED
  BY <1>1, InvHolds, PTL

(* Mutual exclusion of the blocks of synchronize, for any number of        *)
(* threads, in a program that does not interrupt threads in wait.          *)
THEOREM MutexCorrect ==
    ASSUME Disciplined
    PROVE  Spec => []MutualExclusion
<1>1. Init => LockInv
  BY InvInit
<1>2. Inv /\ LockInv /\ [Next]_vars => LockInv'
  BY LockStep, Disciplined
<1>3. LockInv => MutualExclusion
  BY DEF LockInv, Owns, MutualExclusion
<1> QED
  BY <1>1, <1>2, <1>3, InvHolds, PTL DEF Spec

-----------------------------------------------------------------------------
(* Who sleeps in lock is listed.                                           *)

(* A thread sleeps in lock or in wait; in lock it is in @waiting, before   *)
(* it stops already, or has just been shifted, by a thread that will wake  *)
(* it before any other statement is executed.                              *)
SleepInv ==
    /\ \A t \in Thread : state[t] = "stopped" => pc[t] \in {"lock_critical", "wait_open"}
    /\ \A t \in Thread : state[t] = "stopped" /\ pc[t] = "lock_critical" =>
           \/ t \in Elements(waiting)
           \/ pc[curr] = "unlock_wakeup" /\ target[curr] = t
    /\ \A t \in Thread : pc[t] = "lock_stop" => t \in Elements(waiting)

(* Steps that have nothing to do with @waiting and put nobody to sleep.    *)
LEMMA SleepKept ==
    ASSUME SleepInv, waiting' = waiting, pc[curr] # "unlock_wakeup",
           \A t \in Thread : state'[t] = "stopped" => state[t] = "stopped" /\ pc'[t] = pc[t],
           \A t \in Thread : pc'[t] = "lock_stop" => pc[t] = "lock_stop"
    PROVE  SleepInv'
BY DEF SleepInv

(* What shift makes of a list: the first element is the one returned.      *)
LEMMA ShiftArray ==
    ASSUME NEW q \in Seq(Thread)
    PROVE  /\ Shifted(q) \in Seq(Thread)
           /\ \A t \in Thread : t \in Elements(q) <=> t \in Elements(Shifted(q)) \/ t = First(q)
<1>1. CASE q = << >>
  BY <1>1, EmptyArray, MutexAssumption DEF Shifted, First
<1>2. CASE q # << >>
  BY <1>2, TailArray DEF Shifted, First
<1> QED BY <1>1, <1>2

LEMMA SleepStep ==
    ASSUME Inv, SleepInv, [Next]_vars
    PROVE  SleepInv'
<1> TypeOK /\ CritInv /\ FrameInv
  BY DEF Inv
<1>0. curr \in Thread /\ waiting \in Seq(Thread)
  BY DEF TypeOK
<1>1. CASE Synchronize \/ TryLock \/ Leave \/ Wait \/ Signal \/ Broadcast \/ Begin
  BY <1>1, SleepKept DEF Synchronize, MayLock, TryLock, Leave, Wait, Signal, MaySignal, Broadcast, Begin, Call, At,
     Goto, TypeOK, greenVars, sync
<1>2. CASE LockCritical \/ TryCritical \/ TryOpen \/ UnlockCritical \/ UnlockOpen
           \/ WaitCritical \/ BroadcastCritical \/ BroadcastOpen
  BY <1>2, SleepKept DEF LockCritical, TryCritical, TryOpen, UnlockCritical, UnlockOpen,
     WaitCritical, BroadcastCritical, BroadcastOpen, Set, Critical, At, Goto, TypeOK, sync
<1>3. CASE LockTake \/ LockOpen \/ TryTest \/ UnlockTest \/ UnlockFree
  BY <1>3, SleepKept DEF LockTake, LockOpen, TryTest, UnlockTest, UnlockReturn, UnlockFree,
     Critical, At, Goto, TypeOK, greenVars, sync
<1>4. CASE WaitTest \/ WaitOld \/ WaitPush \/ WaitOpen \/ BroadcastOld
  BY <1>4, SleepKept DEF WaitTest, WaitOld, WaitPush, WaitOpen, BroadcastOld, SaveCritical,
     Critical, At, Goto, TypeOK, greenVars, sync
<1>5. CASE SignalShift \/ BroadcastTake
  BY <1>5, SleepKept DEF SignalShift, BroadcastTake, At, Goto, TypeOK, greenVars
<1>6. CASE UnlockRun
  BY <1>6, SleepKept DEF UnlockRun, UnlockReturn, Rouse, At, Goto, TypeOK, greenVars, sync
<1>7. CASE SignalRun
  BY <1>7, SleepKept DEF SignalRun, Rouse, At, Goto, TypeOK, greenVars, sync
<1>8. CASE BroadcastRun
  BY <1>8, SleepKept DEF BroadcastRun, Rouse, At, Goto, TypeOK, greenVars, sync
<1>9. CASE LockTest
  <2>1. /\ UNCHANGED greenVars /\ target' = target /\ pc[curr] = "lock_test"
        /\ pc' = [pc EXCEPT ![curr] = IF locked THEN "lock_stop" ELSE "lock_take"]
        /\ waiting' = IF locked THEN Append(waiting, curr) ELSE waiting
        /\ state[curr] = "awake"
    BY <1>9 DEF LockTest, At, Goto, TypeOK
  <2>2. /\ Elements(waiting) \subseteq Elements(waiting')
        /\ locked => curr \in Elements(waiting')
    BY <1>0, <2>1, AppendArray
  <2> QED BY <1>0, <2>1, <2>2 DEF SleepInv, TypeOK, greenVars
<1>10. CASE LockStop
  <2>1. /\ pc[curr] = "lock_stop" /\ UNCHANGED <<curr, waiting>>
        /\ \A t \in Thread \ {curr} : state'[t] = state[t] /\ pc'[t] = pc[t]
    BY <1>10 DEF LockStop, StopAt, Unwind, Goto, At, TypeOK, sync
  <2>2. CASE OnlyThread
    <3>1. state'[curr] = "awake" /\ pc'[curr] # "lock_stop"
      BY <1>10, <2>2 DEF LockStop, StopAt, Unwind, UnwindPc, At, TypeOK
    <3> QED BY <2>1, <3>1, SleepKept
  <2>3. CASE ~OnlyThread
    <3>1. pc'[curr] = "lock_critical" /\ target' = target
      BY <1>10, <2>3 DEF LockStop, StopAt, Goto, TypeOK
    <3>2. curr \in Elements(waiting')
      BY <1>0, <2>1 DEF SleepInv
    <3> QED BY <2>1, <3>1, <3>2 DEF SleepInv
  <2> QED BY <2>2, <2>3
<1>11. CASE UnlockShift
  <2>1. /\ UNCHANGED greenVars /\ pc[curr] = "unlock_shift" /\ pc' = [pc EXCEPT ![curr] = "unlock_wakeup"]
        /\ waiting' = Shifted(waiting) /\ target' = [target EXCEPT ![curr] = First(waiting)]
        /\ state[curr] = "awake"
    BY <1>11 DEF UnlockShift, At, Goto
  <2>2. /\ pc'[curr'] = "unlock_wakeup" /\ target'[curr'] = First(waiting)
        /\ state' = state /\ curr' = curr
        /\ \A t \in Thread \ {curr} : pc'[t] = pc[t] /\ pc[t] # "lock_stop"
    BY <1>0, <2>1 DEF TypeOK, CritInv, CritPcs, greenVars
  <2>3. \A t \in Thread : t \in Elements(waiting) => t \in Elements(waiting') \/ t = First(waiting)
    BY <1>0, <2>1, ShiftArray
  <2> QED BY <1>0, <2>1, <2>2, <2>3 DEF SleepInv, TypeOK
<1>12. CASE UnlockWakeup
  <2>1. /\ pc[curr] = "unlock_wakeup" /\ curr' = curr /\ waiting' = waiting
        /\ \A t \in Thread \ {curr} : pc'[t] = pc[t]
        /\ pc'[curr] \in {"unlock_shift", "wait_push", "unlock_open"} /\ state[curr] = "awake"
    BY <1>12 DEF UnlockWakeup, Rouse, At, Goto, TypeOK, greenVars, sync
  <2>2. \A t \in Thread : state'[t] = "stopped" => state[t] = "stopped" /\ t # target[curr]
    BY <1>12, MutexAssumption DEF UnlockWakeup, Rouse, TypeOK, greenVars
  <2> QED BY <1>0, <2>1, <2>2 DEF SleepInv
<1>13. CASE WaitStop
  <2>1. /\ pc[curr] = "wait_stop" /\ UNCHANGED <<curr, waiting>>
        /\ \A t \in Thread \ {curr} : state'[t] = state[t] /\ pc'[t] = pc[t]
    BY <1>13 DEF WaitStop, StopAt, Unwind, Goto, At, TypeOK, sync
  <2>2. CASE OnlyThread
    <3>1. state'[curr] = "awake" /\ pc'[curr] # "lock_stop"
      BY <1>13, <2>2 DEF WaitStop, StopAt, Unwind, UnwindPc, At, TypeOK
    <3> QED BY <2>1, <3>1, SleepKept
  <2>3. CASE ~OnlyThread
    <3>1. pc'[curr] = "wait_open"
      BY <1>13, <2>3 DEF WaitStop, StopAt, Goto, TypeOK
    <3> QED BY <2>1, <3>1 DEF SleepInv
  <2> QED BY <2>2, <2>3
<1>14. ASSUME NEW t \in Thread, Kill(t) \/ Raise(t) PROVE SleepInv'
  <2>1. /\ pc[curr] = "run" /\ waiting' = waiting /\ state'[t] # "stopped"
        /\ pc' = [pc EXCEPT ![t] = UnwindPc(t)]
        /\ \A u \in Thread \ {t} : state'[u] = state[u]
    BY <1>14 DEF Kill, Raise, Rouse, Interrupt, Unwind, At, TypeOK, sync
  <2>2. UnwindPc(t) # "lock_stop"
    BY DEF UnwindPc
  <2> QED BY <2>1, <2>2, SleepKept DEF TypeOK
<1>15. ASSUME NEW t \in Thread, Schedule(t) PROVE SleepInv'
  <2>1. pc[curr] # "unlock_wakeup" /\ waiting' = waiting /\ pc' = pc
    BY <1>0, <1>15 DEF Schedule, Switch, mutexVars, sync, local, CritInv, CritPcs
  <2>2. \A u \in Thread : state'[u] = "stopped" => state[u] = "stopped"
    BY <1>15 DEF Schedule, Switch, Awaken
  <2> QED BY <2>1, <2>2, SleepKept
<1>16. CASE EndThread
  BY <1>16, SleepKept DEF EndThread, Die, Awaken, At, TypeOK, mutexVars, local, sync
<1>17. CASE Deadlock \/ UNCHANGED vars
  BY <1>17 DEF Deadlock, vars, greenVars, mutexVars, local, sync, SleepInv
<1> QED
  BY <1>1, <1>2, <1>3, <1>4, <1>5, <1>6, <1>7, <1>8, <1>9, <1>10, <1>11, <1>12, <1>13, <1>14,
     <1>15, <1>16, <1>17 DEF Next, Statement

LEMMA SleepHolds == Spec => []SleepInv
<1>1. Init => SleepInv
  BY MutexAssumption DEF Init, SleepInv
<1>2. Inv /\ SleepInv /\ [Next]_vars => SleepInv'
  BY SleepStep
<1> QED BY <1>1, <1>2, InvHolds, PTL DEF Spec

(* Nobody sleeps in Mutex#lock, or in the lock ConditionVariable#wait ends *)
(* with, without an entry in @waiting: push and stop are one critical      *)
(* section, and so are shift and wakeup.  This needs no discipline: the    *)
(* exceptions of other threads do not meet a thread there.                 *)
THEOREM WaitersListed == Spec => []WaiterListed
<1>1. Inv /\ SleepInv => WaiterListed
  BY DEF Inv, FrameInv, SleepInv, WaiterListed
<1> QED BY <1>1, InvHolds, SleepHolds, PTL

-----------------------------------------------------------------------------
(* Who sleeps in wait is listed.                                           *)

(* No thread is interrupted: an exception would make signal, or broadcast, *)
(* forget the threads it has taken from @waiters.                          *)
Uninterrupted == Calls \cap {"kill", "raise"} = {}

(* The locals of unlock, signal and broadcast are empty elsewhere, and     *)
(* what is dropped from them does not sleep.                               *)
LocalInv ==
    /\ \A t \in Thread : target[t] # Nil =>
           pc[t] \in {"unlock_shift", "unlock_wakeup", "unlock_open", "unlock_run", "wait_push",
                      "signal_run"}
    /\ \A t \in Thread : pc[t] \in {"unlock_shift", "wait_push"} /\ target[t] # Nil =>
           state[target[t]] # "stopped"
    /\ \A t \in Thread : rest[t] # << >> => pc[t] \in {"broadcast_open", "broadcast_run"}
InHand(t) == \E u \in Thread : target[u] = t \/ t \in Elements(rest[u])
CondInv ==
    /\ LocalInv
    /\ \A t \in Thread : pc[t] = "wait_stop" => t \in Elements(waiters)
    /\ \A t \in Thread : Sleeps(t, "wait") => t \in Elements(waiters) \/ InHand(t)

(* Steps that leave the lists and the locals alone.                        *)
LEMMA CondKept ==
    ASSUME TypeOK, CondInv, waiters' = waiters,
           \A t \in Thread : target'[t] = target[t] /\ rest'[t] = rest[t],
           \A t \in Thread : state'[t] = "stopped" => state[t] = "stopped",
           \A t \in Thread : state'[t] = "stopped" => frame'[t] = frame[t],
           \A t \in Thread : pc'[t] # pc[t] =>
               target[t] = Nil /\ rest[t] = << >> /\ pc'[t] # "wait_stop"
    PROVE  CondInv'
<1>1. LocalInv'
  <2>1. \A t \in Thread : target'[t] # Nil \/ rest'[t] # << >> => pc'[t] = pc[t]
    OBVIOUS
  <2>2. \A t \in Thread : target[t] # Nil => target[t] \in Thread
    BY DEF TypeOK
  <2> QED BY <2>1, <2>2 DEF CondInv, LocalInv
<1>2. \A t \in Thread : InHand(t) => InHand(t)'
  BY DEF InHand
<1>3. \A t \in Thread : Sleeps(t, "wait")' => Sleeps(t, "wait")
  BY DEF Sleeps
<1> QED BY <1>1, <1>2, <1>3 DEF CondInv

(* Steps of the running thread: what it changes it changes in its own      *)
(* locals and in @waiters, and who sleeps stays in one or the other.       *)
LEMMA CondMoved ==
    ASSUME TypeOK, CondInv,
           \A t \in Thread \ {curr} : pc'[t] = pc[t] /\ target'[t] = target[t] /\ rest'[t] = rest[t],
           \A t \in Thread : state'[t] = "stopped" => state[t] = "stopped" /\ frame'[t] = frame[t],
           \A t \in Thread : pc'[t] = "wait_stop" => t \in Elements(waiters'),
           \A t \in Thread : state'[t] = "stopped" =>
               (t \in Elements(waiters) \/ target[curr] = t \/ t \in Elements(rest[curr]) =>
                t \in Elements(waiters') \/ target'[curr] = t \/ t \in Elements(rest'[curr])),
           target'[curr] # Nil =>
               pc'[curr] \in {"unlock_shift", "unlock_wakeup", "unlock_open", "unlock_run",
                              "wait_push", "signal_run"},
           pc'[curr] \in {"unlock_shift", "wait_push"} /\ target'[curr] # Nil =>
               state'[target'[curr]] # "stopped",
           rest'[curr] # << >> => pc'[curr] \in {"broadcast_open", "broadcast_run"}
    PROVE  CondInv'
<1>0. curr \in Thread /\ \A t \in Thread : target[t] # Nil => target[t] \in Thread
  BY DEF TypeOK
<1>1. LocalInv'
  <2>1. ASSUME NEW t \in Thread, t # curr
        PROVE  /\ target'[t] # Nil => pc'[t] \in {"unlock_shift", "unlock_wakeup", "unlock_open",
                                                  "unlock_run", "wait_push", "signal_run"}
               /\ pc'[t] \in {"unlock_shift", "wait_push"} /\ target'[t] # Nil =>
                    state'[target'[t]] # "stopped"
               /\ rest'[t] # << >> => pc'[t] \in {"broadcast_open", "broadcast_run"}
    BY <1>0, <2>1 DEF CondInv, LocalInv
  <2> QED BY <2>1 DEF LocalInv
<1>2. ASSUME NEW t \in Thread, Sleeps(t, "wait")'
      PROVE  t \in Elements(waiters') \/ InHand(t)'
  <2>1. state'[t] = "stopped" /\ Sleeps(t, "wait")
    BY <1>2 DEF Sleeps
  <2>2. CASE t \in Elements(waiters)
    BY <1>0, <2>1, <2>2 DEF InHand
  <2>3. ASSUME NEW u \in Thread, target[u] = t \/ t \in Elements(rest[u])
        PROVE  t \in Elements(waiters') \/ InHand(t)'
    <3>1. CASE u = curr
      BY <1>0, <2>1, <2>3, <3>1 DEF InHand
    <3>2. CASE u # curr
      BY <2>3, <3>2 DEF InHand
    <3> QED BY <3>1, <3>2
  <2> QED BY <2>1, <2>2, <2>3 DEF CondInv, InHand
<1> QED BY <1>1, <1>2 DEF CondInv

(* Those of them that have nothing in hand, and take nothing.              *)
LEMMA CondQuiet ==
    ASSUME TypeOK, CondInv, UNCHANGED <<waiters, target, rest>>,
           state[curr] = "awake", pc'[curr] # "wait_stop",
           pc[curr] \notin {"unlock_shift", "unlock_wakeup", "unlock_open", "unlock_run",
                            "wait_push", "signal_run", "broadcast_open", "broadcast_run"},
           \A t \in Thread \ {curr} : pc'[t] = pc[t] /\ frame'[t] = frame[t],
           \A t \in Thread : state'[t] = "stopped" => state[t] = "stopped"
    PROVE  CondInv'
<1>1. curr \in Thread /\ target[curr] = Nil /\ rest[curr] = << >>
  BY DEF TypeOK, CondInv, LocalInv
<1>2. \A t \in Thread : state'[t] = "stopped" => frame'[t] = frame[t]
  OBVIOUS
<1>3. \A t \in Thread : pc'[t] = "wait_stop" => t \in Elements(waiters')
  BY DEF CondInv
<1> QED BY <1>1, <1>2, <1>3, CondMoved

LEMMA CondStep ==
    ASSUME Uninterrupted, Inv, CondInv, [Next]_vars
    PROVE  CondInv'
<1> TypeOK /\ CritInv /\ FrameInv
  BY DEF Inv
<1>0. /\ curr \in Thread /\ waiters \in Seq(Thread) /\ rest[curr] \in Seq(Thread)
      /\ target[curr] \in Thread \cup {Nil} /\ Nil \notin Thread
      /\ target[curr] # Nil => target[curr] \in Thread
  BY MutexAssumption DEF TypeOK
<1>e. Elements(<< >>) = {}
  BY EmptyArray
<1>1. CASE Synchronize \/ TryLock \/ Leave \/ Wait \/ Signal \/ Broadcast \/ Begin
  BY <1>1, CondQuiet DEF Synchronize, MayLock, TryLock, Leave, Wait, Signal, MaySignal, Broadcast, Begin, Call, At,
     Goto, TypeOK, greenVars, sync
<1>2. CASE LockCritical \/ TryCritical \/ TryOpen \/ UnlockCritical \/ WaitCritical
           \/ BroadcastCritical
  BY <1>2, CondQuiet DEF LockCritical, TryCritical, TryOpen, UnlockCritical, WaitCritical,
     BroadcastCritical, Set, Critical, At, Goto, TypeOK, sync
<1>3. CASE LockTest \/ LockTake \/ LockOpen \/ TryTest \/ UnlockTest \/ UnlockFree
  BY <1>3, CondQuiet DEF LockTest, LockTake, LockOpen, TryTest, UnlockTest, UnlockReturn,
     UnlockFree, Critical, At, Goto, TypeOK, greenVars, sync
<1>4. CASE WaitTest \/ WaitOld \/ WaitOpen \/ BroadcastOld
  BY <1>4, CondQuiet DEF WaitTest, WaitOld, WaitOpen, BroadcastOld, SaveCritical, Critical, At,
     Goto, TypeOK, greenVars, sync
<1>5. CASE UnlockShift
  <2>1. /\ UNCHANGED <<state, frame, waiters, rest>> /\ pc[curr] = "unlock_shift"
        /\ pc' = [pc EXCEPT ![curr] = "unlock_wakeup"]
        /\ \A t \in Thread \ {curr} : target'[t] = target[t]
    BY <1>5 DEF UnlockShift, At, Goto, greenVars, TypeOK
  <2>2. /\ target[curr] # Nil => state[target[curr]] # "stopped"
        /\ rest[curr] = << >>
        /\ \A t \in Thread : pc[t] = "wait_stop" => t \in Elements(waiters)
    BY <1>0, <2>1 DEF CondInv, LocalInv
  <2>3. pc'[curr] = "unlock_wakeup" /\ \A t \in Thread \ {curr} : pc'[t] = pc[t]
    BY <1>0, <2>1 DEF TypeOK
  <2>4. \A t \in Thread : pc'[t] = "wait_stop" => t \in Elements(waiters')
    BY <2>1, <2>2, <2>3
  <2>5. \A t \in Thread : state'[t] = "stopped" => target[curr] # t
    BY <1>0, <2>1, <2>2
  <2> QED BY <2>1, <2>2, <2>3, <2>4, <2>5, CondMoved
<1>6. CASE UnlockWakeup
  <2>1. /\ UNCHANGED <<frame, waiters, target, rest>> /\ pc[curr] = "unlock_wakeup"
        /\ pc'[curr] \in {"unlock_shift", "wait_push", "unlock_open"}
        /\ \A t \in Thread \ {curr} : pc'[t] = pc[t]
    BY <1>6 DEF UnlockWakeup, At, Goto, TypeOK, sync
  <2>2. /\ \A t \in Thread : state'[t] = "stopped" => state[t] = "stopped"
        /\ target[curr] # Nil => state'[target[curr]] # "stopped"
    BY <1>0, <1>6 DEF UnlockWakeup, Rouse, TypeOK, greenVars
  <2>3. /\ rest[curr] = << >>
        /\ \A t \in Thread : pc[t] = "wait_stop" => t \in Elements(waiters)
    BY <1>0, <2>1 DEF CondInv, LocalInv
  <2>4. \A t \in Thread : pc'[t] = "wait_stop" => t \in Elements(waiters')
    BY <2>1, <2>3
  <2> QED BY <2>1, <2>2, <2>3, <2>4, CondMoved
<1>7. CASE UnlockOpen \/ BroadcastOpen
  <2>1. /\ UNCHANGED <<state, frame, waiters, target, rest>>
        /\ \/ pc[curr] = "unlock_open" /\ pc'[curr] = "unlock_run"
           \/ pc[curr] = "broadcast_open" /\ pc'[curr] = "broadcast_run"
        /\ \A t \in Thread \ {curr} : pc'[t] = pc[t]
    BY <1>7 DEF UnlockOpen, BroadcastOpen, Set, Critical, At, Goto, TypeOK, sync
  <2>2. /\ pc[curr] = "unlock_open" => rest[curr] = << >>
        /\ pc[curr] = "broadcast_open" => target[curr] = Nil
        /\ \A t \in Thread : pc[t] = "wait_stop" => t \in Elements(waiters)
    BY <1>0 DEF CondInv, LocalInv
  <2>3. \A t \in Thread : pc'[t] = "wait_stop" => t \in Elements(waiters')
    BY <2>1, <2>2
  <2> QED BY <2>1, <2>2, <2>3, CondMoved
<1>8. CASE UnlockRun \/ SignalRun
  <2>1. /\ UNCHANGED <<waiters, rest>> /\ pc[curr] \in {"unlock_run", "signal_run"}
        /\ pc'[curr] \in {"run", "signal_shift"} /\ target'[curr] = Nil
        /\ state[curr] = "awake"
        /\ \A t \in Thread \ {curr} :
               pc'[t] = pc[t] /\ target'[t] = target[t] /\ frame'[t] = frame[t]
    BY <1>8 DEF UnlockRun, SignalRun, UnlockReturn, At, Goto, TypeOK, sync
  <2>2. /\ \A t \in Thread : state'[t] = "stopped" => state[t] = "stopped"
        /\ target[curr] # Nil => state'[target[curr]] # "stopped"
    BY <1>0, <1>8 DEF UnlockRun, SignalRun, Rouse, TypeOK, greenVars
  <2>3. /\ rest[curr] = << >>
        /\ \A t \in Thread : pc[t] = "wait_stop" => t \in Elements(waiters)
    BY <1>0, <2>1 DEF CondInv, LocalInv
  <2>4. \A t \in Thread : pc'[t] = "wait_stop" => t \in Elements(waiters')
    BY <2>1, <2>3
  <2>5. \A t \in Thread : state'[t] = "stopped" =>
            state[t] = "stopped" /\ frame'[t] = frame[t] /\ target[curr] # t
    BY <1>0, <2>1, <2>2
  <2> QED BY <2>1, <2>3, <2>4, <2>5, CondMoved
<1>9. CASE WaitPush
  <2>1. /\ UNCHANGED <<state, frame, rest>> /\ pc[curr] = "wait_push"
        /\ pc'[curr] = "wait_stop" /\ target'[curr] = Nil
        /\ waiters' = Append(waiters, curr)
        /\ \A t \in Thread \ {curr} : pc'[t] = pc[t] /\ target'[t] = target[t]
    BY <1>9 DEF WaitPush, At, Goto, TypeOK, greenVars
  <2>2. /\ target[curr] # Nil => state[target[curr]] # "stopped"
        /\ rest[curr] = << >>
        /\ \A t \in Thread : pc[t] = "wait_stop" => t \in Elements(waiters)
    BY <1>0, <2>1 DEF CondInv, LocalInv
  <2>3. Elements(waiters') = Elements(waiters) \cup {curr}
    BY <1>0, <2>1, AppendArray
  <2>4. \A t \in Thread : pc'[t] = "wait_stop" => t \in Elements(waiters')
    BY <2>1, <2>2, <2>3
  <2>5. \A t \in Thread : state'[t] = "stopped" => target[curr] # t
    BY <1>0, <2>1, <2>2
  <2> QED BY <2>1, <2>2, <2>3, <2>4, <2>5, CondMoved
<1>10. CASE SignalShift
  <2>1. /\ UNCHANGED <<state, frame, rest>> /\ pc[curr] = "signal_shift"
        /\ pc'[curr] = "signal_run" /\ target'[curr] = First(waiters)
        /\ waiters' = Shifted(waiters)
        /\ \A t \in Thread \ {curr} : pc'[t] = pc[t] /\ target'[t] = target[t]
    BY <1>10 DEF SignalShift, At, Goto, TypeOK, greenVars
  <2>2. target[curr] = Nil /\ rest[curr] = << >>
    BY <1>0, <2>1 DEF CondInv, LocalInv
  <2>3. \A t \in Thread : pc'[t] # "wait_stop"
    BY <1>0, <2>1 DEF CritInv, CritPcs
  <2>4. \A t \in Thread : t \in Elements(waiters) => t \in Elements(waiters') \/ t = First(waiters)
    BY <1>0, <2>1, ShiftArray
  <2> QED BY <1>0, <1>e, <2>1, <2>2, <2>3, <2>4, CondMoved
<1>11. CASE BroadcastTake
  <2>1. /\ UNCHANGED <<state, frame, target>> /\ pc[curr] = "broadcast_take"
        /\ pc'[curr] = "broadcast_open" /\ rest'[curr] = waiters
        /\ waiters' = << >>
        /\ \A t \in Thread \ {curr} : pc'[t] = pc[t] /\ rest'[t] = rest[t]
    BY <1>11 DEF BroadcastTake, At, Goto, TypeOK, greenVars
  <2>2. target[curr] = Nil /\ rest[curr] = << >>
    BY <1>0, <2>1 DEF CondInv, LocalInv
  <2>3. \A t \in Thread : pc'[t] # "wait_stop"
    BY <1>0, <2>1 DEF CritInv, CritPcs
  <2> QED BY <1>0, <1>e, <2>1, <2>2, <2>3, CondMoved
<1>12. CASE BroadcastRun
  <2>1. /\ UNCHANGED <<frame, waiters, target>> /\ pc[curr] = "broadcast_run"
        /\ rest[curr] # << >> => pc'[curr] = "broadcast_run" /\ rest'[curr] = Tail(rest[curr])
        /\ rest[curr] = << >> => pc'[curr] = "run" /\ rest'[curr] = << >>
        /\ \A t \in Thread \ {curr} : pc'[t] = pc[t] /\ rest'[t] = rest[t]
    BY <1>0, <1>12 DEF BroadcastRun, At, Goto, TypeOK, sync
  <2>2. /\ \A t \in Thread : state'[t] = "stopped" => state[t] = "stopped"
        /\ rest[curr] # << >> => state'[Head(rest[curr])] # "stopped"
    <3>1. CASE rest[curr] = << >>
      BY <1>12, <3>1 DEF BroadcastRun, greenVars
    <3>2. CASE rest[curr] # << >>
      <4>1. Head(rest[curr]) \in Thread
        BY <1>0, <3>2, TailArray
      <4> QED BY <1>12, <3>2, <4>1 DEF BroadcastRun, Rouse, TypeOK
    <3> QED BY <3>1, <3>2
  <2>3. /\ target[curr] = Nil
        /\ \A t \in Thread : pc[t] = "wait_stop" => t \in Elements(waiters)
    BY <1>0, <2>1 DEF CondInv, LocalInv
  <2>4. \A t \in Thread : pc'[t] = "wait_stop" => t \in Elements(waiters')
    BY <2>1, <2>3
  <2>5. \A t \in Thread : state'[t] = "stopped" /\ t \in Elements(rest[curr]) =>
            t \in Elements(rest'[curr])
    <3>1. CASE rest[curr] = << >>
      BY <1>e, <3>1
    <3>2. CASE rest[curr] # << >>
      <4>1. Elements(rest[curr]) = Elements(rest'[curr]) \cup {Head(rest[curr])}
        BY <1>0, <2>1, <3>2, TailArray
      <4> QED BY <2>2, <3>2, <4>1
    <3> QED BY <3>1, <3>2
  <2> QED BY <2>1, <2>2, <2>3, <2>4, <2>5, CondMoved
<1>13. CASE WaitStop \/ LockStop
  <2>1. /\ pc[curr] \in {"wait_stop", "lock_stop"} /\ waiters' = waiters
        /\ \A t \in Thread \ {curr} :
               /\ pc'[t] = pc[t] /\ target'[t] = target[t] /\ rest'[t] = rest[t]
               /\ state'[t] = state[t] /\ frame'[t] = frame[t]
    BY <1>13 DEF WaitStop, LockStop, StopAt, Unwind, Goto, At, TypeOK, sync
  <2>2. target[curr] = Nil /\ rest[curr] = << >>
    BY <1>0, <2>1 DEF CondInv, LocalInv
  <2>3. \A t \in Thread \ {curr} : pc[t] \notin {"wait_stop", "unlock_shift", "wait_push"}
    BY DEF CritInv, CritPcs
  <2>4. /\ target'[curr] = Nil /\ rest'[curr] = << >> /\ pc'[curr] # "wait_stop"
        /\ state'[curr] = "stopped" => frame'[curr] = frame[curr]
    BY <1>0, <1>13, <2>2 DEF WaitStop, LockStop, StopAt, Unwind, UnwindPc, Goto, At, TypeOK
  <2>5. LocalInv'
    BY <2>1, <2>3, <2>4 DEF CondInv, LocalInv
  <2>6. \A t \in Thread : Sleeps(t, "wait") => t \in Elements(waiters) \/ InHand(t)
    BY DEF CondInv
  <2>7. \A t \in Thread : InHand(t) => InHand(t)'
    BY <1>0, <1>e, <2>1, <2>2 DEF InHand
  <2>8. frame[curr] = "wait" => curr \in Elements(waiters)
    BY <1>0, <2>1 DEF FrameInv, LockPcs, CondInv
  <2>9. ASSUME NEW t \in Thread, Sleeps(t, "wait")'
        PROVE  t \in Elements(waiters') \/ InHand(t)'
    BY <2>1, <2>4, <2>6, <2>7, <2>8, <2>9 DEF Sleeps
  <2> QED BY <2>1, <2>3, <2>4, <2>5, <2>9 DEF CondInv
<1>14. ASSUME NEW t \in Thread, Kill(t) \/ Raise(t) PROVE CondInv'
  BY <1>14 DEF Kill, Raise, MayInterrupt, Uninterrupted
<1>15. ASSUME NEW t \in Thread, Schedule(t) PROVE CondInv'
  <2>1. /\ UNCHANGED <<waiters, pc, frame, target, rest>>
        /\ \A u \in Thread : state'[u] = "stopped" => state[u] = "stopped"
    BY <1>15 DEF Schedule, Switch, Awaken, mutexVars, sync, local
  <2> QED BY <2>1, CondKept
<1>16. CASE EndThread
  BY <1>16, CondKept DEF EndThread, Die, Awaken, At, TypeOK, mutexVars, local, sync
<1>17. CASE Deadlock \/ UNCHANGED vars
  BY <1>17, CondKept DEF Deadlock, vars, greenVars, mutexVars, local, sync
<1> QED
  BY <1>1, <1>2, <1>3, <1>4, <1>5, <1>6, <1>7, <1>8, <1>9, <1>10, <1>11, <1>12, <1>13, <1>14,
     <1>15, <1>16, <1>17 DEF Next, Statement

(* Nobody sleeps in ConditionVariable#wait forgotten: a thread that sleeps *)
(* there is in @waiters, or signal or broadcast of a thread that is awake  *)
(* has it in hand, wherever the threads that call them are preempted.  It  *)
(* is false as soon as an exception can meet the caller of signal between  *)
(* its shift and its run.                                                  *)
THEOREM CondsListed ==
    ASSUME Uninterrupted
    PROVE  Spec => []CondListed
<1>1. Init => CondInv
  BY EmptyArray, MutexAssumption DEF Init, CondInv, LocalInv, Sleeps
<1>2. Inv /\ CondInv /\ [Next]_vars => CondInv'
  BY CondStep
<1>3. Inv /\ SleepInv /\ CondInv => CondListed
  <2> SUFFICES ASSUME Inv, SleepInv, CondInv, NEW t \in Thread, Sleeps(t, "wait"),
                      t \notin Elements(waiters)
               PROVE  \E u \in Thread : state[u] = "awake" /\ (target[u] = t \/ t \in Elements(rest[u]))
    BY DEF CondListed
  <2>1. PICK u \in Thread : target[u] = t \/ t \in Elements(rest[u])
    BY DEF CondInv, InHand
  <2>2. pc[u] \notin {"run", "lock_critical", "wait_open"}
    BY <2>1, EmptyArray, MutexAssumption DEF CondInv, LocalInv
  <2>3. state[u] = "awake"
    BY <2>2 DEF Inv, TypeOK, FrameInv, SleepInv
  <2> QED BY <2>1, <2>3
<1> QED BY <1>1, <1>2, <1>3, InvHolds, SleepHolds, PTL DEF Spec

-----------------------------------------------------------------------------
(* A lock that is locked has an owner.                                     *)

(* Steps that take no lock, and leave it to who has it.                    *)
LEMMA PhantomKept ==
    ASSUME NoPhantomLock, locked' => locked, \A t \in Thread : Holds(t) => Holds(t)'
    PROVE  NoPhantomLock'
BY DEF NoPhantomLock

(* Steps of a thread that does not have the lock and does not take it.     *)
LEMMA PhantomOthers ==
    ASSUME TypeOK, NoPhantomLock, locked' => locked, ~Holds(curr),
           \A t \in Thread \ {curr} : frame'[t] = frame[t] /\ pc'[t] = pc[t],
           \A t \in Thread \ {curr} : state[t] # "dead" => state'[t] # "dead"
    PROVE  NoPhantomLock'
<1>1. \A t \in Thread : Holds(t) => Holds(t)'
  BY DEF Holds
<1> QED BY <1>1, PhantomKept

LEMMA PhantomStep ==
    ASSUME Uninterrupted, Inv, NoPhantomLock, [Next]_vars
    PROVE  NoPhantomLock'
<1> TypeOK /\ FrameInv
  BY DEF Inv
<1>0. curr \in Thread
  BY DEF TypeOK
<1>1. CASE Synchronize \/ TryLock
  BY <1>1, PhantomOthers DEF Synchronize, MayLock, TryLock, Call, At, Goto, TypeOK, Holds, greenVars, sync
<1>2. CASE Leave \/ Wait \/ Begin
  <2>1. \A t \in Thread : Holds(t) => Holds(t)'
    BY <1>2 DEF Leave, Wait, Begin, Call, At, Goto, TypeOK, Holds, greenVars
  <2> QED BY <1>2, <2>1, PhantomKept DEF Leave, Wait, Begin, Call, sync
<1>3. CASE Signal \/ Broadcast
  <2>1. \A t \in Thread : Holds(t) => Holds(t)'
    BY <1>3 DEF Signal, MaySignal, Broadcast, Call, At, Goto, TypeOK, Holds, greenVars
  <2> QED BY <1>3, <2>1, PhantomKept DEF Signal, MaySignal, Broadcast, Call, sync
<1>4. CASE LockCritical \/ LockTest \/ TryCritical \/ UnlockOpen
  BY <1>4, PhantomOthers DEF LockCritical, LockTest, TryCritical, UnlockOpen, Set, Critical, At,
     Goto, TypeOK, FrameInv, LockPcs, Holds, greenVars, sync
<1>5. CASE TryOpen \/ UnlockCritical \/ WaitCritical \/ BroadcastCritical \/ BroadcastOpen
  <2>1. \A t \in Thread : Holds(t) => Holds(t)'
    BY <1>5 DEF TryOpen, UnlockCritical, WaitCritical, BroadcastCritical, BroadcastOpen, Set,
       Critical, At, Goto, TypeOK, FrameInv, BroadcastPcs, Holds
  <2>2. locked' = locked
    BY <1>5 DEF TryOpen, UnlockCritical, WaitCritical, BroadcastCritical, BroadcastOpen, Set, sync
  <2> QED BY <2>1, <2>2, PhantomKept
<1>6. CASE LockStop \/ WaitStop
  <2>1. locked' = locked /\ ~Holds(curr)
    BY <1>0, <1>6 DEF LockStop, WaitStop, StopAt, At, FrameInv, LockPcs, Holds, sync
  <2>2. CASE OnlyThread
    <3>1. \A t \in Thread : ~Holds(t)
      BY <2>1, <2>2 DEF OnlyThread, TypeOK, Holds
    <3> QED BY <2>1, <3>1 DEF NoPhantomLock
  <2>3. CASE ~OnlyThread
    <3>1. /\ \A t \in Thread \ {curr} : frame'[t] = frame[t] /\ pc'[t] = pc[t]
          /\ \A t \in Thread \ {curr} : state'[t] = state[t]
      BY <1>6, <2>3 DEF LockStop, WaitStop, StopAt, Goto, TypeOK
    <3> QED BY <2>1, <3>1, PhantomOthers
  <2> QED BY <2>2, <2>3
<1>7. CASE LockTake
  <2>1. Holds(curr)'
    BY <1>0, <1>7 DEF LockTake, At, Goto, TypeOK, FrameInv, LockPcs, Holds, greenVars
  <2>2. curr' = curr
    BY <1>7 DEF LockTake, greenVars
  <2> QED BY <1>0, <2>1, <2>2 DEF NoPhantomLock
<1>8. CASE LockOpen
  <2>1. \A t \in Thread : Holds(t) => Holds(t)'
    BY <1>8 DEF LockOpen, Critical, At, Goto, TypeOK, FrameInv, LockPcs, Holds
  <2> QED BY <1>8, <2>1, PhantomKept DEF LockOpen, sync
<1>9. CASE TryTest
  <2>1. CASE locked
    BY <1>9, <2>1, PhantomOthers DEF TryTest, At, Goto, TypeOK, FrameInv, Holds, greenVars
  <2>2. CASE ~locked
    <3>1. Holds(curr)' /\ curr' = curr
      BY <1>0, <1>9, <2>2 DEF TryTest, At, Goto, TypeOK, Holds, greenVars
    <3> QED BY <1>0, <3>1 DEF NoPhantomLock
  <2> QED BY <2>1, <2>2
<1>10. CASE UnlockTest \/ WaitTest
  <2>1. CASE locked
    <3>1. \A t \in Thread : Holds(t) => Holds(t)'
      BY <1>10, <2>1 DEF UnlockTest, WaitTest, At, Goto, TypeOK, FrameInv, Holds, greenVars
    <3> QED BY <1>10, <3>1, PhantomKept DEF UnlockTest, WaitTest, sync
  <2>2. CASE ~locked
    BY <1>10, <2>2 DEF UnlockTest, WaitTest, sync, NoPhantomLock
  <2> QED BY <2>1, <2>2
<1>11. CASE UnlockFree
  BY <1>11 DEF UnlockFree, NoPhantomLock
<1>12. CASE UnlockShift \/ WaitPush
  BY <1>12, PhantomOthers DEF UnlockShift, WaitPush, At, Goto, TypeOK, FrameInv, Holds, greenVars
<1>13. CASE UnlockWakeup
  BY <1>13, PhantomOthers DEF UnlockWakeup, Rouse, At, Goto, TypeOK, FrameInv, Holds, greenVars, sync
<1>14. CASE UnlockRun
  BY <1>14, PhantomOthers DEF UnlockRun, UnlockReturn, Rouse, At, Goto, TypeOK, FrameInv, Holds,
     greenVars, sync
<1>15. CASE WaitOld \/ BroadcastOld
  <2>1. \A t \in Thread : Holds(t) => Holds(t)'
    BY <1>15 DEF WaitOld, BroadcastOld, SaveCritical, At, Goto, TypeOK, FrameInv, BroadcastPcs,
       Holds, greenVars
  <2> QED BY <1>15, <2>1, PhantomKept DEF WaitOld, BroadcastOld, SaveCritical, sync
<1>16. CASE WaitOpen
  BY <1>16, PhantomOthers DEF WaitOpen, Critical, At, Goto, TypeOK, FrameInv, Holds, sync
<1>17. CASE SignalShift \/ BroadcastTake
  <2>1. \A t \in Thread : Holds(t) => Holds(t)'
    BY <1>17 DEF SignalShift, BroadcastTake, At, Goto, TypeOK, FrameInv, SignalPcs, BroadcastPcs,
       Holds, greenVars
  <2> QED BY <1>17, <2>1, PhantomKept DEF SignalShift, BroadcastTake
<1>18. CASE SignalRun \/ BroadcastRun
  <2>1. \A t \in Thread : state[t] # "dead" => state'[t] # "dead"
    BY <1>18 DEF SignalRun, BroadcastRun, Rouse, TypeOK, greenVars
  <2>2. /\ UNCHANGED <<frame, locked>> /\ pc[curr] \in {"signal_run", "broadcast_run"}
        /\ \A t \in Thread \ {curr} : pc'[t] = pc[t]
    BY <1>18 DEF SignalRun, BroadcastRun, At, Goto, TypeOK, sync
  <2>3. \A t \in Thread : Holds(t) => Holds(t)'
    BY <2>1, <2>2 DEF FrameInv, SignalPcs, BroadcastPcs, Holds
  <2> QED BY <2>2, <2>3, PhantomKept
<1>19. ASSUME NEW t \in Thread, Kill(t) \/ Raise(t) PROVE NoPhantomLock'
  BY <1>19 DEF Kill, Raise, MayInterrupt, Uninterrupted
<1>20. ASSUME NEW t \in Thread, Schedule(t) PROVE NoPhantomLock'
  <2>1. \A u \in Thread : Holds(u) => Holds(u)'
    BY <1>20 DEF Schedule, Switch, Awaken, TypeOK, Holds, mutexVars, local
  <2> QED BY <1>20, <2>1, PhantomKept DEF Schedule, mutexVars, sync
<1>21. CASE EndThread
  BY <1>21, PhantomOthers DEF EndThread, Die, Awaken, At, TypeOK, Holds, mutexVars, local, sync
<1>22. CASE Deadlock \/ UNCHANGED vars
  BY <1>22, PhantomKept DEF Deadlock, vars, greenVars, mutexVars, local, sync, Holds
<1> QED
  BY <1>1, <1>2, <1>3, <1>4, <1>5, <1>6, <1>7, <1>8, <1>9, <1>10, <1>11, <1>12, <1>13, <1>14,
     <1>15, <1>16, <1>17, <1>18, <1>19, <1>20, <1>21, <1>22 DEF Next, Statement

(* @locked is never left set by nobody: whoever finds it set waits for a   *)
(* living thread that is on its way to an unlock.  It is false as soon as  *)
(* an exception can meet a thread between its lock and the begin of        *)
(* synchronize.                                                            *)
THEOREM LockOwned ==
    ASSUME Uninterrupted
    PROVE  Spec => []NoPhantomLock
<1>1. Init => NoPhantomLock
  BY DEF Init, NoPhantomLock
<1>2. Inv /\ NoPhantomLock /\ [Next]_vars => NoPhantomLock'
  BY PhantomStep
<1> QED BY <1>1, <1>2, InvHolds, PTL DEF Spec
=============================================================================
