-------------------------- MODULE ThreadQueueProofs --------------------------
(***************************************************************************)
(* What holds of Queue and SizedQueue for any number of threads.           *)
(*                                                                         *)
(* Section says that Thread.critical works as the lock of the queue: only  *)
(* the running thread is between a "critical = true" and the statement     *)
(* that ends the section.  So what it has seen there (Seen) is still true  *)
(* when it acts on it.                                                     *)
(***************************************************************************)
EXTENDS ThreadQueue, ArrayProofs

(* The statements executed with Thread.critical set; the inherited push of *)
(* a SizedQueue begins inside the section.                                 *)
CritPcs == {"push_test", "push_wait", "push_add", "push_shift", "push_wakeup", "push_open",
            "try_test", "pop_test", "pop_stop", "pop_take", "sized_test", "sized_shift",
            "sized_wakeup", "sized_open", "max_set", "max_open"}
Inside(t) == pc[t] \in CritPcs \/ (sized /\ pc[t] = "push_critical")
Section == \A t \in Thread : Inside(t) => t = curr /\ state[t] = "awake" /\ critical

(* What the running thread has found out.                                  *)
Seen ==
    /\ sized /\ pc[curr] \in {"push_critical", "push_add"} => que < max
    /\ pc[curr] = "pop_take" => que > 0
    /\ pc[curr] = "pop_stop" => curr \in Elements(waiting)
    /\ pc[curr] = "push_wait" => curr \in Elements(queue_wait)

Counting == \A t \in Thread : pc[t] = "max_run" => diff[t] > 0

(* A Queue executes no statement of SizedQueue, and leaves the section     *)
(* only through the end of push or pop.                                    *)
SizedPcs == {"push_full", "push_test", "push_wait", "push_again"} \cup SizedPopPcs \cup MaxPcs
Plain ==
    /\ ~sized => \A t \in Thread : pc[t] \notin SizedPcs
    /\ ~sized /\ critical => state[curr] = "awake" /\ pc[curr] \in CritPcs \cup {"pop_ensure"}

QueueInv == TypeOK /\ Section /\ Seen /\ Counting /\ Plain

-----------------------------------------------------------------------------
(* Types.                                                                  *)

LEMMA ListTypes ==
    ASSUME TypeOK, NEW q \in Seq(Thread)
    PROVE  /\ Append(q, curr) \in Seq(Thread) /\ Shifted(q) \in Seq(Thread)
           /\ First(q) \in Thread \cup {Nil}
BY DEF TypeOK, Shifted, First

LEMMA RouseType ==
    ASSUME TypeOK, NEW t, Rouse(t)
    PROVE  /\ state' \in [Thread -> {"awake", "stopped", "dead"}]
           /\ UNCHANGED <<curr, critical, over>>
BY DEF TypeOK, Rouse

LEMMA UnwindType ==
    ASSUME TypeOK, NEW t \in Thread, NEW tag \in {"raise", "kill"}, Unwind(t, tag)
    PROVE  /\ pc' \in [Thread -> Pcs] /\ target' \in [Thread -> Thread \cup {Nil}]
           /\ diff' \in [Thread -> Nat] /\ pending' \in [Thread -> {"none", "raise", "kill"}]
<1>1. pc' \in [Thread -> Pcs]
  BY DEF TypeOK, Unwind, Pcs, PopPcs
<1>2. target' \in [Thread -> Thread \cup {Nil}] /\ diff' \in [Thread -> Nat]
  BY DEF TypeOK, Unwind
<1>3. pending' \in [Thread -> {"none", "raise", "kill"}]
  BY DEF TypeOK, Unwind
<1> QED BY <1>1, <1>2, <1>3

LEMMA GotoType ==
    ASSUME TypeOK, NEW l \in Pcs, Goto(l)
    PROVE  pc' \in [Thread -> Pcs]
BY DEF TypeOK, Goto

LEMMA SetType ==
    ASSUME TypeOK, NEW l, NEW b \in BOOLEAN, NEW m \in Pcs, Set(l, b, m)
    PROVE  TypeOK'
<1>1. pc' \in [Thread -> Pcs]
  BY GotoType DEF Set
<1> QED BY <1>1 DEF TypeOK, Set, queue

LEMMA CallType ==
    ASSUME TypeOK, NEW l \in Pcs, Call(l)
    PROVE  TypeOK'
<1>1. pc' \in [Thread -> Pcs]
  BY GotoType DEF Call
<1> QED BY <1>1 DEF TypeOK, Call, queue, greenVars

LEMMA StopType ==
    ASSUME TypeOK, NEW l, NEW m \in Pcs, StopAt(l, m)
    PROVE  TypeOK'
<1>0. curr \in Thread
  BY DEF TypeOK
<1>1. CASE OnlyThread
  BY <1>0, <1>1, UnwindType DEF TypeOK, StopAt, queue
<1>2. CASE ~OnlyThread
  BY <1>0, <1>2, GotoType DEF TypeOK, StopAt, queue
<1> QED BY <1>1, <1>2

LEMMA RouseAtType ==
    ASSUME TypeOK, NEW l, NEW d \in Pcs, NEW m \in Pcs, RouseAt(l, d, m),
           target' \in [Thread -> Thread \cup {Nil}]
    PROVE  TypeOK'
<1>1. CASE target[curr] = Nil /\ Goto(m) /\ UNCHANGED greenVars
  BY <1>1, GotoType DEF TypeOK, RouseAt, queue, greenVars
<1>2. CASE Goto(IF state[target[curr]] = "dead" THEN d ELSE m) /\ Rouse(target[curr])
  <2>1. pc' \in [Thread -> Pcs]
    BY <1>2, GotoType
  <2>2. /\ state' \in [Thread -> {"awake", "stopped", "dead"}]
        /\ UNCHANGED <<curr, critical, over>>
    BY <1>2, RouseType
  <2> QED BY <2>1, <2>2 DEF TypeOK, RouseAt, queue
<1> QED BY <1>1, <1>2 DEF RouseAt

LEMMA ShiftWaitType ==
    ASSUME TypeOK, NEW l, NEW m \in Pcs, ShiftWait(l, m), UNCHANGED diff
    PROVE  TypeOK'
<1>1. Shifted(queue_wait) \in Seq(Thread) /\ First(queue_wait) \in Thread \cup {Nil}
  BY ListTypes DEF TypeOK
<1>2. pc' \in [Thread -> Pcs]
  BY GotoType DEF ShiftWait
<1> QED BY <1>1, <1>2 DEF TypeOK, ShiftWait, greenVars

LEMMA TypeStep ==
    ASSUME QueueInv, Next
    PROVE  TypeOK'
<1> TypeOK /\ curr \in Thread /\ Max \subseteq Nat \ {0}
  BY QueueAssumption DEF QueueInv, TypeOK
<1>p. "run" \in Pcs /\ PushPcs \subseteq Pcs /\ PopPcs \subseteq Pcs /\ SizedPopPcs \subseteq Pcs /\ MaxPcs \subseteq Pcs
  BY DEF Pcs
<1>1. CASE Push \/ Pop \/ TryPop \/ MaxSet
  BY <1>1, <1>p, CallType DEF Push, Pop, TryPop, MaxSet, PushPcs, PopPcs, MaxPcs
<1>2. CASE Clear
  BY <1>2 DEF Clear, TypeOK, greenVars, local
<1>3. CASE PushFull \/ PushAgain \/ PushCritical \/ PushOpen
  BY <1>3, <1>p, SetType DEF PushFull, PushAgain, PushCritical, PushOpen, PushPcs
<1>4. CASE PopCritical \/ TryCritical \/ SizedCritical \/ SizedOpen \/ MaxCritical \/ MaxOpen
  BY <1>4, <1>p, SetType DEF PopCritical, TryCritical, SizedCritical, SizedOpen, MaxCritical, MaxOpen,
     PopPcs, SizedPopPcs, MaxPcs
<1>5. CASE PushTest
  <2>1. Append(queue_wait, curr) \in Seq(Thread)
    BY ListTypes DEF TypeOK
  <2>2. pc' \in [Thread -> Pcs]
    BY <1>5, <1>p, GotoType DEF PushTest, PushPcs
  <2> QED BY <1>5, <2>1, <2>2 DEF PushTest, TypeOK, greenVars
<1>6. CASE PushWait \/ PopStop
  BY <1>6, <1>p, StopType DEF PushWait, PopStop, PushPcs, PopPcs
<1>7. CASE PushAdd
  <2>1. pc' \in [Thread -> Pcs]
    BY <1>7, <1>p, GotoType DEF PushAdd, PushPcs
  <2> QED BY <1>7, <2>1 DEF PushAdd, TypeOK, greenVars
<1>8. CASE PushShift
  <2>1. Shifted(waiting) \in Seq(Thread) /\ First(waiting) \in Thread \cup {Nil}
    BY ListTypes DEF TypeOK
  <2>2. pc' \in [Thread -> Pcs]
    BY <1>8, <1>p, GotoType DEF PushShift, PushPcs
  <2> QED BY <1>8, <2>1, <2>2 DEF PushShift, TypeOK, greenVars
<1>9. CASE PushWakeup \/ SizedWakeup
  <2>1. target' \in [Thread -> Thread \cup {Nil}]
    BY <1>9 DEF PushWakeup, SizedWakeup, TypeOK
  <2> QED BY <1>9, <1>p, <2>1, RouseAtType DEF PushWakeup, SizedWakeup, PushPcs, SizedPopPcs
<1>10. CASE PushRun \/ SizedRun
  <2>1. target' \in [Thread -> Thread \cup {Nil}]
    BY <1>10 DEF PushRun, SizedRun, TypeOK
  <2> QED BY <1>10, <1>p, <2>1, RouseAtType DEF PushRun, SizedRun
<1>11. CASE PopTest
  <2>1. Append(waiting, curr) \in Seq(Thread)
    BY ListTypes DEF TypeOK
  <2>2. pc' \in [Thread -> Pcs]
    BY <1>11, <1>p, GotoType DEF PopTest, PopPcs
  <2> QED BY <1>11, <2>1, <2>2 DEF PopTest, TypeOK, greenVars
<1>12. CASE TryTest
  <2>1. CASE Unwind(curr, "raise")
    BY <1>12, <2>1, UnwindType DEF TryTest, TypeOK, greenVars, queue
  <2>2. CASE Goto("pop_take") /\ UNCHANGED <<target, diff, pending>>
    <3>1. pc' \in [Thread -> Pcs]
      BY <2>2, <1>p, GotoType DEF PopPcs
    <3> QED BY <1>12, <2>2, <3>1 DEF TryTest, TypeOK, greenVars, queue
  <2> QED BY <1>12, <2>1, <2>2 DEF TryTest
<1>13. CASE PopTake
  <2>1. pc' \in [Thread -> Pcs]
    BY <1>13, <1>p, GotoType DEF PopTake, PopPcs
  <2>2. que > 0
    BY <1>13 DEF PopTake, At, QueueInv, Seen
  <2> QED BY <1>13, <2>1, <2>2 DEF PopTake, TypeOK, greenVars
<1>14. CASE PopEnsure
  <2>1. pc' \in [Thread -> Pcs]
    BY <1>14, <1>p, GotoType DEF PopEnsure, SizedPopPcs
  <2>2. pending' \in [Thread -> {"none", "raise", "kill"}]
    BY <1>14 DEF PopEnsure, TypeOK
  <2> QED BY <1>14, <2>1, <2>2 DEF PopEnsure, TypeOK, queue
<1>15. CASE SizedTest
  <2>1. pc' \in [Thread -> Pcs]
    BY <1>15, <1>p, GotoType DEF SizedTest, SizedPopPcs
  <2> QED BY <1>15, <2>1 DEF SizedTest, TypeOK, greenVars, queue
<1>16. CASE SizedShift
  BY <1>16, <1>p, ShiftWaitType DEF SizedShift, SizedPopPcs
<1>17. ASSUME NEW m \in Max, SetMax(m) PROVE TypeOK'
  <2>1. pc' \in [Thread -> Pcs]
    BY <1>17, <1>p, GotoType DEF SetMax, MaxPcs
  <2>2. (IF m <= max THEN 0 ELSE m - max) \in Nat
    BY DEF TypeOK
  <2> QED BY <1>17, <2>1, <2>2 DEF SetMax, TypeOK, greenVars
<1>18. CASE MaxShift
  <2>1. CASE ShiftWait("max_shift", "max_run") /\ UNCHANGED diff
    BY <2>1, <1>p, ShiftWaitType DEF MaxPcs
  <2>2. CASE Goto("run") /\ UNCHANGED <<greenVars, queue, target, diff, pending>>
    <3>1. pc' \in [Thread -> Pcs]
      BY <2>2, <1>p, GotoType
    <3> QED BY <2>2, <3>1 DEF TypeOK, greenVars, queue
  <2> QED BY <1>18, <2>1, <2>2 DEF MaxShift
<1>19. CASE MaxRun
  <2>1. pc' \in [Thread -> Pcs]
    BY <1>19, <1>p, GotoType DEF MaxRun, MaxPcs
  <2>2. diff[curr] \in Nat /\ diff[curr] - 1 \in Nat
    BY <1>19 DEF MaxRun, At, TypeOK, QueueInv, Counting
  <2>3. diff' \in [Thread -> Nat] /\ target' \in [Thread -> Thread \cup {Nil}]
    BY <1>19, <2>2 DEF MaxRun, TypeOK
  <2>4. state' \in [Thread -> {"awake", "stopped", "dead"}] /\ UNCHANGED <<curr, critical, over>>
    BY <1>19, RouseType DEF MaxRun, TypeOK, greenVars
  <2> QED BY <1>19, <2>1, <2>3, <2>4 DEF MaxRun, TypeOK, queue
<1>20. ASSUME NEW t \in Thread, Kill(t) PROVE TypeOK'
  BY <1>20, RouseType, UnwindType DEF Kill, TypeOK, queue
<1>21. ASSUME NEW t \in Thread, Raise(t) PROVE TypeOK'
  BY <1>21, UnwindType DEF Raise, Interrupt, TypeOK, queue
<1>22. ASSUME NEW t \in Thread, Schedule(t) PROVE TypeOK'
  BY <1>22 DEF Schedule, Switch, Awaken, TypeOK, queueVars, queue, local
<1>23. CASE EndThread
  BY <1>23 DEF EndThread, Die, Awaken, TypeOK, queueVars, queue, local
<1>24. CASE Deadlock
  BY <1>24 DEF Deadlock, TypeOK, queueVars, queue, local
<1> QED
  BY <1>1, <1>2, <1>3, <1>4, <1>5, <1>6, <1>7, <1>8, <1>9, <1>10, <1>11, <1>12, <1>13, <1>14,
     <1>15, <1>16, <1>17, <1>18, <1>19, <1>20, <1>21, <1>22, <1>23, <1>24 DEF Next, Statement

-----------------------------------------------------------------------------
(* The critical section.                                                   *)

LEMMA SectionStep ==
    ASSUME QueueInv, Next
    PROVE  Section'
<1>0. SUFFICES ASSUME NEW t \in Thread, Inside(t)'
               PROVE  t = curr' /\ state'[t] = "awake" /\ critical'
  BY DEF Section
<1> /\ TypeOK /\ curr \in Thread
    /\ Inside(t) => t = curr /\ state[t] = "awake" /\ critical
    /\ Inside(curr) => state[curr] = "awake" /\ critical
  BY DEF QueueInv, Section, TypeOK
<1> USE <1>0 DEF Inside, CritPcs, TypeOK, At, Goto, queue, greenVars
<1>1. CASE Push \/ Pop \/ TryPop \/ MaxSet
  BY <1>1 DEF Push, Pop, TryPop, MaxSet, Call
<1>2. CASE Clear
  BY <1>2 DEF Clear, local
<1>3. CASE PushFull \/ PushAgain \/ PushCritical \/ PushOpen
  BY <1>3 DEF PushFull, PushAgain, PushCritical, PushOpen, Set
<1>4. CASE PopCritical \/ TryCritical \/ SizedCritical \/ SizedOpen \/ MaxCritical \/ MaxOpen
  BY <1>4 DEF PopCritical, TryCritical, SizedCritical, SizedOpen, MaxCritical, MaxOpen, Set
<1>5. CASE PushTest
  BY <1>5 DEF PushTest
<1>6. CASE PushWait \/ PopStop
  BY <1>6 DEF PushWait, PopStop, StopAt, Unwind, InPop, PopPcs
<1>7. CASE PushAdd
  BY <1>7 DEF PushAdd
<1>8. CASE PushShift
  BY <1>8 DEF PushShift
<1>9. CASE PushWakeup \/ SizedWakeup
  BY <1>9 DEF PushWakeup, SizedWakeup, RouseAt, Rouse
<1>10. CASE PushRun \/ SizedRun
  BY <1>10 DEF PushRun, SizedRun, RouseAt, Rouse
<1>11. CASE PopTest
  BY <1>11 DEF PopTest
<1>12. CASE TryTest
  BY <1>12 DEF TryTest, Unwind, InPop, PopPcs
<1>13. CASE PopTake
  BY <1>13 DEF PopTake
<1>14. CASE PopEnsure
  BY <1>14 DEF PopEnsure
<1>15. CASE SizedTest
  BY <1>15 DEF SizedTest
<1>16. CASE SizedShift
  BY <1>16 DEF SizedShift, ShiftWait
<1>17. ASSUME NEW m \in Max, SetMax(m) PROVE t = curr' /\ state'[t] = "awake" /\ critical'
  BY <1>17 DEF SetMax
<1>18. CASE MaxShift
  BY <1>18 DEF MaxShift, ShiftWait
<1>19. CASE MaxRun
  BY <1>19 DEF MaxRun, Rouse
<1>20. ASSUME NEW u \in Thread, Kill(u) \/ Raise(u)
       PROVE  t = curr' /\ state'[t] = "awake" /\ critical'
  BY <1>20 DEF Kill, Raise, Unwind, InPop, PopPcs
<1>21. ASSUME NEW u \in Thread, Schedule(u) PROVE t = curr' /\ state'[t] = "awake" /\ critical'
  BY <1>21 DEF Schedule, Switch, Awaken, queueVars, local
<1>22. CASE EndThread
  BY <1>22 DEF EndThread, Die, Awaken, queueVars, local
<1>23. CASE Deadlock
  BY <1>23 DEF Deadlock, queueVars, local
<1> QED
  BY <1>1, <1>2, <1>3, <1>4, <1>5, <1>6, <1>7, <1>8, <1>9, <1>10, <1>11, <1>12, <1>13, <1>14,
     <1>15, <1>16, <1>17, <1>18, <1>19, <1>20, <1>21, <1>22, <1>23 DEF Next, Statement

LEMMA SeenStep ==
    ASSUME QueueInv, Next
    PROVE  Seen'
<1> TypeOK /\ Seen /\ Section /\ curr \in Thread /\ que \in Nat /\ max \in Nat
  BY QueueAssumption DEF QueueInv, TypeOK
<1>0. \A t \in Thread : t # curr => ~Inside(t)
  BY DEF Section
<1>a. ASSUME UNCHANGED <<sized, que, waiting, max, queue_wait>>, curr' = curr,
             pc'[curr] \in {"push_critical", "push_add"} /\ sized => que < max,
             pc'[curr] \notin {"pop_take", "pop_stop", "push_wait"}
      PROVE  Seen'
  BY <1>a DEF Seen
<1>b. ASSUME UNCHANGED <<sized, que, waiting, max, queue_wait>>, curr' = curr, pc'[curr] = pc[curr]
      PROVE  Seen'
  BY <1>b DEF Seen
<1> USE DEF TypeOK, At, Goto, queue, greenVars
<1>1. CASE Push \/ Pop \/ TryPop \/ MaxSet
  BY <1>1, <1>a DEF Push, Pop, TryPop, MaxSet, Call
<1>2. CASE Clear
  BY <1>2 DEF Clear, local, Seen
<1>3. CASE PushFull \/ PushAgain \/ PushCritical \/ PushOpen
  BY <1>3, <1>a DEF PushFull, PushAgain, PushCritical, PushOpen, Set, Seen
<1>4. CASE PopCritical \/ TryCritical \/ SizedCritical \/ SizedOpen \/ MaxCritical \/ MaxOpen
  BY <1>4, <1>a DEF PopCritical, TryCritical, SizedCritical, SizedOpen, MaxCritical, MaxOpen, Set
<1>5. CASE PushTest
  <2>1. curr \in Elements(Append(queue_wait, curr))
    BY AppendArray
  <2> QED BY <1>5, <2>1 DEF PushTest, Seen
<1>6. CASE PushWait \/ PopStop
  <2>1. pc'[curr] \in {"push_again", "pop_critical", "pop_ensure", "run"}
    BY <1>6 DEF PushWait, PopStop, StopAt, Unwind, InPop, PopPcs
  <2> QED BY <1>6, <1>a, <2>1 DEF PushWait, PopStop, StopAt
<1>7. CASE PushAdd
  BY <1>7 DEF PushAdd, Seen
<1>8. CASE PushShift
  BY <1>8 DEF PushShift, Seen
<1>9. CASE PushWakeup \/ SizedWakeup \/ PushRun \/ SizedRun
  <2>1. pc'[curr] \in {"push_shift", "push_open", "sized_shift", "sized_open", "run"}
    BY <1>9 DEF PushWakeup, SizedWakeup, PushRun, SizedRun, RouseAt
  <2> QED BY <1>9, <1>a, <2>1 DEF PushWakeup, SizedWakeup, PushRun, SizedRun, RouseAt, Rouse
<1>11. CASE PopTest
  <2>1. curr \in Elements(Append(waiting, curr))
    BY AppendArray
  <2> QED BY <1>11, <2>1 DEF PopTest, Seen
<1>12. CASE TryTest
  BY <1>12 DEF TryTest, Unwind, InPop, PopPcs, Seen
<1>13. CASE PopTake
  BY <1>13 DEF PopTake, Seen
<1>14. CASE PopEnsure
  BY <1>14, <1>a DEF PopEnsure
<1>15. CASE SizedTest
  BY <1>15, <1>a DEF SizedTest
<1>16. CASE SizedShift
  BY <1>16 DEF SizedShift, ShiftWait, Seen
<1>17. ASSUME NEW m \in Max, SetMax(m) PROVE Seen'
  BY <1>17 DEF SetMax, Seen
<1>18. CASE MaxShift
  BY <1>18 DEF MaxShift, ShiftWait, Seen
<1>19. CASE MaxRun
  BY <1>19, <1>a DEF MaxRun, Rouse
<1>20. ASSUME NEW u \in Thread, Kill(u) PROVE Seen'
  BY <1>20, <1>a DEF Kill, Unwind, Rouse
<1>21. ASSUME NEW u \in Thread, Raise(u) PROVE Seen'
  BY <1>21 DEF Raise, Interrupt, Unwind, InPop, Seen
<1>22. ASSUME NEW u \in Thread, Schedule(u) PROVE Seen'
  BY <1>0, <1>22 DEF Schedule, Switch, queueVars, local, Inside, CritPcs, Seen
<1>23. CASE EndThread \/ Deadlock
  BY <1>23, <1>b DEF EndThread, Die, Deadlock, queueVars, local
<1> QED
  BY <1>1, <1>2, <1>3, <1>4, <1>5, <1>6, <1>7, <1>8, <1>9, <1>11, <1>12, <1>13, <1>14,
     <1>15, <1>16, <1>17, <1>18, <1>19, <1>20, <1>21, <1>22, <1>23 DEF Next, Statement

LEMMA CountingStep ==
    ASSUME QueueInv, Next
    PROVE  Counting'
<1>0. SUFFICES ASSUME NEW t \in Thread, pc'[t] = "max_run" PROVE diff'[t] > 0
  BY DEF Counting
<1> TypeOK /\ (pc[t] = "max_run" => diff[t] > 0) /\ curr \in Thread
  BY DEF QueueInv, Counting, TypeOK
<1> USE <1>0 DEF TypeOK, At, Goto
<1>1. CASE Push \/ Pop \/ TryPop \/ MaxSet \/ Clear
  BY <1>1 DEF Push, Pop, TryPop, MaxSet, Clear, Call, local
<1>2. CASE PushFull \/ PushAgain \/ PushCritical \/ PushOpen
  BY <1>2 DEF PushFull, PushAgain, PushCritical, PushOpen, Set
<1>3. CASE PopCritical \/ TryCritical \/ SizedCritical \/ SizedOpen \/ MaxCritical \/ MaxOpen
  BY <1>3 DEF PopCritical, TryCritical, SizedCritical, SizedOpen, MaxCritical, MaxOpen, Set
<1>4. CASE PushTest \/ PushAdd \/ PushShift \/ PopTest \/ PopTake \/ PopEnsure \/ SizedTest
  BY <1>4 DEF PushTest, PushAdd, PushShift, PopTest, PopTake, PopEnsure, SizedTest
<1>5. CASE PushWait \/ PopStop
  BY <1>5 DEF PushWait, PopStop, StopAt, Unwind
<1>6. CASE PushWakeup \/ SizedWakeup \/ PushRun \/ SizedRun
  BY <1>6 DEF PushWakeup, SizedWakeup, PushRun, SizedRun, RouseAt
<1>7. CASE TryTest
  BY <1>7 DEF TryTest, Unwind
<1>8. CASE SizedShift
  BY <1>8 DEF SizedShift, ShiftWait
<1>9. ASSUME NEW m \in Max, SetMax(m) PROVE diff'[t] > 0
  BY <1>9 DEF SetMax
<1>10. CASE MaxShift
  BY <1>10 DEF MaxShift, ShiftWait
<1>11. CASE MaxRun
  BY <1>11 DEF MaxRun
<1>12. ASSUME NEW u \in Thread, Kill(u) \/ Raise(u) PROVE diff'[t] > 0
  BY <1>12 DEF Kill, Raise, Unwind
<1>13. CASE UNCHANGED queueVars
  BY <1>13 DEF queueVars, local
<1> QED
  BY <1>1, <1>2, <1>3, <1>4, <1>5, <1>6, <1>7, <1>8, <1>9, <1>10, <1>11, <1>12, <1>13
  DEF Next, Statement, Schedule, EndThread, Deadlock

LEMMA PlainStep ==
    ASSUME QueueInv, Next
    PROVE  Plain'
<1>1. sized' = sized
  BY DEF Next, Statement, Push, Pop, TryPop, MaxSet, Clear, Call, PushFull, PushAgain, PushCritical,
     PushOpen, PopCritical, TryCritical, SizedCritical, SizedOpen, MaxCritical, MaxOpen, Set,
     PushTest, PushAdd, PushShift, PopTest, PopTake, PopEnsure, SizedTest, PushWait, PopStop, StopAt,
     PushWakeup, SizedWakeup, PushRun, SizedRun, RouseAt, TryTest, SizedShift, ShiftWait, SetMax,
     MaxShift, MaxRun, Kill, Raise, Schedule, EndThread, Deadlock, queueVars, queue
<1>2. SUFFICES ASSUME ~sized
               PROVE  /\ \A t \in Thread : pc'[t] \notin SizedPcs
                      /\ critical' => state'[curr'] = "awake" /\ pc'[curr'] \in CritPcs \cup {"pop_ensure"}
  BY <1>1 DEF Plain
<1>3. SUFFICES ASSUME NEW t \in Thread
               PROVE  /\ pc'[t] \notin SizedPcs
                      /\ critical' => state'[curr'] = "awake" /\ pc'[curr'] \in CritPcs \cup {"pop_ensure"}
  <2>1. Thread # {}
    BY QueueAssumption
  <2> QED BY <2>1
<1> /\ TypeOK /\ curr \in Thread /\ pc[t] \notin SizedPcs /\ pc[curr] \notin SizedPcs
    /\ critical => state[curr] = "awake" /\ pc[curr] \in CritPcs \cup {"pop_ensure"}
  BY <1>2 DEF QueueInv, TypeOK, Plain
<1> USE <1>2 DEF SizedPcs, SizedPopPcs, MaxPcs, CritPcs, TypeOK, At, Goto, greenVars
<1>4. CASE Push \/ Pop \/ TryPop \/ MaxSet
  BY <1>4 DEF Push, Pop, TryPop, MaxSet, Call
<1>5. CASE Clear
  BY <1>5 DEF Clear, local
<1>6. CASE PushCritical \/ PushOpen \/ PopCritical \/ TryCritical
  BY <1>6 DEF PushCritical, PushOpen, PopCritical, TryCritical, Set
<1>7. CASE PushFull \/ PushAgain \/ SizedCritical \/ SizedOpen \/ MaxCritical \/ MaxOpen
  BY <1>7 DEF PushFull, PushAgain, SizedCritical, SizedOpen, MaxCritical, MaxOpen, Set
<1>8. CASE PushAdd \/ PushShift \/ PopTest \/ PopTake
  BY <1>8 DEF PushAdd, PushShift, PopTest, PopTake
<1>9. CASE PushTest \/ SizedTest \/ SizedShift \/ SizedWakeup \/ SizedRun
  BY <1>9 DEF PushTest, SizedTest, SizedShift, ShiftWait, SizedWakeup, SizedRun, RouseAt
<1>10. CASE PopEnsure
  BY <1>10 DEF PopEnsure
<1>11. CASE PushWait \/ PopStop
  BY <1>11 DEF PushWait, PopStop, StopAt, Unwind
<1>12. CASE PushWakeup
  BY <1>12 DEF PushWakeup, RouseAt, Rouse
<1>13. CASE PushRun
  BY <1>13 DEF PushRun, RouseAt, Rouse
<1>14. CASE TryTest
  BY <1>14 DEF TryTest, Unwind, InPop, PopPcs
<1>15. CASE MaxShift \/ MaxRun \/ \E m \in Max : SetMax(m)
  BY <1>15 DEF MaxShift, ShiftWait, MaxRun, SetMax
<1>16. ASSUME NEW u \in Thread, Kill(u)
       PROVE  /\ pc'[t] \notin SizedPcs
              /\ critical' => state'[curr'] = "awake" /\ pc'[curr'] \in CritPcs \cup {"pop_ensure"}
  BY <1>16 DEF Kill, Rouse, Unwind
<1>17. ASSUME NEW u \in Thread, Raise(u)
       PROVE  /\ pc'[t] \notin SizedPcs
              /\ critical' => state'[curr'] = "awake" /\ pc'[curr'] \in CritPcs \cup {"pop_ensure"}
  BY <1>17 DEF Raise, Interrupt, Unwind
<1>18. ASSUME NEW u \in Thread, Schedule(u)
       PROVE  /\ pc'[t] \notin SizedPcs
              /\ critical' => state'[curr'] = "awake" /\ pc'[curr'] \in CritPcs \cup {"pop_ensure"}
  BY <1>18 DEF Schedule, Switch, Awaken, queueVars, local
<1>19. CASE EndThread
  BY <1>19 DEF EndThread, Die, queueVars, local
<1>20. CASE Deadlock
  BY <1>20 DEF Deadlock, queueVars, local
<1> QED
  BY <1>4, <1>5, <1>6, <1>7, <1>8, <1>9, <1>10, <1>11, <1>12, <1>13, <1>14,
     <1>15, <1>16, <1>17, <1>18, <1>19, <1>20 DEF Next, Statement

-----------------------------------------------------------------------------
(* The invariant, and what follows from it.                                *)

LEMMA InitInv == ASSUME Init PROVE QueueInv
<1>1. main_thread \in Thread /\ Nil \notin Thread /\ << >> \in Seq(Thread)
  BY QueueAssumption
<1>2. TypeOK
  BY <1>1 DEF Init, TypeOK, Pcs
<1>3. Section /\ Seen /\ Counting /\ Plain
  BY <1>1 DEF Init, Section, Inside, CritPcs, Seen, Counting, Plain, SizedPcs, SizedPopPcs, MaxPcs
<1> QED BY <1>2, <1>3 DEF QueueInv

LEMMA Invariant == Spec => []QueueInv
<1>1. ASSUME QueueInv, [Next]_vars PROVE QueueInv'
  <2>1. CASE Next
    BY <1>1, <2>1, TypeStep, SectionStep, SeenStep, CountingStep, PlainStep DEF QueueInv
  <2>2. CASE UNCHANGED vars
    <3> USE <2>2 DEF vars, greenVars, queueVars, queue, local
    <3>1. TypeOK'
      BY <1>1 DEF QueueInv, TypeOK
    <3>2. Section' /\ Seen' /\ Counting' /\ Plain'
      BY <1>1 DEF QueueInv, Section, Inside, Seen, Counting, Plain
    <3> QED BY <3>1, <3>2 DEF QueueInv
  <2> QED BY <1>1, <2>1, <2>2
<1> QED BY <1>1, InitInv, PTL DEF Spec

(* The lists, lengths and locals of both classes keep their types: @que    *)
(* is never shifted when it is empty, and diff.times never counts below    *)
(* zero.                                                                   *)
THEOREM TypeCorrect == Spec => []TypeOK
<1>1. ASSUME QueueInv PROVE TypeOK
  BY <1>1 DEF QueueInv
<1> QED BY <1>1, Invariant, PTL

(* Queue#push and Queue#pop leave Thread.critical as they found it, however *)
(* they end.                                                               *)
THEOREM CriticalIsReleased == Spec => []CriticalReleased
<1>1. ASSUME QueueInv PROVE CriticalReleased
  BY <1>1 DEF QueueInv, Plain, CritPcs, CriticalReleased
<1> QED BY <1>1, Invariant, PTL

(* SizedQueue#push adds only when there is room, for every @max, although  *)
(* max= may change @max at any time.                                       *)
THEOREM PushHasRoom == Spec => RoomForPush
<1>1. ASSUME QueueInv, [Next]_vars PROVE [sized /\ que' > que => que' <= max]_vars
  <2>1. que \in Nat /\ max \in Nat
    BY <1>1, QueueAssumption DEF QueueInv, TypeOK
  <2>2. CASE PushAdd
    BY <1>1, <2>1, <2>2 DEF PushAdd, At, QueueInv, Seen
  <2>3. CASE que' = que \/ que' = 0 \/ que' = que - 1
    BY <2>1, <2>3
  <2>4. PushAdd \/ que' = que \/ que' = 0 \/ que' = que - 1
    BY <1>1 DEF vars, Next, Statement, Push, Pop, TryPop, MaxSet, Clear, Call, PushFull, PushAgain,
       PushCritical, PushOpen, PopCritical, TryCritical, SizedCritical, SizedOpen, MaxCritical,
       MaxOpen, Set, PushTest, PushShift, PopTest, PopTake, PopEnsure, SizedTest, PushWait, PopStop,
       StopAt, PushWakeup, SizedWakeup, PushRun, SizedRun, RouseAt, TryTest, SizedShift, ShiftWait,
       SetMax, MaxShift, MaxRun, Kill, Raise, Schedule, EndThread, Deadlock, queueVars, queue
  <2> QED BY <2>2, <2>3, <2>4
<1> QED BY <1>1, Invariant, PTL DEF Spec, RoomForPush

-----------------------------------------------------------------------------
(* Who sleeps is listed.                                                   *)

PopListed(t) ==
    Sleeps(t, "pop_critical") => \/ t \in Elements(waiting)
                                 \/ pc[curr] = "push_wakeup" /\ target[curr] = t
PushListed(t) ==
    Sleeps(t, "push_again") => \/ t \in Elements(queue_wait)
                               \/ pc[curr] = "sized_wakeup" /\ target[curr] = t
                               \/ \E u \in Thread : pc[u] = "max_run" /\ target[u] = t
Listed == \A t \in Thread : PopListed(t) /\ PushListed(t)

LEMMA ShiftedList ==
    ASSUME NEW q \in Seq(Thread), NEW t \in Elements(q)
    PROVE  t = First(q) \/ t \in Elements(Shifted(q))
<1>1. CASE q = << >>
  BY <1>1, EmptyArray
<1>2. CASE q # << >>
  <2>1. Elements(q) = Elements(Tail(q)) \cup {Head(q)}
    BY <1>2, TailArray
  <2> QED BY <1>2, <2>1 DEF First, Shifted
<1> QED BY <1>1, <1>2

LEMMA AppendedList ==
    ASSUME NEW q \in Seq(Thread), NEW t \in Elements(q), NEW u \in Thread
    PROVE  t \in Elements(Append(q, u))
BY AppendArray

(* A statement that neither sleeps, wakes, nor changes a list.             *)
LEMMA ListedSame ==
    ASSUME TypeOK, NEW t \in Thread, PopListed(t), PushListed(t),
           UNCHANGED <<waiting, queue_wait, curr>>,
           state'[t] = "stopped" => state[t] = "stopped" /\ pc'[t] = pc[t],
           \A u \in Thread \ {curr} : pc'[u] = pc[u] /\ target'[u] = target[u],
           state[t] = "stopped" => pc[curr] \notin {"push_wakeup", "sized_wakeup", "max_run"}
    PROVE  PopListed(t)' /\ PushListed(t)'
<1>1. PopListed(t)'
  BY DEF PopListed, Sleeps
<1>2. PushListed(t)'
  <2>1. SUFFICES ASSUME Sleeps(t, "push_again")', t \notin Elements(queue_wait)
                 PROVE  \E u \in Thread : pc'[u] = "max_run" /\ target'[u] = t
    BY DEF PushListed
  <2>2. Sleeps(t, "push_again") /\ pc[curr] \notin {"sized_wakeup", "max_run"}
    BY <2>1 DEF Sleeps
  <2>3. PICK u \in Thread : pc[u] = "max_run" /\ target[u] = t
    BY <2>1, <2>2 DEF PushListed
  <2> QED BY <2>2, <2>3
<1> QED BY <1>1, <1>2

LEMMA ListedStep ==
    ASSUME QueueInv, Listed, Next, SizedCalls \cap {"kill", "raise"} = {}
    PROVE  Listed'
<1>0. SUFFICES ASSUME NEW t \in Thread PROVE PopListed(t)' /\ PushListed(t)'
  BY DEF Listed
<1> /\ TypeOK /\ Section /\ Seen /\ Plain /\ PopListed(t) /\ PushListed(t)
    /\ curr \in Thread /\ Nil \notin Thread
  BY QueueAssumption DEF QueueInv, Listed, TypeOK
<1> USE DEF TypeOK, At, Goto, queue, greenVars
<1>1. CASE Push \/ Pop \/ TryPop \/ MaxSet
  BY <1>1, ListedSame DEF Push, Pop, TryPop, MaxSet, Call
<1>2. CASE Clear
  BY <1>2, ListedSame DEF Clear, local
<1>3. CASE PushFull \/ PushAgain \/ PushCritical \/ PushOpen
  BY <1>3, ListedSame DEF PushFull, PushAgain, PushCritical, PushOpen, Set
<1>4. CASE PopCritical \/ TryCritical \/ SizedCritical \/ SizedOpen \/ MaxCritical \/ MaxOpen
  BY <1>4, ListedSame DEF PopCritical, TryCritical, SizedCritical, SizedOpen, MaxCritical, MaxOpen, Set
<1>5. CASE PushAdd \/ PopTake \/ SizedTest \/ \E m \in Max : SetMax(m)
  BY <1>5, ListedSame DEF PushAdd, PopTake, SizedTest, SetMax
<1>6. CASE TryTest \/ PopEnsure
  BY <1>6, ListedSame DEF TryTest, Unwind, PopEnsure
<1>7. CASE PushRun \/ SizedRun
  <2>1. state'[t] = "stopped" => state[t] = "stopped"
    BY <1>7 DEF PushRun, SizedRun, RouseAt, Rouse
  <2> QED BY <1>7, <2>1, ListedSame DEF PushRun, SizedRun, RouseAt, Rouse
<1>8. CASE PushWait \/ PopStop
  <2>1. CASE OnlyThread
    BY <1>8, <2>1, ListedSame DEF PushWait, PopStop, StopAt, Unwind
  <2>2. CASE ~OnlyThread
    <3>1. /\ UNCHANGED <<waiting, queue_wait, target, curr>>
          /\ state' = [state EXCEPT ![curr] = "stopped"]
          /\ \A u \in Thread \ {curr} : pc'[u] = pc[u]
          /\ pc[curr] \in {"push_wait", "pop_stop"}
          /\ pc'[curr] = IF pc[curr] = "push_wait" THEN "push_again" ELSE "pop_critical"
      BY <1>8, <2>2 DEF PushWait, PopStop, StopAt
    <3>2. CASE t = curr
      BY <3>1, <3>2 DEF Seen, PopListed, PushListed, Sleeps
    <3>3. CASE t # curr
      BY <3>1, <3>3, ListedSame
    <3> QED BY <3>2, <3>3
  <2> QED BY <2>1, <2>2
<1>9. CASE PushTest \/ PopTest
  <2>1. /\ state' = state /\ curr' = curr /\ target' = target
        /\ \A u \in Thread \ {curr} : pc'[u] = pc[u]
        /\ state[curr] = "awake" /\ pc[curr] \in {"push_test", "pop_test"}
        /\ waiting' \in {waiting, Append(waiting, curr)}
        /\ queue_wait' \in {queue_wait, Append(queue_wait, curr)}
    BY <1>9 DEF PushTest, PopTest
  <2>2. /\ t \in Elements(waiting) => t \in Elements(waiting')
        /\ t \in Elements(queue_wait) => t \in Elements(queue_wait')
    BY <2>1, AppendedList
  <2>3. PopListed(t)'
    BY <2>1, <2>2 DEF PopListed, Sleeps
  <2>4. PushListed(t)'
    BY <2>1, <2>2 DEF PushListed, Sleeps
  <2> QED BY <2>3, <2>4
<1>10. CASE PushShift
  <2>1. /\ state' = state /\ curr' = curr /\ queue_wait' = queue_wait /\ waiting' = Shifted(waiting)
        /\ \A u \in Thread \ {curr} : pc'[u] = pc[u] /\ target'[u] = target[u]
        /\ state[curr] = "awake" /\ pc[curr] = "push_shift"
        /\ pc'[curr] = "push_wakeup" /\ target'[curr] = First(waiting)
    BY <1>10 DEF PushShift
  <2>2. PopListed(t)'
    BY <2>1, ShiftedList DEF PopListed, Sleeps
  <2>3. PushListed(t)'
    BY <2>1 DEF PushListed, Sleeps
  <2> QED BY <2>2, <2>3
<1>11. CASE SizedShift \/ ShiftWait("max_shift", "max_run")
  <2>1. /\ state' = state /\ curr' = curr /\ waiting' = waiting /\ queue_wait' = Shifted(queue_wait)
        /\ \A u \in Thread \ {curr} : pc'[u] = pc[u] /\ target'[u] = target[u]
        /\ state[curr] = "awake" /\ pc[curr] \in {"sized_shift", "max_shift"}
        /\ pc'[curr] \in {"sized_wakeup", "max_run"} /\ target'[curr] = First(queue_wait)
    BY <1>11 DEF SizedShift, ShiftWait
  <2>2. PopListed(t)'
    BY <2>1 DEF PopListed, Sleeps
  <2>3. PushListed(t)'
    BY <2>1, ShiftedList DEF PushListed, Sleeps
  <2> QED BY <2>2, <2>3
<1>12. CASE MaxShift /\ ~ShiftWait("max_shift", "max_run")
  BY <1>12, ListedSame DEF MaxShift
<1>13. CASE PushWakeup \/ SizedWakeup \/ MaxRun
  <2>1. /\ curr' = curr /\ waiting' = waiting /\ queue_wait' = queue_wait
        /\ \A u \in Thread \ {curr} : pc'[u] = pc[u] /\ target'[u] = target[u]
        /\ state[curr] = "awake" /\ pc[curr] \in {"push_wakeup", "sized_wakeup", "max_run"}
        /\ pc'[curr] \notin {"pop_critical", "push_again"}
    BY <1>13 DEF PushWakeup, SizedWakeup, MaxRun, RouseAt, Rouse
  <2>2. /\ target[curr] = t => state'[t] # "stopped"
        /\ state'[t] = "stopped" => state[t] = "stopped"
    BY <1>13 DEF PushWakeup, SizedWakeup, MaxRun, RouseAt, Rouse
  <2>3. PopListed(t)'
    BY <2>1, <2>2 DEF PopListed, Sleeps
  <2>4. PushListed(t)'
    BY <2>1, <2>2 DEF PushListed, Sleeps
  <2> QED BY <2>3, <2>4
<1>14. ASSUME NEW v \in Thread, Kill(v) \/ Raise(v)
       PROVE  PopListed(t)' /\ PushListed(t)'
  <2>1. ~sized
    BY <1>14 DEF Kill, Raise, MayUse
  <2>2. /\ UNCHANGED <<waiting, queue_wait>> /\ pc[curr] = "run"
        /\ state'[t] = "stopped" => state[t] = "stopped" /\ pc'[t] = pc[t]
    BY <1>14 DEF Kill, Raise, Rouse, Interrupt, Unwind
  <2>3. pc[t] # "push_again"
    BY <2>1 DEF Plain, SizedPcs
  <2> QED BY <2>2, <2>3 DEF PopListed, PushListed, Sleeps
<1>15. ASSUME NEW v \in Thread, Schedule(v)
       PROVE  PopListed(t)' /\ PushListed(t)'
  <2>1. /\ UNCHANGED queueVars /\ state'[t] = state[t]
        /\ ~Inside(curr)
    BY <1>15 DEF Schedule, Switch, Awaken, Section
  <2> QED BY <2>1 DEF queueVars, local, PopListed, PushListed, Sleeps, Inside, CritPcs
<1>16. CASE EndThread \/ Deadlock
  <2>1. UNCHANGED <<queueVars, curr>> /\ (state'[t] = "stopped" => state[t] = "stopped")
    BY <1>16 DEF EndThread, Die, Awaken, Deadlock
  <2> QED BY <2>1 DEF queueVars, local, PopListed, PushListed, Sleeps
<1> QED
  BY <1>1, <1>2, <1>3, <1>4, <1>5, <1>6, <1>7, <1>8, <1>9, <1>10, <1>11, <1>12, <1>13, <1>14,
     <1>15, <1>16 DEF Next, Statement, MaxShift

(* Nobody sleeps in pop or push without an entry in a list, or a thread    *)
(* that is about to run it: no wakeup is lost.  The program with a         *)
(* SizedQueue uses no asynchronous exceptions: one that meets max= between *)
(* its shift and its run loses the thread it has shifted.                  *)
THEOREM WaitersListed ==
    ASSUME SizedCalls \cap {"kill", "raise"} = {}
    PROVE  Spec => []WaiterListed
<1>1. ASSUME Init PROVE Listed
  BY <1>1 DEF Init, Listed, PopListed, PushListed, Sleeps
<1>2. ASSUME QueueInv, Listed, [Next]_vars PROVE Listed'
  <2>1. CASE Next
    BY <1>2, <2>1, ListedStep
  <2>2. CASE UNCHANGED vars
    BY <1>2, <2>2 DEF vars, greenVars, queueVars, queue, local, Listed, PopListed, PushListed, Sleeps
  <2> QED BY <1>2, <2>1, <2>2
<1>3. ASSUME Listed PROVE WaiterListed
  BY <1>3 DEF Listed, PopListed, PushListed, WaiterListed
<1> QED BY <1>1, <1>2, <1>3, Invariant, PTL DEF Spec
=============================================================================
