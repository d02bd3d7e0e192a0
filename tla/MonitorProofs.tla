---------------------------- MODULE MonitorProofs ----------------------------
(***************************************************************************)
(* What holds of the monitor for any number of threads.                    *)
(*                                                                         *)
(* Holding says where a thread is when it owns the monitor and when it     *)
(* does not.  Unless a thread has been killed, Queues says that the queues *)
(* hold the threads that sleep in mon_enter and at the end of wait, each   *)
(* once, and no others: none of them is dead, so mon_release always wakes  *)
(* a thread that wants the monitor.  Waiting says that who is in @waiters  *)
(* sleeps in wait, or has been timed out and will leave the list: signal   *)
(* wakes nobody who sleeps in a queue.                                     *)
(***************************************************************************)
EXTENDS Monitor, ArrayProofs

TypeInv ==
    /\ state \in [Thread -> {"awake", "stopped", "dead"}]
    /\ curr \in Thread
    /\ kills \in BOOLEAN
    /\ mon_owner \in Thread \cup {Nil} /\ mon_count \in Nat
    /\ mon_entering_queue \in Seq(Thread) /\ mon_waiting_queue \in Seq(Thread)
    /\ waiters \in Seq(Thread)
    /\ timer \in [Thread -> BOOLEAN]
    /\ depth \in [Thread -> Nat] /\ saved \in [Thread -> Nat]
    /\ pc \in [Thread -> Pcs]
    /\ pending \in [Thread -> {"none", "raise", "kill"}]

InMonitor == {"run", "enter", "exit", "wait"}
InWait == {"stop", "ensure", "reenter"}

(* A thread in wait has given the monitor up and noted how often it was    *)
(* inside.  Only a thread that is killed in mon_exit keeps more than that. *)
Holds(t) ==
    /\ pc[t] \in {"enter", "wait", "stop"} => pending[t] = "none"
    /\ pc[t] = "exit" => depth[t] > 0
    /\ pc[t] = "wait" => mon_owner = t
    /\ pc[t] \in InWait => mon_owner # t /\ saved[t] = depth[t] /\ depth[t] > 0
    /\ pc[t] \in InMonitor /\ pending[t] = "none" /\ depth[t] > 0 => mon_owner = t
    /\ mon_owner = t => mon_count > 0 /\ (pending[t] # "kill" => mon_count = depth[t])
Holding == (mon_owner = Nil => mon_count = 0) /\ \A t \in Thread : Holds(t)

Timing ==
    \A t \in Thread : /\ timer[t] => pc[t] \in {"wait", "stop", "ensure"} /\ ~kills
                      /\ pending[t] = "kill" => kills

Sleeping ==
    \A t \in Thread : /\ state[t] = "stopped" => pc[t] \in {"enter", "stop", "reenter"}
                      /\ state[t] = "dead" => pc[t] = "run" /\ depth[t] = 0

Queued(q, l) ==
    /\ Distinct(q)
    /\ \A t \in Thread : t \in Elements(q) <=> state[t] = "stopped" /\ pc[t] = l
Queues == Queued(mon_entering_queue, "enter") /\ Queued(mon_waiting_queue, "reenter")

Waiting ==
    /\ Distinct(waiters)
    /\ \A t \in Elements(waiters) : \/ pc[t] = "stop" /\ state[t] = "stopped"
                                    \/ pc[t] = "ensure" /\ ~timer[t]

(* When the monitor is free and there are threads in its queues, one is on *)
(* its way.                                                                *)
Trying(u) == state[u] = "awake" /\ pc[u] \in {"enter", "reenter"}
Handing ==
    mon_owner = Nil /\ (mon_entering_queue # << >> \/ mon_waiting_queue # << >>)
        => \E u \in Thread : Trying(u)

MonitorInv ==
    /\ TypeInv /\ Holding /\ Timing /\ Sleeping
    /\ ~Killed => Queues /\ Waiting /\ Handing

-----------------------------------------------------------------------------
(* Types, and the killed stay killed.                                      *)

LEMMA QueueTypes ==
    ASSUME TypeInv
    PROVE  /\ << >> \in Seq(Thread)
           /\ \A q \in Seq(Thread) : Append(q, curr) \in Seq(Thread)
           /\ \A q \in Seq(Thread) : Shifted(q) \in Seq(Thread)
           /\ \A q \in Seq(Thread) : Without(q) \in Seq(Thread)
<1>1. curr \in Thread
  BY DEF TypeInv
<1>2. ASSUME NEW q \in Seq(Thread)
      PROVE  Append(q, curr) \in Seq(Thread) /\ Shifted(q) \in Seq(Thread)
  BY <1>1 DEF Shifted
<1>3. ASSUME NEW q \in Seq(Thread)
      PROVE  Without(q) \in Seq(Thread)
  BY FilterArray, Zenon DEF Without
<1> QED BY <1>2, <1>3

LEMMA AwakenType ==
    ASSUME TypeInv, NEW W
    PROVE  Awaken(W) \in [Thread -> {"awake", "stopped", "dead"}]
BY DEF TypeInv, Awaken

LEMMA OpenType ==
    ASSUME TypeInv, NEW W, Open(W)
    PROVE  state' \in [Thread -> {"awake", "stopped", "dead"}] /\ curr' = curr
BY AwakenType DEF Open

LEMMA StopType ==
    ASSUME TypeInv, NEW W, NEW l \in Pcs, NEW e \in Pcs, Stop(W, l, e)
    PROVE  /\ state' \in [Thread -> {"awake", "stopped", "dead"}] /\ curr' = curr
           /\ pc' \in [Thread -> Pcs] /\ pending' \in [Thread -> {"none", "raise", "kill"}]
<1>1. Awaken(W) \in [Thread -> {"awake", "stopped", "dead"}]
  BY AwakenType
<1>2. CASE ~Alone
  BY <1>1, <1>2, ZenonT(60) DEF TypeInv, Stop, Goto
<1>3. CASE Alone
  BY <1>1, <1>3, ZenonT(60) DEF TypeInv, Stop, Goto
<1> QED BY <1>2, <1>3

LEMMA TypeStep ==
    ASSUME TypeInv, Holding, Next
    PROVE  TypeInv'
<1> USE DEF TypeInv, At, InProgram, Goto, monitor, local, monVars, greenVars
<1> /\ Nil \notin Thread /\ kills' = kills
  BY MonitorAssumption DEF Next
<1>0. /\ [depth EXCEPT ![curr] = @ + 1] \in [Thread -> Nat]
      /\ depth[curr] > 0 => [depth EXCEPT ![curr] = @ - 1] \in [Thread -> Nat]
      /\ mon_count + 1 \in Nat
  <2>1. depth[curr] \in Nat /\ depth[curr] + 1 \in Nat /\ (depth[curr] > 0 => depth[curr] - 1 \in Nat)
    OBVIOUS
  <2> QED BY <2>1
<1>1. CASE mon_try_enter
  <2>1. depth' \in [Thread -> Nat]
    BY <1>0, <1>1 DEF mon_try_enter
  <2> QED BY <1>1, <2>1, OpenType, SMTT(30) DEF mon_try_enter
<1>2. CASE CallEnter
  BY <1>2 DEF CallEnter, Pcs
<1>3. CASE mon_enter
  <2>1. depth' \in [Thread -> Nat] /\ mon_entering_queue' \in Seq(Thread)
    <3>1. Append(mon_entering_queue, curr) \in Seq(Thread)
      BY QueueTypes
    <3> QED BY <1>0, <1>3, <3>1 DEF mon_enter
  <2>2. CASE mon_owner \notin {Nil, curr}
    <3>1. Stop({}, "enter", "run")
      BY <1>3, <2>2 DEF mon_enter
    <3> QED BY <1>3, <2>1, <2>2, <3>1, StopType DEF mon_enter, Pcs
  <2>3. CASE mon_owner \in {Nil, curr}
    <3>1. Open({})
      BY <1>3, <2>3 DEF mon_enter
    <3>2. state' \in [Thread -> {"awake", "stopped", "dead"}] /\ curr' = curr
      BY <3>1, OpenType
    <3> QED BY <1>0, <1>3, <2>1, <2>3, <3>2 DEF mon_enter, Pcs
  <2> QED BY <2>2, <2>3
<1>4. CASE CallExit
  BY <1>4 DEF CallExit, Pcs
<1>5. CASE mon_exit
  <2>0. depth' \in [Thread -> Nat]
    <3>1. depth[curr] > 0
      BY <1>5 DEF mon_exit, Holding, Holds
    <3> QED BY <1>0, <1>5, <3>1 DEF mon_exit
  <2>1. pc' \in [Thread -> Pcs]
    BY <1>5 DEF mon_exit, Fail, Pcs
  <2>2. pending' \in [Thread -> {"none", "raise", "kill"}]
    BY <1>5 DEF mon_exit, Fail
  <2>3. mon_entering_queue' \in Seq(Thread) /\ mon_waiting_queue' \in Seq(Thread)
    BY <1>5, QueueTypes DEF mon_exit, mon_release, ShiftOne
  <2>4. state' \in [Thread -> {"awake", "stopped", "dead"}] /\ curr' = curr
    BY <1>5, OpenType DEF mon_exit, Fail
  <2> QED BY <1>5, <2>0, <2>1, <2>2, <2>3, <2>4, SMTT(30) DEF mon_exit, mon_release
<1>6. CASE CallWait
  BY <1>6 DEF CallWait, create_timer, Pcs
<1>7. CASE wait
  <2>1. mon_entering_queue' \in Seq(Thread) /\ mon_waiting_queue' \in Seq(Thread)
    BY <1>7, QueueTypes DEF wait, mon_release, ShiftOne
  <2>2. CASE Dead(NextIn) /\ Fail /\ UNCHANGED <<waiters, saved>>
    BY <1>7, <2>1, <2>2 DEF wait, Fail, mon_release, Pcs
  <2>3. CASE Stop({NextIn}, "stop", "ensure") /\ saved' = [saved EXCEPT ![curr] = mon_count]
             /\ waiters' = Append(waiters, curr)
    <3>1. /\ state' \in [Thread -> {"awake", "stopped", "dead"}] /\ curr' = curr
          /\ pc' \in [Thread -> Pcs] /\ pending' \in [Thread -> {"none", "raise", "kill"}]
      BY <2>3, StopType DEF Pcs
    <3> QED BY <1>7, <2>1, <2>3, <3>1, QueueTypes DEF wait, mon_release
  <2> QED BY <1>7, <2>2, <2>3 DEF wait
<1>8. CASE Woken
  BY <1>8 DEF Woken, Pcs
<1>9. ASSUME mon_enter_for_cond, mon_entering_queue' = mon_entering_queue, depth' = depth,
             waiters' \in Seq(Thread), timer' \in [Thread -> BOOLEAN]
      PROVE  TypeInv'
  <2>1. CASE mon_owner \notin {Nil, curr}
    <3>0. Append(mon_waiting_queue, curr) \in Seq(Thread)
      BY QueueTypes
    <3>1. Stop({}, "reenter", "run") /\ mon_waiting_queue' \in Seq(Thread)
      BY <1>9, <2>1, <3>0 DEF mon_enter_for_cond
    <3>2. /\ state' \in [Thread -> {"awake", "stopped", "dead"}] /\ curr' = curr
          /\ pc' \in [Thread -> Pcs] /\ pending' \in [Thread -> {"none", "raise", "kill"}]
      BY <3>1, StopType DEF Pcs
    <3> QED BY <1>9, <2>1, <3>1, <3>2 DEF mon_enter_for_cond
  <2>2. CASE mon_owner \in {Nil, curr}
    <3>1. Open({})
      BY <1>9, <2>2 DEF mon_enter_for_cond
    <3>2. state' \in [Thread -> {"awake", "stopped", "dead"}] /\ curr' = curr
      BY <3>1, OpenType
    <3>3. /\ mon_owner' = curr /\ mon_count' = saved[curr] /\ saved' = [saved EXCEPT ![curr] = 0]
          /\ Goto("run") /\ UNCHANGED <<mon_waiting_queue, pending>>
      BY <1>9, <2>2 DEF mon_enter_for_cond
    <3> QED BY <1>9, <3>2, <3>3 DEF Pcs
  <2> QED BY <2>1, <2>2
<1>10. CASE Ensure
  BY <1>9, <1>10, QueueTypes DEF Ensure, KillTimer
<1>11. CASE Reenter
  BY <1>9, <1>11 DEF Reenter
<1>12. CASE signal
  BY <1>12, QueueTypes, OpenType DEF signal, Fail, Pcs
<1>13. CASE broadcast
  <2>1. state' \in [Thread -> {"awake", "stopped", "dead"}] /\ curr' = curr
    BY <1>13, OpenType, AwakenType, SMTT(30) DEF broadcast
  <2>2. pc' \in [Thread -> Pcs] /\ pending' \in [Thread -> {"none", "raise", "kill"}]
    BY <1>13 DEF broadcast, Pcs
  <2>3. waiters' \in Seq(Thread)
    BY <1>13, QueueTypes DEF broadcast
  <2> QED BY <1>13, <2>1, <2>2, <2>3 DEF broadcast
<1>14. ASSUME NEW t \in Thread, NEW tag \in {"raise", "kill"}, NEW r \in BOOLEAN, Unwind(t, tag, r)
       PROVE  /\ pc' \in [Thread -> Pcs] /\ pending' \in [Thread -> {"none", "raise", "kill"}]
              /\ depth' \in [Thread -> Nat] /\ saved' \in [Thread -> Nat]
  BY <1>14 DEF Unwind, Pcs, Holding, Holds
<1>15. ASSUME NEW t \in Thread, Timeout(t) PROVE TypeInv'
  <2>1. CASE state[t] = "dead"
    BY <1>15, <2>1 DEF Timeout
  <2>2. CASE state[t] # "dead"
    <3>1. Unwind(t, "raise", TRUE)
      BY <1>15, <2>2 DEF Timeout
    <3> QED BY <1>15, <2>2, <1>14, <3>1 DEF Timeout, Unwind
  <2> QED BY <2>1, <2>2
<1>16. ASSUME NEW t \in Thread, Kill(t) PROVE TypeInv'
  <2>1. Unwind(t, "kill", FALSE)
    BY <1>16 DEF Kill
  <2> QED BY <1>16, <1>14, <2>1 DEF Kill, Rouse, Unwind
<1>17. ASSUME NEW t \in Thread, Schedule(t) PROVE TypeInv'
  BY <1>17, AwakenType DEF Schedule, Switch
<1>18. CASE Rescue
  BY <1>18 DEF Rescue
<1>19. CASE EndThread
  BY <1>19, AwakenType DEF EndThread, Die
<1>20. CASE Deadlock
  BY <1>20 DEF Deadlock
<1> QED
  BY <1>1, <1>2, <1>3, <1>4, <1>5, <1>6, <1>7, <1>8, <1>10, <1>11, <1>12, <1>13, <1>15, <1>16,
     <1>17, <1>18, <1>19, <1>20 DEF Next, Step

(* A kill is never forgotten.                                              *)
LEMMA KilledStays ==
    ASSUME TypeInv, Next, Killed
    PROVE  Killed'
<1>1. PICK t \in Thread : pending[t] = "kill"
  BY DEF Killed
<1>2. pending'[t] = "kill"
  <2> USE <1>1 DEF TypeInv, At, InProgram, Goto, local, monVars
  <2>1. CASE mon_try_enter \/ CallEnter \/ mon_enter \/ CallExit \/ mon_exit
    BY <2>1 DEF mon_try_enter, CallEnter, mon_enter, CallExit, mon_exit, Stop, Fail
  <2>2. CASE CallWait \/ wait \/ Woken \/ Ensure \/ Reenter \/ signal \/ broadcast
    BY <2>2 DEF CallWait, wait, Woken, Ensure, Reenter, signal, broadcast, Stop, Fail,
       mon_enter_for_cond
  <2>3. ASSUME NEW u \in Thread, Timeout(u) \/ Kill(u) \/ Schedule(u)
        PROVE  pending'[t] = "kill"
    BY <2>3 DEF Timeout, Kill, Schedule, Unwind
  <2>4. CASE Rescue \/ EndThread \/ Deadlock
    BY <2>4 DEF Rescue, EndThread, Deadlock
  <2> QED BY <2>1, <2>2, <2>3, <2>4 DEF Next, Step
<1> QED BY <1>2 DEF Killed

-----------------------------------------------------------------------------
(* Who owns the monitor.                                                   *)

LEMMA HoldingStep ==
    ASSUME TypeInv, Holding, Timing, TypeInv', Next
    PROVE  Holding'
<1> Nil \notin Thread
  BY MonitorAssumption
<1>0. SUFFICES ASSUME NEW t \in Thread
               PROVE  Holds(t)' /\ (mon_owner' = Nil => mon_count' = 0)
  BY MonitorAssumption DEF Holding
<1> Holds(t) /\ Holds(curr) /\ (mon_owner = Nil => mon_count = 0) /\ curr \in Thread
  BY DEF Holding, TypeInv
<1> /\ depth[t] \in Nat /\ depth[curr] \in Nat /\ mon_count \in Nat
    /\ pc[t] \in Pcs /\ pending[t] \in {"none", "raise", "kill"}
    /\ saved[t] \in Nat
  BY DEF TypeInv
<1> USE DEF Holds, InMonitor, InWait
<1>1. CASE mon_try_enter
  BY <1>1, SMTT(30) DEF mon_try_enter, TypeInv, At, InProgram
<1>2. CASE CallEnter
  BY <1>2 DEF CallEnter, TypeInv, At, InProgram, Goto, monitor
<1>3. CASE mon_enter
  <2>1. CASE mon_owner \notin {Nil, curr}
    <3>1. Stop({}, "enter", "run") /\ UNCHANGED <<mon_owner, mon_count, depth, saved>> /\ pc[curr] = "enter"
      BY <1>3, <2>1 DEF mon_enter, At
    <3> QED BY <2>1, <3>1 DEF Stop, Goto, TypeInv
  <2>2. CASE mon_owner \in {Nil, curr}
    BY <1>3, <2>2, SMTT(30) DEF mon_enter, TypeInv, At, Goto
  <2> QED BY <2>1, <2>2
<1>4. CASE CallExit
  BY <1>4 DEF CallExit, TypeInv, At, InProgram, Goto, monitor
<1>5. CASE mon_exit
  BY <1>5, SMTT(30) DEF mon_exit, TypeInv, At, Goto, Fail, mon_release, monitor
<1>6. CASE CallWait
  BY <1>6 DEF CallWait, TypeInv, At, InProgram, Goto, monitor
<1>7. CASE wait
  <2>1. pc[curr] = "wait" /\ mon_owner' = Nil /\ mon_count' = 0 /\ depth' = depth
    BY <1>7 DEF wait, At, mon_release
  <2>2. CASE Fail /\ saved' = saved
    BY <2>1, <2>2 DEF Fail, Goto, TypeInv
  <2>3. CASE Stop({NextIn}, "stop", "ensure") /\ saved' = [saved EXCEPT ![curr] = mon_count]
    <3>1. mon_count = depth[curr] /\ mon_count > 0
      BY <2>1
    <3> QED BY <2>1, <2>3, <3>1 DEF Stop, Goto, TypeInv
  <2> QED BY <1>7, <2>2, <2>3 DEF wait
<1>8. CASE Woken
  BY <1>8 DEF Woken, TypeInv, At, Goto, monitor
<1>9. CASE Ensure \/ Reenter
  <2>1. pc[curr] \in {"ensure", "reenter"} /\ depth' = depth /\ mon_enter_for_cond
    BY <1>9 DEF Ensure, Reenter, At
  <2>2. CASE mon_owner \notin {Nil, curr}
    <3>1. Stop({}, "reenter", "run") /\ UNCHANGED <<mon_owner, mon_count, saved>>
      BY <2>1, <2>2 DEF mon_enter_for_cond
    <3> QED BY <2>1, <2>2, <3>1 DEF Stop, Goto, TypeInv
  <2>3. CASE mon_owner \in {Nil, curr}
    BY <2>1, <2>3 DEF mon_enter_for_cond, TypeInv, Goto
  <2> QED BY <2>2, <2>3
<1>10. CASE signal
  BY <1>10 DEF signal, TypeInv, At, InProgram, Goto, Fail, monitor
<1>11. CASE broadcast
  BY <1>11, SMTT(30) DEF broadcast, TypeInv, At, InProgram, Goto, monitor
<1>12. ASSUME NEW u \in Thread, NEW tag \in {"raise", "kill"}, NEW r \in BOOLEAN, Unwind(u, tag, r),
              tag = "kill" \/ pc[u] # "exit"
       PROVE  Holds(t)' /\ (mon_owner' = Nil => mon_count' = 0)
  BY <1>12 DEF Unwind, TypeInv, monitor
<1>13. ASSUME NEW u \in Thread, Timeout(u)
       PROVE  Holds(t)' /\ (mon_owner' = Nil => mon_count' = 0)
  <2>1. pc[u] # "exit"
    BY <1>13 DEF Timeout, Timing
  <2>2. CASE Unwind(u, "raise", TRUE)
    BY <1>12, <2>1, <2>2
  <2>3. CASE UNCHANGED <<monitor, local>>
    BY <2>3 DEF monitor, local
  <2> QED BY <1>13, <2>2, <2>3 DEF Timeout
<1>14. ASSUME NEW u \in Thread, Kill(u)
       PROVE  Holds(t)' /\ (mon_owner' = Nil => mon_count' = 0)
  BY <1>12, <1>14 DEF Kill
<1>15. CASE UNCHANGED monVars
  BY <1>15 DEF monVars, monitor, local
<1>16. CASE Rescue
  BY <1>16 DEF Rescue, TypeInv, monitor, At
<1> QED
  BY <1>1, <1>2, <1>3, <1>4, <1>5, <1>6, <1>7, <1>8, <1>9, <1>10, <1>11, <1>13, <1>14,
     <1>15, <1>16 DEF Next, Step, Schedule, EndThread, Deadlock

-----------------------------------------------------------------------------
(* Whom mon_release wakes.                                                 *)

LEMMA NextIsHead ==
    ASSUME TypeInv
    PROVE  /\ mon_waiting_queue # << >> => NextIn = Head(mon_waiting_queue)
           /\ mon_waiting_queue = << >> /\ mon_entering_queue # << >> => NextIn = Head(mon_entering_queue)
           /\ mon_waiting_queue = << >> /\ mon_entering_queue = << >> => NextIn = Nil
<1> DEFINE p == mon_waiting_queue  q == mon_entering_queue  r == p \o q
<1>1. p \in Seq(Thread) /\ q \in Seq(Thread)
  BY DEF TypeInv
<1> HIDE DEF p, q
<1>2. p # << >> => r # << >> /\ Head(r) = Head(p)
  BY <1>1
<1>3. p = << >> => r = q
  BY <1>1
<1>4. NextIn = IF r = << >> THEN Nil ELSE Head(r)
  BY DEF NextIn, First, p, q
<1> HIDE DEF r
<1>5. /\ p # << >> => NextIn = Head(p)
      /\ p = << >> /\ q # << >> => NextIn = Head(q)
      /\ p = << >> /\ q = << >> => NextIn = Nil
  BY <1>2, <1>3, <1>4
<1> QED BY <1>5 DEF p, q

LEMMA NextSleeps ==
    ASSUME TypeInv, Queues
    PROVE  ~Dead(NextIn)
<1>1. CASE mon_waiting_queue # << >>
  <2>1. NextIn \in Thread /\ NextIn \in Elements(mon_waiting_queue)
    BY <1>1, NextIsHead, TailArray DEF TypeInv
  <2> QED BY <2>1 DEF Queues, Queued, Dead
<1>2. CASE mon_waiting_queue = << >> /\ mon_entering_queue # << >>
  <2>1. NextIn \in Thread /\ NextIn \in Elements(mon_entering_queue)
    BY <1>2, NextIsHead, TailArray DEF TypeInv
  <2> QED BY <2>1 DEF Queues, Queued, Dead
<1>3. CASE mon_waiting_queue = << >> /\ mon_entering_queue = << >>
  BY <1>3, NextIsHead DEF Dead
<1> QED BY <1>1, <1>2, <1>3

-----------------------------------------------------------------------------
(* Timers and sleep.                                                       *)

LEMMA TimingStep ==
    ASSUME MonitorInv, TypeInv', Next
    PROVE  Timing'
<1>0. SUFFICES ASSUME NEW t \in Thread PROVE Timing!(t)'
  BY DEF Timing
<1> Timing!(t) /\ Timing!(curr) /\ curr \in Thread /\ kills' = kills /\ TypeInv
  BY DEF Timing, TypeInv, MonitorInv, Next
<1>1. CASE mon_try_enter
  BY <1>1 DEF mon_try_enter
<1>2. CASE CallEnter
  BY <1>2 DEF CallEnter, TypeInv, At, InProgram, Goto
<1>3. CASE mon_enter
  <2>1. CASE Stop({}, "enter", "run")
    BY <1>3, <2>1, SMTT(30) DEF mon_enter, Stop, TypeInv, At, Goto
  <2>2. CASE Goto("run") /\ UNCHANGED pending
    BY <1>3, <2>2 DEF mon_enter, TypeInv, At, Goto
  <2> QED BY <1>3, <2>1, <2>2 DEF mon_enter
<1>4. CASE CallExit
  BY <1>4 DEF CallExit, TypeInv, At, Goto
<1>5. CASE mon_exit
  BY <1>5 DEF mon_exit, TypeInv, At, Goto, Fail
<1>6. CASE CallWait
  BY <1>6 DEF CallWait, create_timer, TypeInv, At, InProgram, Goto
<1>7. CASE wait
  <2>1. CASE Dead(NextIn) /\ Fail
    <3>1. Killed
      BY <2>1, NextSleeps DEF MonitorInv
    <3>2. kills
      BY <3>1 DEF MonitorInv, Timing, Killed
    <3> QED BY <1>7, <2>1, <3>2 DEF wait, Fail, Goto, TypeInv
  <2>2. CASE Stop({NextIn}, "stop", "ensure")
    BY <1>7, <2>2 DEF wait, Stop, TypeInv, At, Goto
  <2> QED BY <1>7, <2>1, <2>2 DEF wait
<1>8. CASE Woken
  BY <1>8 DEF Woken, TypeInv, At, Goto
<1>9. CASE Ensure \/ Reenter
  <2>1. ~timer'[curr] /\ (t # curr => timer'[t] = timer[t])
    BY <1>9 DEF Ensure, KillTimer, Reenter, TypeInv, At
  <2>2. CASE Stop({}, "reenter", "run")
    BY <2>1, <2>2, SMTT(30) DEF Stop, TypeInv, Goto
  <2>3. CASE Goto("run") /\ UNCHANGED pending
    BY <2>1, <2>3 DEF TypeInv, Goto
  <2> QED BY <1>9, <2>2, <2>3 DEF Ensure, Reenter, mon_enter_for_cond
<1>10. CASE signal
  BY <1>10 DEF signal, TypeInv, At, InProgram, Goto, Fail
<1>11. CASE broadcast
  BY <1>11 DEF broadcast, TypeInv, At, InProgram, Goto
<1>12. ASSUME NEW u \in Thread, Timeout(u) PROVE Timing!(t)'
  <2>1. CASE Unwind(u, "raise", TRUE)
    BY <1>12, <2>1 DEF Timeout, Unwind, TypeInv
  <2>2. CASE UNCHANGED local
    BY <1>12, <2>2 DEF Timeout, local, TypeInv
  <2> QED BY <1>12, <2>1, <2>2 DEF Timeout
<1>13. ASSUME NEW u \in Thread, Kill(u) PROVE Timing!(t)'
  BY <1>13 DEF Kill, Unwind, TypeInv
<1>14. CASE UNCHANGED monVars
  BY <1>14 DEF monVars, local
<1>15. CASE Rescue
  BY <1>15 DEF Rescue, TypeInv
<1> QED
  BY <1>1, <1>2, <1>3, <1>4, <1>5, <1>6, <1>7, <1>8, <1>9, <1>10, <1>11, <1>12, <1>13,
     <1>14, <1>15 DEF Next, Step, Schedule, EndThread, Deadlock

LEMMA SleepingStep ==
    ASSUME MonitorInv, TypeInv', Next
    PROVE  Sleeping'
<1>0. SUFFICES ASSUME NEW t \in Thread PROVE Sleeping!(t)'
  BY DEF Sleeping
<1> Sleeping!(t) /\ Sleeping!(curr) /\ curr \in Thread /\ TypeInv
  BY DEF Sleeping, TypeInv, MonitorInv
<1> USE DEF TypeInv
<1>1. CASE mon_try_enter
  BY <1>1 DEF mon_try_enter, Open, Awaken, At, InProgram
<1>2. CASE CallEnter
  BY <1>2 DEF CallEnter, At, InProgram, Goto, greenVars
<1>3. CASE mon_enter
  <2>1. CASE Stop({}, "enter", "run") /\ UNCHANGED depth
    BY <1>3, <2>1 DEF mon_enter, Stop, At, Goto, Awaken
  <2>2. CASE Open({}) /\ Goto("run") /\ depth' = [depth EXCEPT ![curr] = @ + 1]
    BY <1>3, <2>2 DEF mon_enter, At, Goto, Open, Awaken
  <2> QED BY <1>3, <2>1, <2>2 DEF mon_enter
<1>4. CASE CallExit
  BY <1>4 DEF CallExit, At, Goto, greenVars
<1>5. CASE mon_exit
  <2>1. /\ pc[curr] = "exit" /\ state[curr] = "awake" /\ pc' = [pc EXCEPT ![curr] = "run"]
        /\ depth' = [depth EXCEPT ![curr] = @ - 1]
    BY <1>5 DEF mon_exit, At, Goto, Fail
  <2>2. state' = state \/ \E W : state' = Awaken(W)
    BY <1>5 DEF mon_exit, Open, Fail, greenVars
  <2>3. state'[t] = state[t] \/ state'[t] = "awake"
    BY <2>2 DEF Awaken
  <2> QED BY <2>1, <2>3
<1>6. CASE CallWait
  BY <1>6 DEF CallWait, create_timer, At, InProgram, Goto, greenVars
<1>7. CASE wait
  <2>1. CASE Fail
    BY <1>7, <2>1 DEF wait, Fail, Goto, At
  <2>2. CASE Stop({NextIn}, "stop", "ensure")
    BY <1>7, <2>2 DEF wait, Stop, At, Goto, Awaken
  <2> QED BY <1>7, <2>1, <2>2 DEF wait
<1>8. CASE Woken
  BY <1>8 DEF Woken, At, Goto, greenVars
<1>9. CASE Ensure \/ Reenter
  <2>1. state[curr] = "awake" /\ depth' = depth
    BY <1>9 DEF Ensure, Reenter, At
  <2>2. CASE Stop({}, "reenter", "run")
    BY <2>1, <2>2 DEF Stop, Goto, Awaken
  <2>3. CASE Goto("run") /\ Open({})
    BY <2>1, <2>3 DEF Goto, Open, Awaken
  <2> QED BY <1>9, <2>2, <2>3 DEF Ensure, Reenter, mon_enter_for_cond
<1>10. CASE signal
  BY <1>10 DEF signal, At, InProgram, Goto, Fail, Open, Awaken
<1>11. CASE broadcast
  <2>1. CASE Open(Elements(waiters)) /\ UNCHANGED pc
    BY <1>11, <2>1 DEF broadcast, Open, Awaken
  <2>2. ASSUME NEW W, state' = Awaken(W), Goto("run")
        PROVE  Sleeping!(t)'
    BY <1>11, <2>2 DEF broadcast, At, InProgram, Goto, Awaken
  <2> QED BY <1>11, <2>1, <2>2 DEF broadcast
<1>12. ASSUME NEW u \in Thread, Timeout(u) PROVE Sleeping!(t)'
  <2>1. CASE Unwind(u, "raise", TRUE) /\ state' = [state EXCEPT ![u] = "awake"]
    BY <1>12, <2>1 DEF Unwind
  <2>2. CASE UNCHANGED <<local, state>>
    BY <1>12, <2>2 DEF local
  <2> QED BY <1>12, <2>1, <2>2 DEF Timeout
<1>13. ASSUME NEW u \in Thread, Kill(u) PROVE Sleeping!(t)'
  BY <1>13 DEF Kill, Unwind, Rouse
<1>14. ASSUME NEW u \in Thread, Schedule(u) PROVE Sleeping!(t)'
  BY <1>14 DEF Schedule, Switch, Awaken, monVars, local
<1>15. CASE EndThread
  BY <1>15 DEF EndThread, Die, Awaken, monVars, local, At
<1>16. CASE Rescue \/ Deadlock
  BY <1>16 DEF Rescue, Deadlock, greenVars, monVars, local
<1> QED
  BY <1>1, <1>2, <1>3, <1>4, <1>5, <1>6, <1>7, <1>8, <1>9, <1>10, <1>11, <1>12, <1>13,
     <1>14, <1>15, <1>16 DEF Next, Step

-----------------------------------------------------------------------------
(* The queues, and the monitor handed on.                                  *)

Wanting == {"enter", "reenter"}
InQueue(t) == state[t] = "stopped" /\ pc[t] \in Wanting

(* A step that neither puts a thread to sleep in a queue nor wakes one     *)
(* there, and does not free the monitor.                                   *)
LEMMA Undisturbed ==
    ASSUME TypeInv, Queues, Handing, UNCHANGED <<mon_entering_queue, mon_waiting_queue>>,
           \A t \in Thread : InQueue(t)' <=> InQueue(t),
           \A t \in Thread : InQueue(t) => pc'[t] = pc[t],
           mon_owner' = Nil => mon_owner = Nil /\ \A t \in Thread : Trying(t) => Trying(t)'
    PROVE  Queues' /\ Handing'
<1>1. \A t \in Thread, l \in Wanting : (state[t] = "stopped" /\ pc[t] = l)' <=> (state[t] = "stopped" /\ pc[t] = l)
  BY DEF InQueue
<1>2. Queued(mon_entering_queue, "enter")'
  BY <1>1 DEF Queues, Queued, Wanting
<1>3. Queued(mon_waiting_queue, "reenter")'
  BY <1>1 DEF Queues, Queued, Wanting
<1>4. Handing'
  BY DEF Handing
<1> QED BY <1>2, <1>3, <1>4 DEF Queues

(* mon_release: the first of a queue leaves it, awake.                     *)
LEMMA Released ==
    ASSUME TypeInv, Queues, ShiftOne,
           state[curr] = "awake", pc[curr] \notin Wanting, pc'[curr] \notin Wanting,
           \A t \in Thread \ {curr} : pc'[t] = pc[t],
           \A t \in Thread \ {curr} : state'[t] = IF t = NextIn THEN "awake" ELSE state[t]
    PROVE  Queues' /\ Handing'
<1> DEFINE w == mon_waiting_queue  e == mon_entering_queue
<1>1. /\ w \in Seq(Thread) /\ e \in Seq(Thread) /\ Distinct(w) /\ Distinct(e) /\ curr \in Thread
      /\ \A t \in Thread : t \in Elements(w) <=> state[t] = "stopped" /\ pc[t] = "reenter"
      /\ \A t \in Thread : t \in Elements(e) <=> state[t] = "stopped" /\ pc[t] = "enter"
  BY DEF TypeInv, Queues, Queued
<1>2. CASE w # << >>
  <2>1. w' = Tail(w) /\ e' = e /\ NextIn = Head(w)
    BY <1>2, NextIsHead DEF ShiftOne, Shifted
  <2>2. /\ NextIn \in Thread /\ Elements(w) = Elements(w') \cup {NextIn}
        /\ Distinct(w') /\ NextIn \notin Elements(w')
    BY <1>1, <1>2, <2>1, TailArray
  <2> HIDE DEF w, e
  <2>3. state[NextIn] = "stopped" /\ pc[NextIn] = "reenter"
    BY <1>1, <2>2
  <2>4. Handing'
    <3>1. \E u \in Thread : u = NextIn
      BY <2>2
    <3>2. PICK u \in Thread : u = NextIn
      BY <3>1
    <3>3. Trying(u)'
      BY <2>2, <2>3, <3>2 DEF Trying
    <3> QED BY <3>3 DEF Handing
  <2>5. \A t \in Thread : t \in Elements(w') <=> state'[t] = "stopped" /\ pc'[t] = "reenter"
    BY <1>1, <2>2, <2>3 DEF Wanting
  <2>6. \A t \in Thread : t \in Elements(e') <=> state'[t] = "stopped" /\ pc'[t] = "enter"
    BY <1>1, <2>1, <2>2, <2>3 DEF Wanting
  <2> QED BY <1>1, <2>1, <2>2, <2>4, <2>5, <2>6 DEF Queues, Queued, w, e
<1>3. CASE w = << >> /\ e # << >>
  <2>1. w' = << >> /\ e' = Tail(e) /\ NextIn = Head(e)
    BY <1>3, NextIsHead DEF ShiftOne, Shifted
  <2>2. /\ NextIn \in Thread /\ Elements(e) = Elements(e') \cup {NextIn}
        /\ Distinct(e') /\ NextIn \notin Elements(e')
    BY <1>1, <1>3, <2>1, TailArray
  <2> HIDE DEF w, e
  <2>3. state[NextIn] = "stopped" /\ pc[NextIn] = "enter"
    BY <1>1, <2>2
  <2>4. Handing'
    <3>1. \E u \in Thread : u = NextIn
      BY <2>2
    <3>2. PICK u \in Thread : u = NextIn
      BY <3>1
    <3>3. Trying(u)'
      BY <2>2, <2>3, <3>2 DEF Trying
    <3> QED BY <3>3 DEF Handing
  <2>5. \A t \in Thread : t \in Elements(w') <=> state'[t] = "stopped" /\ pc'[t] = "reenter"
    BY <1>1, <1>3, <2>1, <2>2, <2>3 DEF Wanting
  <2>6. \A t \in Thread : t \in Elements(e') <=> state'[t] = "stopped" /\ pc'[t] = "enter"
    BY <1>1, <2>1, <2>2, <2>3 DEF Wanting
  <2> QED BY <1>1, <1>3, <2>1, <2>2, <2>4, <2>5, <2>6 DEF Queues, Queued, w, e
<1>4. CASE w = << >> /\ e = << >>
  <2>1. w' = << >> /\ e' = << >> /\ NextIn = Nil
    BY <1>4, NextIsHead DEF ShiftOne, Shifted
  <2> HIDE DEF w, e
  <2>2. Nil \notin Thread /\ Elements(w) = {} /\ Elements(e) = {} /\ w' = w /\ e' = e
    BY <1>4, <2>1, MonitorAssumption, EmptyArray
  <2>3. \A t \in Thread : t \notin Elements(w') /\ t \notin Elements(e')
    BY <2>2
  <2>4. \A t \in Thread : ~(state'[t] = "stopped" /\ pc'[t] \in {"enter", "reenter"})
    BY <1>1, <2>2 DEF Wanting
  <2> QED BY <1>1, <2>1, <2>2, <2>3, <2>4 DEF Queues, Queued, Handing, w, e
<1> QED BY <1>2, <1>3, <1>4

LEMMA HeadIsIn ==
    ASSUME NEW q \in Seq(Thread), q # << >>
    PROVE  Head(q) \in Elements(q)
BY TailArray

LEMMA StillWaiting ==
    ASSUME Waiting, Distinct(waiters'), Elements(waiters') \subseteq Elements(waiters),
           \A t \in Elements(waiters') :
               pc'[t] = pc[t] /\ state'[t] = state[t] /\ (timer'[t] => timer[t])
    PROVE  Waiting'
BY DEF Waiting

LEMMA WaitersSleep ==
    ASSUME TypeInv, Waiting
    PROVE  \A t \in Elements(waiters) :
               t \in Thread /\ (pc[t] = "stop" \/ pc[t] = "ensure") /\ state[t] \in {"stopped", "awake", "dead"}
BY DEF TypeInv, Waiting, Elements

(* The owner of the monitor is alive: who finds the monitor taken is not   *)
(* the only thread.                                                        *)
LEMMA OwnerAlive ==
    ASSUME MonitorInv, ~Killed, mon_owner \notin {Nil, curr}
    PROVE  ~Alone
<1>1. mon_owner \in Thread /\ Holds(mon_owner) /\ pending[mon_owner] # "kill" /\ Sleeping!(mon_owner)
  BY DEF MonitorInv, TypeInv, Holding, Killed, Sleeping
<1>2. state[mon_owner] # "dead" /\ state[mon_owner] \in {"awake", "stopped", "dead"}
  BY <1>1 DEF MonitorInv, TypeInv, Holds
<1> QED BY <1>1, <1>2 DEF Alone, OnlyThread

LEMMA NextNotWaiting ==
    ASSUME TypeInv, Queues, Waiting
    PROVE  NextIn \notin Elements(waiters)
<1>1. ASSUME NextIn \in Elements(waiters) PROVE FALSE
  <2>1. NextIn \in Thread /\ NextIn # Nil /\ (pc[NextIn] = "stop" \/ pc[NextIn] = "ensure")
    BY <1>1, WaitersSleep, MonitorAssumption
  <2>2. NextIn \in Elements(mon_waiting_queue) \/ NextIn \in Elements(mon_entering_queue)
    <3>1. mon_waiting_queue \in Seq(Thread) /\ mon_entering_queue \in Seq(Thread)
      BY DEF TypeInv
    <3>2. CASE mon_waiting_queue # << >>
      <4>1. Head(mon_waiting_queue) \in Elements(mon_waiting_queue)
        BY <3>1, <3>2, TailArray
      <4> QED BY <3>2, <4>1, NextIsHead
    <3>3. CASE mon_waiting_queue = << >> /\ mon_entering_queue # << >>
      <4>1. Head(mon_entering_queue) \in Elements(mon_entering_queue)
        BY <3>1, <3>3, TailArray
      <4> QED BY <3>3, <4>1, NextIsHead
    <3> QED BY <2>1, <3>2, <3>3, NextIsHead
  <2> QED BY <2>1, <2>2 DEF Queues, Queued
<1> QED BY <1>1

LEMMA ListsStep ==
    ASSUME MonitorInv, TypeInv', ~Killed, ~Killed', Next
    PROVE  Queues' /\ Waiting' /\ Handing'
<1> /\ TypeInv /\ Holding /\ Timing /\ Sleeping /\ Queues /\ Waiting /\ Handing
    /\ curr \in Thread /\ Nil \notin Thread
  BY MonitorAssumption DEF MonitorInv, TypeInv
<1> DEFINE SameLists == /\ UNCHANGED <<mon_entering_queue, mon_waiting_queue>>
                        /\ \A t \in Thread : InQueue(t)' <=> InQueue(t)
                        /\ \A t \in Thread : InQueue(t) => pc'[t] = pc[t]
                        /\ mon_owner' = Nil => mon_owner = Nil /\ \A t \in Thread : Trying(t) => Trying(t)'
           SameWaiters == \A t \in Elements(waiters) :
                             pc'[t] = pc[t] /\ state'[t] = state[t] /\ (timer'[t] => timer[t])
<1>a. SameLists => Queues' /\ Handing'
  BY Undisturbed
<1>b. SameWaiters /\ waiters' = waiters => Waiting'
  BY StillWaiting DEF Waiting
<1>c. \A t \in Elements(waiters) : t \in Thread /\ pc[t] \in {"stop", "ensure"}
  BY WaitersSleep
<1>1. CASE mon_try_enter
  <2>1. \A t \in Thread : pc'[t] = pc[t] /\ state'[t] = state[t] /\ timer'[t] = timer[t]
    BY <1>1 DEF mon_try_enter, Open, Awaken
  <2>2. SameLists
    BY <1>1, <2>1 DEF mon_try_enter, InQueue, Trying
  <2>3. SameWaiters /\ waiters' = waiters
    BY <1>1, <1>c, <2>1 DEF mon_try_enter
  <2> QED BY <1>a, <1>b, <2>2, <2>3
<1>2. CASE CallEnter \/ CallExit \/ Rescue
  <2>1. /\ state' = state /\ timer' = timer /\ waiters' = waiters /\ mon_owner' = mon_owner
        /\ UNCHANGED <<mon_entering_queue, mon_waiting_queue>> /\ state[curr] = "awake" /\ pc[curr] = "run"
        /\ \A t \in Thread \ {curr} : pc'[t] = pc[t]
    BY <1>2 DEF CallEnter, CallExit, Rescue, greenVars, monitor, At, InProgram, Goto, TypeInv
  <2>2. SameLists
    BY <2>1 DEF InQueue, Trying, Wanting
  <2>3. SameWaiters
    BY <2>1, <1>c
  <2> QED BY <1>a, <1>b, <2>1, <2>2, <2>3
<1>3. CASE mon_enter
  <2>0. pc[curr] = "enter" /\ state[curr] = "awake" /\ curr \notin Elements(mon_entering_queue)
        /\ UNCHANGED <<mon_waiting_queue, waiters, timer>>
    BY <1>3 DEF mon_enter, At, Queues, Queued
  <2>1. CASE mon_owner \notin {Nil, curr}
    <3>1. /\ state' = [Awaken({}) EXCEPT ![curr] = "stopped"] /\ pc' = [pc EXCEPT ![curr] = "enter"]
          /\ mon_entering_queue' = Append(mon_entering_queue, curr) /\ mon_owner' = mon_owner
      BY <1>3, <2>1, OwnerAlive DEF mon_enter, Stop, Goto
    <3>2. \A t \in Thread : state'[t] = (IF t = curr THEN "stopped" ELSE state[t]) /\ pc'[t] = pc[t]
      BY <2>0, <3>1 DEF Awaken, TypeInv
    <3>3. /\ Elements(mon_entering_queue') = Elements(mon_entering_queue) \cup {curr}
          /\ Distinct(mon_entering_queue')
      BY <2>0, <3>1, AppendArray DEF TypeInv, Queues, Queued
    <3>4. Queues'
      BY <2>0, <3>2, <3>3 DEF Queues, Queued
    <3>5. Waiting'
      BY <1>b, <1>c, <2>0, <3>2
    <3> QED BY <2>1, <3>1, <3>4, <3>5 DEF Handing
  <2>2. CASE mon_owner \in {Nil, curr}
    <3>1. /\ state' = Awaken({}) /\ pc' = [pc EXCEPT ![curr] = "run"] /\ mon_owner' = curr
          /\ mon_entering_queue' = mon_entering_queue
      BY <1>3, <2>2 DEF mon_enter, Open, Goto
    <3>2. \A t \in Thread : state'[t] = state[t] /\ pc'[t] = IF t = curr THEN "run" ELSE pc[t]
      BY <3>1 DEF Awaken, TypeInv
    <3>3. SameLists
      BY <2>0, <3>1, <3>2 DEF InQueue, Wanting
    <3>4. SameWaiters
      BY <1>c, <2>0, <3>2
    <3> QED BY <1>a, <1>b, <2>0, <3>3, <3>4
  <2> QED BY <2>1, <2>2
<1>4. CASE mon_exit
  <2>1. /\ state[curr] = "awake" /\ pc[curr] = "exit" /\ pc' = [pc EXCEPT ![curr] = "run"]
        /\ UNCHANGED <<waiters, timer>>
    BY <1>4 DEF mon_exit, At, Goto, Fail
  <2>2. \A t \in Thread : pc'[t] = IF t = curr THEN "run" ELSE pc[t]
    BY <2>1 DEF TypeInv
  <2>3. CASE mon_owner # curr \/ mon_count > 1
    <3>1. \A t \in Thread : state'[t] = state[t]
      BY <1>4, <2>3 DEF mon_exit, Open, Awaken, greenVars
    <3>2. SameLists
      BY <1>4, <2>1, <2>2, <2>3, <3>1 DEF mon_exit, monitor, InQueue, Trying, Wanting
    <3>3. SameWaiters
      BY <1>c, <2>1, <2>2, <3>1
    <3> QED BY <1>a, <1>b, <2>1, <3>2, <3>3
  <2>4. CASE mon_owner = curr /\ mon_count = 1
    <3>1. state' = Awaken({NextIn}) /\ ShiftOne
      BY <1>4, <2>4, NextSleeps DEF mon_exit, Open, mon_release
    <3>2. \A t \in Thread : state'[t] = IF t = NextIn THEN "awake" ELSE state[t]
      BY <3>1 DEF Awaken
    <3>3. Queues' /\ Handing'
      BY <2>1, <2>2, <3>1, <3>2, Released DEF Wanting
    <3>4. NextIn \notin Elements(waiters)
      BY NextNotWaiting
    <3>5. SameWaiters
      BY <1>c, <2>1, <2>2, <3>2, <3>4
    <3> QED BY <1>b, <2>1, <3>3, <3>5
  <2>5. mon_owner = curr => mon_count > 0
    BY DEF Holding, Holds
  <2> QED BY <2>3, <2>4, <2>5 DEF TypeInv
<1>5. CASE CallWait
  <2>1. /\ state' = state /\ waiters' = waiters /\ mon_owner' = mon_owner
        /\ UNCHANGED <<mon_entering_queue, mon_waiting_queue>> /\ state[curr] = "awake" /\ pc[curr] = "run"
        /\ \A t \in Thread \ {curr} : pc'[t] = pc[t] /\ timer'[t] = timer[t]
    BY <1>5 DEF CallWait, create_timer, greenVars, monitor, At, InProgram, Goto, TypeInv
  <2>2. pc'[curr] = "wait"
    BY <1>5 DEF CallWait, Goto, TypeInv
  <2>3. SameLists
    BY <2>1, <2>2 DEF InQueue, Trying, Wanting
  <2>4. SameWaiters
    BY <2>1, <1>c
  <2> QED BY <1>a, <1>b, <2>1, <2>3, <2>4
<1>6. CASE wait
  <2>1. /\ state[curr] = "awake" /\ pc[curr] = "wait" /\ timer' = timer /\ ShiftOne
        /\ waiters' = Append(waiters, curr) /\ Stop({NextIn}, "stop", "ensure")
    BY <1>6, NextSleeps DEF wait, At, mon_release
  <2>2. curr \notin Elements(waiters)
    BY <1>c, <2>1
  <2>3. Elements(waiters') = Elements(waiters) \cup {curr} /\ Distinct(waiters')
    BY <2>1, <2>2, AppendArray DEF TypeInv, Waiting
  <2>4. CASE ~Alone
    <3>1. state' = [Awaken({NextIn}) EXCEPT ![curr] = "stopped"] /\ pc' = [pc EXCEPT ![curr] = "stop"]
      BY <2>1, <2>4 DEF Stop, Goto
    <3>2. /\ \A t \in Thread \ {curr} : /\ pc'[t] = pc[t]
                                        /\ state'[t] = IF t = NextIn THEN "awake" ELSE state[t]
          /\ pc'[curr] = "stop" /\ state'[curr] = "stopped"
      BY <3>1 DEF Awaken, TypeInv
    <3>3. Queues' /\ Handing'
      BY <2>1, <3>2, Released DEF Wanting
    <3>4. Waiting'
      BY <1>c, <2>1, <2>2, <2>3, <3>2, NextNotWaiting DEF Waiting
    <3> QED BY <3>3, <3>4
  <2>5. CASE Alone
    <3>1. state' = state /\ pc' = [pc EXCEPT ![curr] = "ensure"] /\ ~timer[curr]
      BY <2>1, <2>5 DEF Stop, Goto, Alone
    <3>2. /\ \A t \in Thread \ {curr} : pc'[t] = pc[t] /\ state'[t] = state[t]
          /\ pc'[curr] = "ensure"
      BY <3>1 DEF TypeInv
    <3>3. \A t \in Thread \ {curr} : t # NextIn
      <4>1. ASSUME NEW t \in Thread \ {curr}, t = NextIn PROVE FALSE
        <5>1. t \in Elements(mon_waiting_queue) \/ t \in Elements(mon_entering_queue)
          BY <4>1, NextIsHead, HeadIsIn, ZenonT(60) DEF TypeInv
        <5>2. state[t] = "stopped"
          BY <5>1 DEF Queues, Queued
        <5> QED BY <2>5, <5>2 DEF Alone, OnlyThread
      <4> QED BY <4>1
    <3>4. Queues' /\ Handing'
      BY <2>1, <3>2, <3>3, Released DEF Wanting
    <3>5. Waiting'
      BY <1>c, <2>1, <2>2, <2>3, <3>1, <3>2 DEF Waiting
    <3> QED BY <3>4, <3>5
  <2> QED BY <2>4, <2>5
<1>7. CASE Woken
  <2>1. /\ state' = state /\ timer' = timer /\ waiters' = waiters /\ mon_owner' = mon_owner
        /\ UNCHANGED <<mon_entering_queue, mon_waiting_queue>> /\ state[curr] = "awake" /\ pc[curr] = "stop"
        /\ \A t \in Thread \ {curr} : pc'[t] = pc[t]
        /\ pc'[curr] = "ensure"
    BY <1>7 DEF Woken, greenVars, monitor, At, Goto, TypeInv
  <2>2. SameLists
    BY <2>1 DEF InQueue, Trying, Wanting
  <2>3. curr \notin Elements(waiters)
    BY <2>1 DEF Waiting
  <2>4. SameWaiters
    BY <2>1, <2>3, <1>c
  <2> QED BY <1>a, <1>b, <2>1, <2>2, <2>4
<1>8. CASE Ensure \/ Reenter
  <2>1. /\ state[curr] = "awake" /\ mon_entering_queue' = mon_entering_queue /\ mon_enter_for_cond
        /\ pc[curr] \in {"ensure", "reenter"}
    BY <1>8 DEF Ensure, Reenter, At
  <2>2. /\ Distinct(waiters') /\ Elements(waiters') \subseteq Elements(waiters) \ {curr}
        /\ \A t \in Thread : timer'[t] => timer[t]
    <3>1. CASE Ensure
      <4>1. waiters' = Filter(waiters, Thread \ {curr}) /\ timer' = [timer EXCEPT ![curr] = FALSE]
        BY <3>1 DEF Ensure, KillTimer, Without
      <4>2. Elements(waiters') = Elements(waiters) \cap (Thread \ {curr}) /\ Distinct(waiters')
        BY <4>1, FilterArray, SMTT(30) DEF TypeInv, Waiting
      <4> QED BY <4>1, <4>2 DEF TypeInv
    <3>2. CASE Reenter
      <4>1. waiters' = waiters /\ timer' = timer /\ pc[curr] = "reenter"
        BY <3>2 DEF Reenter, At
      <4> QED BY <1>c, <4>1 DEF Waiting
    <3> QED BY <1>8, <3>1, <3>2
  <2>3. (\A t \in Thread \ {curr} : pc'[t] = pc[t] /\ state'[t] = state[t]) => Waiting'
    BY <1>c, <2>2, StillWaiting
  <2>4. CASE mon_owner \notin {Nil, curr}
    <3>1. /\ state' = [Awaken({}) EXCEPT ![curr] = "stopped"] /\ pc' = [pc EXCEPT ![curr] = "reenter"]
          /\ mon_waiting_queue' = Append(mon_waiting_queue, curr) /\ mon_owner' = mon_owner
      BY <2>1, <2>4, OwnerAlive DEF mon_enter_for_cond, Stop, Goto
    <3>2. \A t \in Thread : /\ state'[t] = IF t = curr THEN "stopped" ELSE state[t]
                            /\ pc'[t] = IF t = curr THEN "reenter" ELSE pc[t]
      BY <3>1 DEF Awaken, TypeInv
    <3>3. /\ Elements(mon_waiting_queue') = Elements(mon_waiting_queue) \cup {curr}
          /\ Distinct(mon_waiting_queue')
      BY <2>1, <3>1, AppendArray DEF TypeInv, Queues, Queued
    <3>4. Queues'
      BY <2>1, <3>2, <3>3 DEF Queues, Queued
    <3> QED BY <2>3, <2>4, <3>1, <3>2, <3>4 DEF Handing
  <2>5. CASE mon_owner \in {Nil, curr}
    <3>1. /\ state' = Awaken({}) /\ pc' = [pc EXCEPT ![curr] = "run"] /\ mon_owner' = curr
          /\ mon_waiting_queue' = mon_waiting_queue
      BY <2>1, <2>5 DEF mon_enter_for_cond, Open, Goto
    <3>2. \A t \in Thread : state'[t] = state[t] /\ pc'[t] = IF t = curr THEN "run" ELSE pc[t]
      BY <3>1 DEF Awaken, TypeInv
    <3>3. SameLists
      BY <2>1, <3>1, <3>2 DEF InQueue, Wanting
    <3> QED BY <1>a, <2>3, <3>2, <3>3
  <2> QED BY <2>4, <2>5
<1>9. CASE signal
  <2>1. ~Dead(First(waiters))
    <3>1. waiters # << >> => Head(waiters) \in Elements(waiters)
      BY HeadIsIn DEF TypeInv
    <3> QED BY <3>1, <1>c DEF First, Dead, Sleeping
  <2>2. /\ state' = Awaken({First(waiters)}) /\ pc' = pc /\ waiters' = Shifted(waiters)
        /\ UNCHANGED <<timer, mon_owner, mon_entering_queue, mon_waiting_queue>>
    BY <1>9, <2>1 DEF signal, Open, monitor
  <2>3. CASE waiters = << >>
    <3>1. waiters' = waiters /\ \A t \in Thread : state'[t] = state[t]
      BY <2>2, <2>3 DEF Shifted, First, Awaken
    <3>2. SameLists
      BY <2>2, <3>1 DEF InQueue, Trying
    <3> QED BY <1>a, <1>b, <1>c, <2>2, <3>1, <3>2
  <2>4. CASE waiters # << >>
    <3>1. /\ Elements(waiters) = Elements(waiters') \cup {First(waiters)} /\ Distinct(waiters')
          /\ First(waiters) \notin Elements(waiters')
      BY <2>2, <2>4, TailArray DEF Shifted, First, TypeInv, Waiting
    <3>2. \A t \in Thread : state'[t] = IF t = First(waiters) THEN "awake" ELSE state[t]
      BY <2>2 DEF Awaken
    <3>3. SameLists
      BY <1>c, <2>2, <3>1, <3>2 DEF InQueue, Trying, Wanting
    <3>4. Waiting'
      BY <1>c, <2>2, <3>1, <3>2, StillWaiting
    <3> QED BY <1>a, <3>3, <3>4
  <2> QED BY <2>3, <2>4
<1>10. CASE broadcast
  <2>1. \A t \in Elements(waiters) : ~Dead(t)
    BY <1>c DEF Dead, Sleeping
  <2>2. \A i \in 1 .. Len(waiters) : waiters[i] \in Elements(waiters)
    BY DEF Elements
  <2>3. /\ state' = Awaken(Elements(waiters)) /\ pc' = pc /\ waiters' = << >>
        /\ UNCHANGED <<timer, mon_owner, mon_entering_queue, mon_waiting_queue>>
    BY <1>10, <2>1, <2>2 DEF broadcast, Open, monitor
  <2>4. \A t \in Thread : state'[t] = IF t \in Elements(waiters) THEN "awake" ELSE state[t]
    BY <2>3 DEF Awaken
  <2>5. SameLists
    BY <1>c, <2>3, <2>4 DEF InQueue, Trying, Wanting
  <2>6. Waiting'
    BY <2>3, EmptyArray DEF Waiting
  <2> QED BY <1>a, <2>5, <2>6
<1>11. ASSUME NEW u \in Thread, Timeout(u)
       PROVE  Queues' /\ Waiting' /\ Handing'
  <2>1. /\ timer[u] /\ pc[u] \in {"wait", "stop", "ensure"} /\ state[u] # "dead"
        /\ timer' = [timer EXCEPT ![u] = FALSE]
    BY <1>11 DEF Timeout, Timing, Sleeping
  <2>2. /\ state' = [state EXCEPT ![u] = "awake"] /\ Unwind(u, "raise", TRUE)
    BY <1>11, <2>1 DEF Timeout
  <2>3. /\ \A t \in Thread \ {u} : pc'[t] = pc[t] /\ state'[t] = state[t] /\ timer'[t] = timer[t]
        /\ pc'[u] = (IF pc[u] = "stop" THEN "ensure" ELSE "run") /\ ~timer'[u]
        /\ UNCHANGED <<mon_owner, mon_entering_queue, mon_waiting_queue, waiters>>
    BY <2>1, <2>2 DEF Unwind, TypeInv, monitor
  <2>4. SameLists
    BY <2>1, <2>3 DEF InQueue, Trying, Wanting
  <2>5. u \in Elements(waiters) => pc[u] = "stop"
    BY <2>1 DEF Waiting
  <2>6. Waiting'
    BY <1>c, <2>3, <2>5 DEF Waiting
  <2> QED BY <1>a, <2>4, <2>6
<1>12. ASSUME NEW u \in Thread, Kill(u) PROVE FALSE
  <2>1. pending'[u] = "kill"
    BY <1>12 DEF Kill, Unwind, TypeInv
  <2> QED BY <2>1 DEF Killed
<1>13. CASE (\E u \in Thread : Schedule(u)) \/ Deadlock
  <2>1. UNCHANGED monVars /\ \A t \in Thread : state'[t] = state[t]
    BY <1>13 DEF Schedule, Switch, Awaken, Deadlock
  <2>2. SameLists /\ SameWaiters /\ waiters' = waiters
    BY <1>c, <2>1 DEF monVars, monitor, local, InQueue, Trying
  <2> QED BY <1>a, <1>b, <2>2
<1>14. CASE EndThread
  <2>1. /\ UNCHANGED monVars /\ pc[curr] = "run"
        /\ \A t \in Thread \ {curr} : state'[t] = state[t]
    BY <1>14 DEF EndThread, Die, Awaken, At
  <2>2. SameLists /\ SameWaiters /\ waiters' = waiters
    BY <1>c, <2>1 DEF monVars, monitor, local, InQueue, Trying, Wanting
  <2> QED BY <1>a, <1>b, <2>2
<1> QED
  BY <1>1, <1>2, <1>3, <1>4, <1>5, <1>6, <1>7, <1>8, <1>9, <1>10, <1>11, <1>12, <1>13, <1>14
  DEF Next, Step

-----------------------------------------------------------------------------
(* The invariant, and what it says of the monitor.                         *)

LEMMA InitInv == ASSUME Init PROVE MonitorInv
<1>0. main_thread \in Thread /\ Nil \notin Thread
  BY MonitorAssumption
<1>1. TypeInv
  BY <1>0 DEF Init, TypeInv, Pcs
<1>2. Holding /\ Timing /\ Sleeping
  BY <1>0 DEF Init, Holding, Holds, InWait, InMonitor, Timing, Sleeping
<1>3. Queues /\ Waiting /\ Handing
  BY EmptyArray DEF Init, Queues, Queued, Waiting, Handing
<1> QED BY <1>1, <1>2, <1>3 DEF MonitorInv

LEMMA Invariant == Spec => []MonitorInv
<1>1. ASSUME MonitorInv, [Next]_vars PROVE MonitorInv'
  <2>1. CASE Next
    <3>1. TypeInv'
      BY <1>1, <2>1, TypeStep DEF MonitorInv
    <3>2. Holding' /\ Timing' /\ Sleeping'
      BY <1>1, <2>1, <3>1, HoldingStep, TimingStep, SleepingStep DEF MonitorInv
    <3>3. ~Killed' => Queues' /\ Waiting' /\ Handing'
      BY <1>1, <2>1, <3>1, ListsStep, KilledStays DEF MonitorInv
    <3> QED BY <3>1, <3>2, <3>3 DEF MonitorInv
  <2>2. CASE UNCHANGED vars
    <3> USE <2>2 DEF vars, greenVars, monVars, monitor, local
    <3>1. TypeInv'
      BY <1>1 DEF MonitorInv, TypeInv
    <3>2. Holding' /\ Timing' /\ Sleeping'
      BY <1>1 DEF MonitorInv, Holding, Holds, Timing, Sleeping
    <3>3. ~Killed' => Queues' /\ Waiting' /\ Handing'
      BY <1>1 DEF MonitorInv, Killed, Queues, Queued, Waiting, Handing, Trying
    <3> QED BY <3>1, <3>2, <3>3 DEF MonitorInv
  <2> QED BY <1>1, <2>1, <2>2
<1> QED BY <1>1, InitInv, PTL DEF Spec

(* Inside its blocks a thread owns the monitor as many times as it has     *)
(* entered, whatever exceptions, timeouts and kills have left mon_enter,   *)
(* mon_exit and wait half way.                                             *)
THEOREM BlockOwnsMonitor == Spec => []MonitorHeld
<1>1. ASSUME MonitorInv PROVE MonitorHeld
  BY <1>1 DEF MonitorInv, TypeInv, Holding, Holds, InMonitor, MonitorHeld
<1> QED BY <1>1, Invariant, PTL

(* Unless a thread is killed, mon_release never leaves the monitor free    *)
(* with everybody asleep in its queues.                                    *)
THEOREM MonitorHandedOn == Spec => []HandedOn
<1>1. ASSUME MonitorInv PROVE HandedOn
  <2>1. SUFFICES ASSUME ~Killed, NEW t \in Thread, state[t] = "stopped"
                 PROVE  /\ pc[t] = "enter" => t \in Elements(mon_entering_queue)
                        /\ pc[t] = "reenter" => t \in Elements(mon_waiting_queue)
                        /\ pc[t] \in {"enter", "reenter"} /\ mon_owner = Nil =>
                             \E u \in Thread : state[u] = "awake" /\ pc[u] \in {"enter", "reenter"}
    BY DEF HandedOn
  <2>2. /\ pc[t] = "enter" => t \in Elements(mon_entering_queue)
        /\ pc[t] = "reenter" => t \in Elements(mon_waiting_queue)
    BY <1>1, <2>1 DEF MonitorInv, Queues, Queued
  <2>3. ASSUME pc[t] \in {"enter", "reenter"}
        PROVE  mon_entering_queue # << >> \/ mon_waiting_queue # << >>
    BY <2>2, <2>3, EmptyArray
  <2> QED BY <1>1, <2>1, <2>2, <2>3 DEF MonitorInv, Handing, Trying
<1> QED BY <1>1, Invariant, PTL

(* No timer outlives the wait it was made for.                             *)
THEOREM TimersConfined == Spec => []TimerConfined
<1>1. ASSUME MonitorInv PROVE TimerConfined
  BY <1>1 DEF MonitorInv, Timing, TimerConfined
<1> QED BY <1>1, Invariant, PTL
=============================================================================
