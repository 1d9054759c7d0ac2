--------------------------- MODULE SchedulerProofs ---------------------------
(***************************************************************************)
(* Theorems about Scheduler, for every number of tasks, every tick width   *)
(* and every bound on the clock.                                           *)
(***************************************************************************)
EXTENDS Scheduler, TLAPS

(* The remainder of a number below twice the divisor.                      *)
LEMMA ModBelowTwice ==
    \A n \in Nat \ {0} : \A x \in 0 .. 2 * n - 1 :
        x % n = IF x < n THEN x ELSE x - n
  OBVIOUS

LEMMA ModRange ==
    \A n \in Nat \ {0} : \A x \in Nat : x % n \in 0 .. n - 1
  OBVIOUS

-----------------------------------------------------------------------------
(* The inductive invariant, part by part.                                  *)

(* The tasks that exist are those below s_count.                           *)
CreatedInv == \A t \in TaskId : state[t] = "DEAD" <=> t >= s_count

CurrentInv ==
    /\ pc = "boot" => s_current = 0
    /\ pc \in {"task", "wake", "spin"} => s_current < s_count
    /\ pc = "halt" => s_count = 0

(* Only the current task can be RUNNING, and it is while its code executes.*)
RunnerInv ==
    /\ \A t \in TaskId : state[t] = "RUNNING" => t = s_current /\ pc \in {"task", "wake"}
    /\ pc = "task" => state[s_current] = "RUNNING"

IndexInv ==
    /\ pc = "wake" => i <= s_count
    /\ pc = "spin" => i < s_count

(* Every task that is not executing has a frame to be resumed from.        *)
FrameInv ==
    /\ \A t \in TaskId : t < s_count /\ (pc = "boot" \/ t # s_current)
                            => sp[t] \in {"entry", "saved"}
    /\ ResumesSavedFrame

(* The number of steps from c to t in round-robin order.                   *)
Dist(c, t) == IF t > c THEN t - c ELSE t - c + s_count

LEMMA DistIsInt ==
    ASSUME NEW c \in Int, NEW t \in Int, s_count \in Int
    PROVE  Dist(c, t) \in Int
  BY DEF Dist

(* The dispatches a READY task has seen and those it can still see before  *)
(* its turn comes add up to at most s_count.                               *)
BypassInv ==
    \A t \in TaskId :
        IF state[t] = "READY" THEN passed[t] + Dist(s_current, t) <= s_count
                              ELSE passed[t] = 0

IInv ==
    /\ TypeOK
    /\ CreatedInv
    /\ CurrentInv
    /\ RunnerInv
    /\ IndexInv
    /\ IdleMeansAllAsleep
    /\ FrameInv
    /\ BypassInv

-----------------------------------------------------------------------------
LEMMA InitIInv == Init => IInv
  BY SchedulerAssumption
     DEF Init, IInv, TypeOK, CreatedInv, CurrentInv, RunnerInv, IndexInv,
         IdleMeansAllAsleep, FrameInv, ResumesSavedFrame, BypassInv, TaskId,
         TaskState, Frame

(* The task that follows the current one by Dist(c, t) - 1 candidates is t.*)
LEMMA CandidateDist ==
    ASSUME TypeOK, s_current < s_count, NEW t \in TaskId, t < s_count
    PROVE  /\ Dist(s_current, t) \in 1 .. s_count
           /\ Candidate(Dist(s_current, t) - 1) = t
  <1>1. s_count \in Nat \ {0} /\ s_current \in Nat /\ t \in Nat
    BY SchedulerAssumption DEF TypeOK, TaskId
  <1>2. Dist(s_current, t) \in 1 .. s_count
    BY <1>1 DEF Dist
  <1>3. s_current + 1 + (Dist(s_current, t) - 1) = IF t > s_current THEN t ELSE t + s_count
    BY <1>1 DEF Dist
  <1>4. (IF t > s_current THEN t ELSE t + s_count) \in 0 .. 2 * s_count - 1
    BY <1>1
  <1>5. (IF t > s_current THEN t ELSE t + s_count) % s_count = t
    BY <1>1, <1>4, ModBelowTwice
  <1> QED
    BY <1>2, <1>3, <1>5 DEF Candidate

(* Candidates are tasks that exist, and a task after the chosen one comes  *)
(* closer by at least one step.                                            *)
LEMMA CandidateCloser ==
    ASSUME TypeOK, s_current < s_count, NEW k \in 0 .. s_count - 1,
           NEW t \in TaskId, t < s_count, Dist(s_current, t) - 1 > k
    PROVE  /\ Candidate(k) \in 0 .. s_count - 1
           /\ Dist(Candidate(k), t) <= Dist(s_current, t) - 1
  <1>1. s_count \in Nat \ {0} /\ s_current \in Nat /\ t \in Nat /\ k \in Nat
    BY SchedulerAssumption DEF TypeOK, TaskId
  <1> DEFINE x == s_current + 1 + k
  <1>2. x \in 0 .. 2 * s_count - 1
    BY <1>1
  <1>3. Candidate(k) = x % s_count
    BY DEF Candidate
  <1>4. x % s_count = IF x < s_count THEN x ELSE x - s_count
    <2> HIDE DEF x
    <2> QED  BY <1>1, <1>2, ModBelowTwice
  <1> QED
    BY <1>1, <1>3, <1>4 DEF Dist

LEMMA CandidateExists ==
    ASSUME TypeOK, s_current < s_count, NEW k \in 0 .. s_count - 1
    PROVE  Candidate(k) \in TaskId /\ Candidate(k) < s_count
  <1> DEFINE x == s_current + 1 + k
  <1>1. s_count \in Nat \ {0} /\ x \in Nat /\ s_count <= MAX_TASKS
    BY SchedulerAssumption DEF TypeOK, TaskId
  <1>2. x % s_count \in 0 .. s_count - 1
    <2> HIDE DEF x
    <2> QED  BY <1>1, ModRange
  <1> QED
    BY SchedulerAssumption, <1>1, <1>2 DEF Candidate, TaskId
-----------------------------------------------------------------------------
(* The switch that ends scheduler_yield, from either loop: st is the table *)
(* at that point, in which no task is RUNNING, and a READY task other than *)
(* the one chosen has room for one more dispatch before its turn.          *)
LEMMA SwitchKeepsIInv ==
    ASSUME TypeOK, CurrentInv, FrameInv, pc \in {"wake", "spin"},
           NEW st \in [TaskId -> TaskState],
           \A t \in TaskId : st[t] = "DEAD" <=> t >= s_count,
           \A t \in TaskId : st[t] # "RUNNING",
           NEW next \in TaskId, next < s_count,
           \A t \in TaskId : st[t] = "READY" /\ t # next
                                => passed[t] + 1 + Dist(next, t) <= s_count,
           SwitchTo(next, st)
    PROVE  IInv'
  <1> USE DEF SwitchTo, IsCurrent
  <1>1. /\ state' = [st EXCEPT ![next] = "RUNNING"]
        /\ s_current' = next /\ s_count' = s_count /\ pc' = "task"
    OBVIOUS
  <1>2. TypeOK'
    BY SchedulerAssumption DEF TypeOK, TaskState, Frame
  <1>3. CreatedInv' /\ CurrentInv' /\ RunnerInv' /\ IndexInv' /\ IdleMeansAllAsleep'
    BY <1>1 DEF CreatedInv, CurrentInv, RunnerInv, IndexInv, IdleMeansAllAsleep, TypeOK, TaskId
  <1>4. FrameInv'
    BY <1>1 DEF FrameInv, ResumesSavedFrame, TypeOK, CurrentInv
  <1>5. BypassInv'
    BY <1>1 DEF BypassInv, Dist, TypeOK
  <1> QED
    BY <1>2, <1>3, <1>4, <1>5 DEF IInv

LEMMA RequeuedTable ==
    ASSUME IInv, pc = "wake"
    PROVE  /\ Requeued \in [TaskId -> TaskState]
           /\ \A t \in TaskId : Requeued[t] = "DEAD" <=> t >= s_count
           /\ \A t \in TaskId : Requeued[t] # "RUNNING"
           /\ \A t \in TaskId : Requeued[t] = "READY" => passed[t] + Dist(s_current, t) <= s_count
  <1> USE DEF IInv
  <1>1. Requeued \in [TaskId -> TaskState]
    BY DEF TypeOK, Requeued, TaskState
  <1>2. \A t \in TaskId : Requeued[t] = "DEAD" <=> t >= s_count
    BY DEF TypeOK, CreatedInv, Requeued
  <1>3. \A t \in TaskId : Requeued[t] # "RUNNING"
    BY DEF TypeOK, RunnerInv, Requeued
  <1>4. ASSUME NEW t \in TaskId, Requeued[t] = "READY"
        PROVE  passed[t] + Dist(s_current, t) <= s_count
    <2>1. CASE t # s_current
      BY <1>4, <2>1 DEF TypeOK, BypassInv, Requeued
    <2>2. CASE t = s_current /\ state[t] = "READY"
      BY <2>2 DEF TypeOK, BypassInv
    <2>3. CASE t = s_current /\ state[t] # "READY"
      BY <2>3, SchedulerAssumption DEF TypeOK, BypassInv, Dist, TaskId
    <2> QED
      BY <2>1, <2>2, <2>3
  <1> QED
    BY <1>1, <1>2, <1>3, <1>4

LEMMA NextIInv == IInv /\ [Next]_vars => IInv'
  <1> SUFFICES ASSUME IInv, [Next]_vars PROVE IInv'
    OBVIOUS
  <1> USE SchedulerAssumption DEF IInv
  <1>1. CASE Tick
    BY <1>1, ModRange
       DEF Tick, cpuVars, histVars, TypeOK, CreatedInv, CurrentInv, RunnerInv, IndexInv,
           IdleMeansAllAsleep, FrameInv, ResumesSavedFrame, BypassInv, Dist
  <1>2. CASE TaskCreate
    <2> USE <1>2 DEF TaskCreate, Room, histVars
    <2>1. TypeOK'
      BY DEF TypeOK, TaskId, TaskState, Frame
    <2>2. CreatedInv' /\ CurrentInv' /\ RunnerInv' /\ IndexInv' /\ IdleMeansAllAsleep'
      BY DEF TypeOK, TaskId, CreatedInv, CurrentInv, RunnerInv, IndexInv, IdleMeansAllAsleep
    <2>3. FrameInv'
      BY DEF TypeOK, TaskId, FrameInv, ResumesSavedFrame
    <2>4. BypassInv'
      <3> SUFFICES ASSUME NEW t \in TaskId
                   PROVE  IF state'[t] = "READY"
                          THEN passed[t] + Dist(s_current, t)' <= s_count + 1
                          ELSE passed[t] = 0
        BY DEF BypassInv
      <3>1. s_current = 0 /\ s_count \in Nat /\ s_count \in TaskId /\ t \in Nat /\ passed[t] \in Nat
        BY DEF TypeOK, TaskId, CurrentInv
      <3>2. CASE t = s_count
        <4>1. passed[t] = 0
          BY <3>1, <3>2 DEF BypassInv, CreatedInv
        <4>2. Dist(s_current, t)' <= s_count + 1
          BY <3>1, <3>2 DEF Dist
        <4>3. Dist(s_current, t)' \in Int
          BY <3>1 DEF Dist
        <4>4. state'[t] = "READY"
          BY <3>1, <3>2 DEF TypeOK
        <4> QED  BY <4>1, <4>2, <4>3, <4>4
      <3>3. CASE t # s_count
        <4>1. state'[t] = state[t]
          BY <3>3 DEF TypeOK
        <4>2. IF state[t] = "READY" THEN passed[t] + Dist(s_current, t) <= s_count
                                    ELSE passed[t] = 0
          BY DEF BypassInv
        <4>3. Dist(s_current, t)' <= Dist(s_current, t) + 1
          BY <3>1 DEF Dist
        <4>4. Dist(s_current, t)' \in Int /\ Dist(s_current, t) \in Int
          BY <3>1 DEF Dist
        <4> QED  BY <3>1, <4>1, <4>2, <4>3, <4>4
      <3> QED  BY <3>2, <3>3
    <2> QED  BY <2>1, <2>2, <2>3, <2>4
  <1>3. CASE SchedulerStart
    <2> USE <1>3 DEF SchedulerStart, histVars
    <2>1. TypeOK'
      BY DEF TypeOK, TaskId, TaskState, Frame
    <2>2. CreatedInv' /\ CurrentInv' /\ RunnerInv' /\ IndexInv' /\ IdleMeansAllAsleep'
      BY DEF TypeOK, TaskId, CreatedInv, CurrentInv, RunnerInv, IndexInv, IdleMeansAllAsleep
    <2>3. FrameInv'
      BY DEF TypeOK, TaskId, CurrentInv, FrameInv, ResumesSavedFrame
    <2>4. BypassInv'
      BY DEF TypeOK, TaskId, CurrentInv, CreatedInv, BypassInv, Dist
    <2> QED  BY <2>1, <2>2, <2>3, <2>4
  <1>4. CASE StartReturns
    BY <1>4
       DEF StartReturns, histVars, TypeOK, CreatedInv, CurrentInv, RunnerInv, IndexInv,
           IdleMeansAllAsleep, FrameInv, ResumesSavedFrame, BypassInv, Dist
  <1>5. CASE Yield \/ PreemptCheck
    <2> USE <1>5 DEF Yield, PreemptCheck, EnterYield, histVars
    <2>1. TypeOK'
      BY DEF TypeOK
    <2>2. CreatedInv' /\ CurrentInv' /\ RunnerInv' /\ IndexInv' /\ IdleMeansAllAsleep'
      BY DEF TypeOK, CreatedInv, CurrentInv, RunnerInv, IndexInv, IdleMeansAllAsleep
    <2>3. FrameInv' /\ BypassInv'
      BY DEF FrameInv, ResumesSavedFrame, BypassInv, Dist
    <2> QED  BY <2>1, <2>2, <2>3
  <1>6. ASSUME NEW n \in SleepTicks, Sleep(n) PROVE IInv'
    <2> USE <1>6 DEF Sleep, EnterYield
    <2>1. (g_ticks + n) % TickMod \in 0 .. TickMod - 1
      <3> DEFINE x == g_ticks + n
      <3>1. x \in Nat
        BY DEF TypeOK
      <3>2. x % TickMod \in 0 .. TickMod - 1
        <4> HIDE DEF x
        <4> QED  BY <3>1, ModRange
      <3> QED  BY <3>2
    <2>2. clock + n \in 0 .. MaxClock
      BY DEF TypeOK
    <2>3. TypeOK'
      BY <2>1, <2>2 DEF TypeOK, TaskState
    <2>4. CreatedInv' /\ CurrentInv' /\ RunnerInv' /\ IndexInv' /\ IdleMeansAllAsleep'
      BY DEF TypeOK, TaskId, CreatedInv, CurrentInv, RunnerInv, IndexInv, IdleMeansAllAsleep
    <2>5. FrameInv'
      BY DEF TypeOK, CurrentInv, FrameInv, ResumesSavedFrame
    <2>6. BypassInv'
      BY DEF TypeOK, RunnerInv, BypassInv, Dist
    <2> QED  BY <2>3, <2>4, <2>5, <2>6
  <1>7. CASE WakeScan
    <2> USE <1>7 DEF WakeScan, Expired, histVars
    <2>1. TypeOK'
      <3>1. i + 1 \in 0 .. MAX_TASKS
        BY DEF TypeOK
      <3>2. state' \in [TaskId -> TaskState]
        BY DEF TypeOK, TaskState
      <3> QED  BY <3>1, <3>2 DEF TypeOK
    <2>2. CreatedInv' /\ RunnerInv' /\ IdleMeansAllAsleep'
      BY DEF TypeOK, TaskId, CreatedInv, RunnerInv, IdleMeansAllAsleep
    <2>3. CurrentInv' /\ IndexInv'
      BY DEF TypeOK, TaskId, CurrentInv, IndexInv
    <2>4. FrameInv'
      BY DEF FrameInv, ResumesSavedFrame
    <2>5. BypassInv'
      <3>1. CASE ~ Expired(i)
        BY <3>1 DEF BypassInv, Dist
      <3>2. CASE Expired(i)
        <4>1. i \in TaskId /\ i < s_count /\ s_current < s_count
              /\ s_count \in Int /\ s_current \in Int /\ i \in Int /\ 0 <= s_current
          BY DEF TypeOK, TaskId, IndexInv, CurrentInv
        <4>2. passed[i] = 0 /\ state' = [state EXCEPT ![i] = "READY"]
          BY <3>2, <4>1 DEF BypassInv
        <4>3. passed[i] + Dist(s_current, i) <= s_count
          BY <4>1, <4>2 DEF Dist
        <4> QED
          BY <4>1, <4>2, <4>3 DEF TypeOK, BypassInv, Dist
      <3> QED  BY <3>1, <3>2
    <2> QED  BY <2>1, <2>2, <2>3, <2>4, <2>5
  <1>8. CASE PickReady
    <2>1. pc = "wake" /\ s_current < s_count
      BY <1>8 DEF PickReady, CurrentInv
    <2>2. PICK k \in 0 .. s_count - 1 :
             /\ Requeued[Candidate(k)] = "READY"
             /\ \A j \in 0 .. k - 1 : Requeued[Candidate(j)] # "READY"
             /\ SwitchTo(Candidate(k), Requeued)
      BY <1>8 DEF PickReady
    <2>3. Candidate(k) \in TaskId /\ Candidate(k) < s_count
      BY <2>1, CandidateExists
    <2>4. ASSUME NEW t \in TaskId, Requeued[t] = "READY", t # Candidate(k)
          PROVE  passed[t] + 1 + Dist(Candidate(k), t) <= s_count
      <3>1. t < s_count /\ passed[t] + Dist(s_current, t) <= s_count
        <4>1. Requeued[t] = "DEAD" <=> t >= s_count
          BY <2>1, RequeuedTable
        <4>2. t < s_count
          BY <2>4, <4>1 DEF TypeOK, TaskId
        <4>3. passed[t] + Dist(s_current, t) <= s_count
          BY <2>1, <2>4, RequeuedTable
        <4> QED  BY <4>2, <4>3
      <3>2. /\ Dist(s_current, t) - 1 \in 0 .. s_count - 1
            /\ Candidate(Dist(s_current, t) - 1) = t
        BY <2>1, <3>1, CandidateDist DEF TypeOK
      <3>3. Dist(s_current, t) - 1 > k
        BY <2>2, <2>4, <3>2
      <3>4. Dist(Candidate(k), t) <= Dist(s_current, t) - 1
        BY <2>1, <3>1, <3>3, CandidateCloser
      <3>5. t \in Int /\ s_current \in Int /\ Candidate(k) \in Int /\ s_count \in Int
        BY <2>3 DEF TypeOK, TaskId
      <3>6. Dist(s_current, t) \in Int /\ Dist(Candidate(k), t) \in Int
        BY <3>5, DistIsInt
      <3>7. passed[t] \in Nat
        BY DEF TypeOK
      <3> QED  BY <3>1, <3>4, <3>5, <3>6, <3>7
    <2> QED
      BY <2>1, <2>2, <2>3, <2>4, RequeuedTable, SwitchKeepsIInv
  <1>9. CASE PickNone
    <2> USE <1>9 DEF PickNone, NoneReady, histVars
    <2>1. s_current < s_count /\ s_count > 0
      BY DEF TypeOK, TaskId, CurrentInv
    <2>2. TypeOK'
      BY RequeuedTable DEF TypeOK
    <2>3. CreatedInv' /\ CurrentInv' /\ RunnerInv' /\ IndexInv'
      <3>1. CreatedInv' /\ RunnerInv'
        BY <2>1, RequeuedTable DEF TypeOK, CreatedInv, RunnerInv
      <3>2. CurrentInv' /\ IndexInv'
        BY <2>1, RequeuedTable DEF TypeOK, CurrentInv, IndexInv
      <3> QED  BY <3>1, <3>2
    <2>4. \A t \in TaskId : t < s_count => Requeued[t] # "READY"
      <3> SUFFICES ASSUME NEW t \in TaskId, t < s_count PROVE Requeued[t] # "READY"
        OBVIOUS
      <3>1. /\ Dist(s_current, t) - 1 \in 0 .. s_count - 1
            /\ Candidate(Dist(s_current, t) - 1) = t
        BY <2>1, CandidateDist DEF TypeOK
      <3> QED  BY <3>1
    <2>5. IdleMeansAllAsleep'
      <3>1. \A t \in TaskId : t < s_count => Requeued[t] = "SLEEPING"
        <4> SUFFICES ASSUME NEW t \in TaskId, t < s_count PROVE Requeued[t] = "SLEEPING"
          OBVIOUS
        <4>1. Requeued[t] \in TaskState /\ Requeued[t] # "RUNNING"
          BY RequeuedTable
        <4>2. Requeued[t] # "DEAD"
          BY RequeuedTable DEF TypeOK, TaskId
        <4> QED  BY <2>4, <4>1, <4>2 DEF TaskState
      <3>2. \A t \in 0 .. s_count - 1 : t \in TaskId /\ t < s_count
        BY DEF TypeOK, TaskId
      <3> QED  BY <3>1, <3>2 DEF IdleMeansAllAsleep
    <2>6. FrameInv'
      BY DEF FrameInv, ResumesSavedFrame
    <2>7. BypassInv'
      BY <2>4, RequeuedTable DEF TypeOK, TaskId, BypassInv, Dist, Requeued, CurrentInv
    <2> QED  BY <2>2, <2>3, <2>5, <2>6, <2>7
  <1>10. CASE SpinWake
    <2> USE <1>10 DEF SpinWake
    <2>1. i \in TaskId /\ i < s_count
      BY DEF IndexInv, TypeOK, TaskId
    <2>2. \A t \in TaskId : state[t] # "RUNNING" /\ state[t] # "READY"
      <3> SUFFICES ASSUME NEW t \in TaskId PROVE state[t] \in {"DEAD", "SLEEPING"}
        OBVIOUS
      <3>1. CASE t < s_count
        BY <3>1 DEF IdleMeansAllAsleep, TypeOK, TaskId
      <3>2. CASE t >= s_count
        BY <3>2 DEF CreatedInv
      <3> QED  BY <3>1, <3>2 DEF TypeOK, TaskId
    <2> QED
      BY <2>1, <2>2, SwitchKeepsIInv DEF TypeOK, CreatedInv
  <1>11. CASE SpinNext
    <2> USE <1>11 DEF SpinNext, histVars
    <2>1. i' \in 0 .. MAX_TASKS /\ i' < s_count
      BY DEF TypeOK, IndexInv
    <2>2. TypeOK'
      BY <2>1 DEF TypeOK
    <2>3. CreatedInv' /\ CurrentInv' /\ RunnerInv' /\ IndexInv' /\ IdleMeansAllAsleep'
      BY <2>1 DEF CreatedInv, CurrentInv, RunnerInv, IndexInv, IdleMeansAllAsleep
    <2>4. FrameInv' /\ BypassInv'
      BY DEF FrameInv, ResumesSavedFrame, BypassInv, Dist
    <2> QED  BY <2>2, <2>3, <2>4
  <1>12. CASE UNCHANGED vars
    BY <1>12
       DEF vars, cpuVars, histVars, TypeOK, CreatedInv, CurrentInv, RunnerInv, IndexInv,
           IdleMeansAllAsleep, FrameInv, ResumesSavedFrame, BypassInv, Dist
  <1> QED
    BY <1>1, <1>2, <1>3, <1>4, <1>5, <1>6, <1>7, <1>8, <1>9, <1>10, <1>11, <1>12
       DEF Next, Boot, GiveUp, Resched, Halted

-----------------------------------------------------------------------------
(* The inductive invariant holds in every behaviour.                       *)
THEOREM Invariance == Spec => []IInv
  BY InitIInv, NextIInv, PTL DEF Spec

(* Type correctness.                                                       *)
THEOREM TypeCorrect == Spec => []TypeOK
  BY Invariance, PTL DEF IInv

(* The task whose code executes, and no other, is RUNNING.                 *)
THEOREM OneTaskRuns == Spec => []SingleRunner
  <1>1. IInv => SingleRunner
    BY DEF IInv, RunnerInv, SingleRunner
  <1> QED  BY <1>1, Invariance, PTL

(* No context switch resumes a consumed frame.                             *)
THEOREM FramesAreFresh == Spec => []ResumesSavedFrame
  BY Invariance, PTL DEF IInv, FrameInv

(* A READY task is overtaken at most once by each other task.              *)
THEOREM RoundRobinIsFair == Spec => []BoundedBypass
  <1>1. IInv => BoundedBypass
    <2> SUFFICES ASSUME IInv, NEW t \in TaskId, state[t] = "READY"
                 PROVE  passed[t] < s_count
      BY DEF BoundedBypass
    <2>1. passed[t] + Dist(s_current, t) <= s_count /\ t < s_count
      BY DEF IInv, BypassInv, CreatedInv, TypeOK, TaskId
    <2>2. Dist(s_current, t) \in Nat \ {0} /\ passed[t] \in Nat /\ s_count \in Nat
      BY <2>1 DEF IInv, CurrentInv, Dist, TypeOK, TaskId
    <2> QED  BY <2>1, <2>2
  <1> QED  BY <1>1, Invariance, PTL

(* The idle loop runs only while every task sleeps.                        *)
THEOREM IdleIsIdle == Spec => []IdleMeansAllAsleep
  BY Invariance, PTL DEF IInv
-----------------------------------------------------------------------------
(* Time.  As long as the tick counter has not wrapped it is the real time, *)
(* and the deadline the code stores is the real one.                       *)
TimeInv ==
    /\ g_ticks = clock
    /\ pc = "boot" => \A t \in TaskId : due[t] = 0
    /\ \A t \in TaskId :
          /\ state[t] = "DEAD" => due[t] = 0
          /\ state[t] = "SLEEPING" => sleep_until[t] = due[t]
    /\ NoEarlyWake

LEMMA InitTimeInv == Init => TimeInv
  BY DEF Init, TimeInv, NoEarlyWake

LEMMA SwitchKeepsTimeInv ==
    ASSUME TypeOK, TimeInv,
           NEW st \in [TaskId -> TaskState], NEW next \in TaskId,
           \A t \in TaskId : st[t] # state[t] => state[t] = "RUNNING" /\ st[t] = "READY",
           clock >= due[next],
           SwitchTo(next, st)
    PROVE  TimeInv'
  BY DEF SwitchTo, IsCurrent, TimeInv, NoEarlyWake, TypeOK

LEMMA NextTimeInv ==
    ASSUME MaxClock < TickMod, IInv, TimeInv, [Next]_vars
    PROVE  TimeInv'
  <1> USE SchedulerAssumption DEF IInv
  <1>1. CASE Tick
    <2>1. clock + 1 \in 0 .. TickMod - 1
      BY <1>1 DEF Tick, TypeOK
    <2>2. (clock + 1) % TickMod = clock + 1
      <3> DEFINE x == clock + 1
      <3> HIDE DEF x
      <3> QED  BY <2>1, ModBelowTwice DEF x
    <2>3. g_ticks' = clock'
      BY <1>1, <2>2 DEF Tick, TimeInv
    <2> QED
      BY <1>1, <2>3 DEF Tick, cpuVars, histVars, TimeInv, NoEarlyWake, TypeOK
  <1>2. CASE TaskCreate
    BY <1>2 DEF TaskCreate, Room, histVars, TimeInv, NoEarlyWake, TypeOK, CreatedInv, TaskId
  <1>3. CASE SchedulerStart
    <2>1. 0 \in TaskId /\ clock >= due[0]
      BY <1>3 DEF SchedulerStart, TimeInv, TypeOK, TaskId
    <2> QED
      BY <1>3, <2>1 DEF SchedulerStart, histVars, TimeInv, NoEarlyWake, TypeOK, TaskId, TaskState
  <1>4. CASE StartReturns \/ Yield \/ PreemptCheck \/ SpinNext \/ Halted \/ UNCHANGED vars
    BY <1>4 DEF StartReturns, Yield, PreemptCheck, EnterYield, SpinNext, Halted, vars, cpuVars,
                histVars, TimeInv, NoEarlyWake
  <1>5. ASSUME NEW n \in SleepTicks, Sleep(n) PROVE TimeInv'
    <2> USE <1>5 DEF Sleep
    <2>1. n \in Nat /\ clock + n \in 0 .. TickMod - 1
      BY DEF TypeOK
    <2>2. (g_ticks + n) % TickMod = clock + n
      BY <2>1, ModBelowTwice DEF TimeInv
    <2> QED
      BY <2>1, <2>2 DEF EnterYield, TimeInv, NoEarlyWake, TypeOK
  <1>6. CASE WakeScan
    BY <1>6 DEF WakeScan, Expired, histVars, TimeInv, NoEarlyWake, TypeOK, TaskId
  <1>7. CASE PickReady
    <2>1. pc = "wake" /\ s_current < s_count
      BY <1>7 DEF PickReady, CurrentInv
    <2>2. PICK k \in 0 .. s_count - 1 :
             Requeued[Candidate(k)] = "READY" /\ SwitchTo(Candidate(k), Requeued)
      BY <1>7 DEF PickReady
    <2>3. Candidate(k) \in TaskId
      BY <2>1, CandidateExists
    <2>4. \A t \in TaskId : Requeued[t] # state[t]
                             => state[t] = "RUNNING" /\ Requeued[t] = "READY"
      BY DEF Requeued, TypeOK
    <2>5. clock >= due[Candidate(k)]
      BY <2>2, <2>3, <2>4 DEF TimeInv, NoEarlyWake
    <2>6. Requeued \in [TaskId -> TaskState]
      BY <2>1, RequeuedTable
    <2> QED
      BY <2>2, <2>3, <2>4, <2>5, <2>6, SwitchKeepsTimeInv
  <1>8. CASE PickNone
    BY <1>8 DEF PickNone, NoneReady, Requeued, histVars, TimeInv, NoEarlyWake, TypeOK
  <1>9. CASE SpinWake
    <2>1. i \in TaskId
      BY <1>9 DEF SpinWake, IndexInv, TypeOK, TaskId
    <2>2. clock >= due[i]
      BY <1>9, <2>1 DEF SpinWake, Expired, TimeInv
    <2> QED
      BY <1>9, <2>1, <2>2, SwitchKeepsTimeInv DEF SpinWake, TypeOK
  <1> QED
    BY <1>1, <1>2, <1>3, <1>4, <1>5, <1>6, <1>7, <1>8, <1>9
       DEF Next, Boot, GiveUp, Resched

(* Before the first wrap the counter tells the time and no stored wake-up  *)
(* time differs from when the sleep is due.                                *)
THEOREM TimeInvariance ==
    ASSUME MaxClock < TickMod
    PROVE  Spec => [](IInv /\ TimeInv)
  <1>1. IInv /\ TimeInv /\ [Next]_vars => IInv' /\ TimeInv'
    BY NextIInv, NextTimeInv
  <1> QED
    BY <1>1, InitIInv, InitTimeInv, PTL DEF Spec

(* No sleep ends early in the first TickMod ticks after a reset: on the    *)
(* target, in the first 2^32 ticks of 10 ms (497 days).                    *)
THEOREM SleepsLastLongEnough ==
    ASSUME MaxClock < TickMod
    PROVE  Spec => []NoEarlyWake
  <1>1. TimeInv => NoEarlyWake
    BY DEF TimeInv
  <1> QED
    BY <1>1, TimeInvariance, PTL

-----------------------------------------------------------------------------
(* Refinement of Cooperative, up to the same horizon.                      *)
LEMMA InitRefines == Init => Coop!Init
  BY SchedulerAssumption DEF Init, Coop!Init, TaskId

LEMMA SwitchRefines ==
    ASSUME TypeOK, pc \in {"wake", "spin"}, NEW st \in [TaskId -> TaskState],
           NEW next \in TaskId, next < s_count, clock >= due[next],
           SwitchTo(next, st)
    PROVE  Coop!Run(next)
  BY DEF SwitchTo, IsCurrent, Coop!Run, Coop!MayRun, TypeOK

LEMMA StepRefines ==
    ASSUME MaxClock < TickMod, IInv, TimeInv, [Next]_vars
    PROVE  [Coop!Next]_Coop!vars
  <1> USE SchedulerAssumption DEF IInv
  <1>1. CASE Tick
    BY <1>1 DEF Tick, cpuVars, histVars, Coop!Next, Coop!Advance
  <1>2. CASE TaskCreate
    <2>1. s_count \in TaskId
      BY <1>2 DEF TaskCreate, Room, TypeOK, TaskId
    <2>2. {t \in TaskId : t < s_count'} = {t \in TaskId : t < s_count} \union {s_count}
      BY <1>2, <2>1 DEF TaskCreate, Room, TypeOK, TaskId
    <2>3. ASSUME NEW t \in TaskId, t = s_count PROVE Coop!Create(t)
      BY <1>2, <2>1, <2>2, <2>3 DEF TaskCreate, Room, histVars, Coop!Create, TypeOK, TaskId
    <2> QED  BY <2>1, <2>3 DEF Coop!Next
  <1>3. CASE SchedulerStart
    <2>1. 0 \in TaskId /\ due[0] <= clock
      BY <1>3 DEF SchedulerStart, TimeInv, TypeOK, TaskId
    <2>2. Coop!Run(0)
      BY <1>3, <2>1 DEF SchedulerStart, histVars, Coop!Run, Coop!MayRun, TypeOK
    <2> QED  BY <2>1, <2>2 DEF Coop!Next
  <1>4. CASE StartReturns \/ WakeScan \/ PickNone \/ SpinNext \/ Halted \/ UNCHANGED vars
    BY <1>4 DEF StartReturns, WakeScan, PickNone, SpinNext, Halted, vars, cpuVars, histVars,
                Coop!vars
  <1>5. CASE Yield \/ PreemptCheck
    <2>1. /\ pc = "task" /\ pc' = "wake" /\ s_current # MAX_TASKS
          /\ clock' = clock /\ due' = due /\ s_count' = s_count
      BY <1>5 DEF Yield, PreemptCheck, EnterYield, histVars, TypeOK, TaskId
    <2>2. due \in [TaskId -> Nat]
      BY DEF TypeOK
    <2>3. Coop!Release
      BY <2>1, <2>2 DEF Coop!Release
    <2> QED  BY <2>3 DEF Coop!Next
  <1>6. ASSUME NEW n \in SleepTicks, Sleep(n) PROVE Coop!Next
    <2>1. Coop!Release
      BY <1>6 DEF Sleep, EnterYield, Coop!Release, TypeOK, TaskId
    <2> QED  BY <2>1 DEF Coop!Next
  <1>7. CASE PickReady
    <2>1. pc = "wake" /\ s_current < s_count
      BY <1>7 DEF PickReady, CurrentInv
    <2>2. PICK k \in 0 .. s_count - 1 :
             Requeued[Candidate(k)] = "READY" /\ SwitchTo(Candidate(k), Requeued)
      BY <1>7 DEF PickReady
    <2>3. Candidate(k) \in TaskId /\ Candidate(k) < s_count
      BY <2>1, CandidateExists
    <2>4. clock >= due[Candidate(k)]
      BY <2>2, <2>3 DEF Requeued, TimeInv, NoEarlyWake, TypeOK
    <2>5. Coop!Run(Candidate(k))
      BY <2>1, <2>2, <2>3, <2>4, RequeuedTable, SwitchRefines
    <2> QED  BY <2>3, <2>5 DEF Coop!Next
  <1>8. CASE SpinWake
    <2>1. i \in TaskId /\ i < s_count
      BY <1>8 DEF SpinWake, IndexInv, TypeOK, TaskId
    <2>2. clock >= due[i]
      BY <1>8, <2>1 DEF SpinWake, Expired, TimeInv
    <2>3. Coop!Run(i)
      BY <1>8, <2>1, <2>2, SwitchRefines DEF SpinWake, TypeOK
    <2> QED  BY <2>1, <2>3 DEF Coop!Next
  <1> QED
    BY <1>1, <1>2, <1>3, <1>4, <1>5, <1>6, <1>7, <1>8 DEF Next, Boot, GiveUp, Resched

(* The scheduler implements Cooperative.                                   *)
THEOREM Refinement ==
    ASSUME MaxClock < TickMod
    PROVE  Spec => ImplementsCooperative
  <1>1. IInv /\ TimeInv /\ [Next]_vars => [Coop!Next]_Coop!vars
    BY StepRefines
  <1> QED
    BY <1>1, TimeInvariance, InitRefines, PTL DEF Spec, ImplementsCooperative, Coop!Spec
=============================================================================
