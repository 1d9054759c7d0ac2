-------------------------- MODULE SchedulerM4Proofs --------------------------
(***************************************************************************)
(* Theorems about SchedulerM4 and PortTelemetry, for every number of       *)
(* tasks, every tick width, every set of sleeping times and every bound on *)
(* the clock.                                                              *)
(***************************************************************************)
EXTENDS PortTelemetry, TLAPS

(* The remainder of a number below twice the divisor.                      *)
LEMMA ModBelowTwice ==
    \A n \in Nat \ {0} : \A x \in 0 .. 2 * n - 1 :
        x % n = IF x < n THEN x ELSE x - n
  OBVIOUS

LEMMA ModBelow ==
    \A n \in Nat \ {0} : \A x \in 0 .. n - 1 : x % n = x
  OBVIOUS

LEMMA ModRange ==
    \A n \in Nat \ {0} : \A x \in Nat : x % n \in 0 .. n - 1
  OBVIOUS

(* The remainder of a negative number that is no multiple of the divisor.  *)
LEMMA ModNegative ==
    \A n \in Nat \ {0} : \A x \in 1 - n .. - 1 : x % n = x + n
  OBVIOUS

-----------------------------------------------------------------------------
(* The inductive invariant of the scheduler, part by part.                 *)

(* The tasks that exist are those below s_count.                           *)
CreatedInv == \A t \in TaskId : state[t] = "DEAD" <=> t >= s_count

CurrentInv ==
    /\ s_current # NoTask => s_current < s_count
    /\ pc = "task" => s_current # NoTask
    /\ pc = "main" => s_current = NoTask

(* Only the current task can be RUNNING; it executes in another state only *)
(* between the two last steps of task_sleep.                               *)
RunnerInv ==
    /\ \A t \in TaskId : state[t] = "RUNNING" => t = s_current
    /\ pc = "task" /\ state[s_current] # "RUNNING" =>
          /\ at[s_current] \in {"marked", "yielded"}
          /\ at[s_current] = "yielded" => pendsv

(* The number of steps from c to t in round-robin order.                   *)
Dist(c, t) == IF t > c THEN t - c ELSE t - c + s_count

(* The dispatches a READY task has seen and those it can still see before  *)
(* its turn comes add up to at most s_count.                               *)
BypassInv ==
    /\ \A t \in TaskId :
          IF state[t] = "READY" THEN passed[t] + Dist(Base, t) <= s_count
                                ELSE passed[t] = 0
    /\ pc = "main" => \A t \in TaskId : passed[t] = 0

IInv == TypeOK /\ CreatedInv /\ CurrentInv /\ RunnerInv /\ BypassInv

LEMMA InitIInv == Init => IInv
  <1> SUFFICES ASSUME Init PROVE IInv
    OBVIOUS
  <1> USE DEF Init
  <1>1. TypeOK
    <2>1. 0 \in 0 .. TickMod - 1 /\ 0 \in 0 .. NTasks /\ 0 \in 0 .. MaxClock
      BY M4Assumption
    <2> QED  BY <2>1 DEF TypeOK
  <1>2. CreatedInv
    BY M4Assumption DEF CreatedInv, TaskId
  <1>3. CurrentInv /\ RunnerInv /\ BypassInv
    BY DEF CurrentInv, RunnerInv, BypassInv
  <1> QED  BY <1>1, <1>2, <1>3 DEF IInv

LEMMA BaseExists ==
    ASSUME TypeOK, CurrentInv, s_count # 0
    PROVE  Base \in 0 .. s_count - 1 /\ Base \in TaskId /\ s_count \in 1 .. NTasks
  BY M4Assumption DEF TypeOK, CurrentInv, Base, TaskId, NoTask

(* The task that follows the current one by Dist(Base, t) - 1 candidates   *)
(* is t.                                                                   *)
LEMMA CandidateDist ==
    ASSUME TypeOK, CurrentInv, NEW t \in TaskId, t < s_count
    PROVE  /\ Dist(Base, t) \in 1 .. s_count
           /\ Candidate(Dist(Base, t) - 1) = t
  <1>0. t \in Nat /\ s_count \in Nat \ {0}
    BY M4Assumption DEF TypeOK, TaskId
  <1>1. s_count \in Nat \ {0} /\ Base \in 0 .. s_count - 1 /\ t \in Nat
    BY <1>0, BaseExists
  <1>2. Dist(Base, t) \in 1 .. s_count
    BY <1>1 DEF Dist
  <1>3. Base + 1 + (Dist(Base, t) - 1) = IF t > Base THEN t ELSE t + s_count
    BY <1>1 DEF Dist
  <1>4. (IF t > Base THEN t ELSE t + s_count) \in 0 .. 2 * s_count - 1
    BY <1>1
  <1>5. (IF t > Base THEN t ELSE t + s_count) % s_count = t
    BY <1>1, <1>4, ModBelowTwice
  <1> QED
    BY <1>2, <1>3, <1>5 DEF Candidate

(* Candidates are tasks that exist, and a task after the chosen one comes  *)
(* closer by at least one step.                                            *)
LEMMA CandidateExists ==
    ASSUME TypeOK, CurrentInv, s_count # 0, NEW k \in 0 .. s_count - 1
    PROVE  Candidate(k) \in TaskId /\ Candidate(k) < s_count
  <1> DEFINE x == Base + 1 + k
  <1>1. s_count \in Nat \ {0} /\ x \in Nat /\ s_count <= NTasks
    BY BaseExists, M4Assumption
  <1>2. x % s_count \in 0 .. s_count - 1
    <2> HIDE DEF x
    <2> QED  BY <1>1, ModRange
  <1> QED
    BY M4Assumption, <1>1, <1>2 DEF Candidate, TaskId

LEMMA CandidateCloser ==
    ASSUME TypeOK, CurrentInv, NEW k \in 0 .. s_count - 1,
           NEW t \in TaskId, t < s_count, Dist(Base, t) - 1 > k
    PROVE  Dist(Candidate(k), t) <= Dist(Base, t) - 1
  <1>0. t \in Nat /\ s_count \in Nat \ {0}
    BY M4Assumption DEF TypeOK, TaskId
  <1>1. s_count \in Nat \ {0} /\ Base \in 0 .. s_count - 1 /\ t \in Nat /\ k \in Nat
    BY <1>0, BaseExists
  <1> DEFINE x == Base + 1 + k
  <1>2. x \in 0 .. 2 * s_count - 1
    BY <1>1
  <1>3. Candidate(k) = x % s_count
    BY DEF Candidate
  <1>4. x % s_count = IF x < s_count THEN x ELSE x - s_count
    <2> HIDE DEF x
    <2> QED  BY <1>1, <1>2, ModBelowTwice
  <1> QED
    BY <1>1, <1>3, <1>4 DEF Dist
-----------------------------------------------------------------------------
(* pendsv_schedule, up to the choice: it leaves no task RUNNING.           *)
LEMMA WokenType ==
    ASSUME TypeOK, RunnerInv, CreatedInv
    PROVE  /\ Woken \in [TaskId -> {"DEAD", "READY", "SLEEPING"}]
           /\ \A t \in TaskId : Woken[t] = "DEAD" <=> t >= s_count
           /\ \A t \in TaskId : state[t] \in {"READY", "RUNNING"} => Woken[t] = "READY"
           /\ \A t \in TaskId : Woken[t] = "READY" /\ state[t] = "SLEEPING" => Due(t)
  BY DEF TypeOK, RunnerInv, CreatedInv, Woken, Requeued

(* The task chosen exists, it is READY unless none is, and every other     *)
(* READY task comes closer to its turn.                                    *)
LEMMA ChosenTask ==
    ASSUME TypeOK, CurrentInv, RunnerInv, CreatedInv, s_count # 0,
           NEW next \in TaskId, Chosen(next)
    PROVE  /\ next < s_count
           /\ (\E t \in TaskId : Woken[t] = "READY") => Woken[next] = "READY"
           /\ \A t \in TaskId : t # next /\ Woken[t] = "READY"
                                    => Dist(next, t) <= Dist(Base, t) - 1
  <1>1. CASE \A t \in TaskId : Woken[t] # "READY"
    <2>1. next = Base
      BY <1>1 DEF Chosen
    <2> QED  BY <1>1, <2>1, BaseExists
  <1>2. CASE ~ \A t \in TaskId : Woken[t] # "READY"
    <2>1. PICK k \in 0 .. s_count - 1 :
              /\ next = Candidate(k)
              /\ Woken[next] = "READY"
              /\ \A j \in 0 .. k - 1 : Woken[Candidate(j)] # "READY"
      BY <1>2 DEF Chosen
    <2>2. next < s_count
      <3>1. Candidate(k) < s_count
        BY CandidateExists
      <3> QED  BY <2>1, <3>1
    <2>3. ASSUME NEW t \in TaskId, t # next, Woken[t] = "READY"
          PROVE  Dist(next, t) <= Dist(Base, t) - 1
      <3>1. t < s_count
        <4>1. ~ (t >= s_count)
          BY <2>3, WokenType
        <4> QED  BY <4>1, M4Assumption DEF TypeOK, TaskId
      <3>2. Dist(Base, t) \in 1 .. s_count /\ Candidate(Dist(Base, t) - 1) = t
        BY <3>1, CandidateDist
      <3>3. s_count \in Nat /\ k \in Nat
        BY DEF TypeOK
      <3>4. Dist(Base, t) - 1 > k
        BY <2>1, <2>3, <3>2, <3>3
      <3> QED
        BY <2>1, <3>1, <3>4, CandidateCloser
    <2> QED  BY <2>1, <2>2, <2>3
  <1> QED  BY <1>1, <1>2

LEMMA PendSVKeepsIInv == IInv /\ PendSV => IInv'
  <1> SUFFICES ASSUME IInv, PendSV PROVE IInv'
    OBVIOUS
  <1> USE DEF IInv
  <1>1. CASE s_count = 0
    BY <1>1 DEF PendSV, TypeOK, CreatedInv, CurrentInv, RunnerInv, BypassInv, Dist, Base,
                TaskId, NoTask
  <1>2. CASE s_count # 0
    <2>1. PICK next \in TaskId :
              /\ Chosen(next)
              /\ pc' = "task"
              /\ s_current' = next
              /\ state' = [Woken EXCEPT ![next] = "RUNNING"]
              /\ passed' = [t \in TaskId |-> IF t # next /\ Woken[t] = "READY"
                                             THEN passed[t] + 1 ELSE 0]
      BY <1>2 DEF PendSV
    <2>2. /\ next < s_count
          /\ \A t \in TaskId : t # next /\ Woken[t] = "READY"
                                   => Dist(next, t) <= Dist(Base, t) - 1
      BY <1>2, <2>1, ChosenTask
    <2>3. /\ UNCHANGED <<g_ticks, s_count, sleep_until, at, clock, due>>
          /\ pendsv' = FALSE
      BY <1>2 DEF PendSV
    <2>4. TypeOK'
      <3>1. state' \in [TaskId -> {"DEAD", "READY", "RUNNING", "SLEEPING"}]
        BY <2>1, WokenType
      <3>2. passed' \in [TaskId -> Nat]
        BY <2>1 DEF TypeOK
      <3> QED
        BY <2>1, <2>3, <3>1, <3>2 DEF TypeOK
    <2>5. CreatedInv'
      <3>1. \A t \in TaskId : t \in Int /\ s_count \in Int
        BY M4Assumption DEF TaskId, TypeOK
      <3>2. \A t \in TaskId : state'[t] = IF t = next THEN "RUNNING" ELSE Woken[t]
        BY <2>1, WokenType
      <3>3. \A t \in TaskId : Woken[t] = "DEAD" <=> t >= s_count
        BY WokenType
      <3> QED
        BY <2>2, <2>3, <3>1, <3>2, <3>3 DEF CreatedInv
    <2>6. CurrentInv'
      BY <2>1, <2>2, <2>3 DEF CurrentInv, TaskId, NoTask
    <2>7. RunnerInv'
      BY <2>1, <2>3, WokenType DEF RunnerInv
    <2>8. BypassInv'
      <3>1. next \in Int /\ s_count \in Nat /\ Base \in Int /\ Base' = next
        BY <1>2, <2>1, BaseExists, M4Assumption DEF Base, TaskId, NoTask, TypeOK
      <3>2. SUFFICES ASSUME NEW t \in TaskId
                     PROVE  IF state'[t] = "READY" THEN passed'[t] + Dist(next, t) <= s_count
                                                   ELSE passed'[t] = 0
        BY <2>1, <2>3, <3>1 DEF BypassInv, Dist
      <3>3. CASE t # next /\ Woken[t] = "READY"
        <4>1. t < s_count /\ t \in Int
          BY <3>3, WokenType, M4Assumption DEF TypeOK, TaskId
        <4>2. Dist(Base, t) \in 1 .. s_count
          BY <4>1, CandidateDist
        <4>3. passed[t] + Dist(Base, t) <= s_count
          BY <3>1, <4>2 DEF BypassInv
        <4>4. passed[t] \in Nat
          BY DEF TypeOK
        <4>5. Dist(next, t) \in Int
          BY <3>1, <4>1 DEF Dist
        <4>6. passed'[t] = passed[t] + 1 /\ Dist(next, t) <= Dist(Base, t) - 1
          BY <2>1, <2>2, <3>3
        <4>7. state'[t] = "READY"
          BY <2>1, <3>3, WokenType
        <4> QED
          BY <3>1, <4>2, <4>3, <4>4, <4>5, <4>6, <4>7
      <3>4. CASE ~ (t # next /\ Woken[t] = "READY")
        BY <2>1, <3>4, WokenType
      <3> QED  BY <3>3, <3>4
    <2> QED  BY <2>4, <2>5, <2>6, <2>7, <2>8
  <1> QED  BY <1>1, <1>2
-----------------------------------------------------------------------------
LEMMA StepKeepsIInv == IInv /\ [Next]_vars => IInv'
  <1> SUFFICES ASSUME IInv, [Next]_vars PROVE IInv'
    OBVIOUS
  <1> USE M4Assumption
      DEF IInv, TypeOK, CreatedInv, CurrentInv, RunnerInv, BypassInv, Dist, Base, NoTask
  <1>1. CASE SysTick
    <2>1. g_ticks' \in 0 .. TickMod - 1
      BY <1>1, ModRange DEF SysTick
    <2> QED  BY <1>1, <2>1 DEF SysTick
  <1>2. CASE PendSV
    BY <1>2, PendSVKeepsIInv
  <1>3. CASE TaskCreate
    <2>1. s_count \in TaskId /\ s_current = NoTask /\ s_count \in Nat
      BY <1>3 DEF TaskCreate, TaskId
    <2>2. TypeOK' /\ CurrentInv' /\ RunnerInv'
      BY <1>3, <2>1 DEF TaskCreate
    <2>3. CreatedInv'
      BY <1>3, <2>1 DEF TaskCreate, TaskId
    <2>4. BypassInv'
      BY <1>3, <2>1 DEF TaskCreate, TaskId
    <2> QED  BY <2>2, <2>3, <2>4
  <1>4. CASE SchedulerStart
    BY <1>4 DEF SchedulerStart
  <1>5. CASE Lost
    BY <1>5 DEF Lost, vars
  <1>6. ASSUME NEW t \in TaskId, TaskStep(t) PROVE IInv'
    <2>1. CASE Yield(t)
      BY <2>1 DEF Yield, Running
    <2>2. ASSUME NEW n \in SleepTicks, SleepCompute(t, n) PROVE IInv'
      <3>1. (g_ticks + n) % TickMod \in 0 .. TickMod - 1
        BY <2>2, ModRange
      <3> QED  BY <2>2, <3>1 DEF SleepCompute, Running
    <2>3. CASE SleepMark(t)
      BY <2>3 DEF SleepMark, Running
    <2>4. CASE SleepYield(t)
      BY <2>4 DEF SleepYield, Running
    <2>5. CASE SleepReturn(t)
      BY <2>5 DEF SleepReturn, Running
    <2> QED  BY <1>6, <2>1, <2>2, <2>3, <2>4, <2>5 DEF TaskStep
  <1>7. CASE UNCHANGED vars
    BY <1>7 DEF vars
  <1> QED  BY <1>1, <1>2, <1>3, <1>4, <1>5, <1>6, <1>7 DEF Next

(* The strengthened invariant of the port's scheduler, which the theorems  *)
(* below and those about PortTelemetry draw on.                            *)
THEOREM IInvHolds == Spec => []IInv
  BY InitIInv, StepKeepsIInv, PTL DEF Spec

(* Every step of the two tasks that share g_tlm is a step of the scheduler *)
(* or leaves it alone.                                                     *)
THEOREM PortRefinesScheduler == PortSpec => Spec
  <1>1. PortInit => Init
    BY DEF PortInit
  <1>2. [PortNext]_portVars => [Next]_vars
    <2> SUFFICES ASSUME [PortNext]_portVars PROVE [Next]_vars
      OBVIOUS
    <2> USE DEF Next
    <2>1. Shell \in TaskId /\ Telemetry \in TaskId /\ Telemetry \in Sleepers
          /\ Period \in SleepTicks
      BY M4Assumption, PortAssumption DEF TaskId, Shell
    <2>2. CASE Others
      BY <2>1, <2>2 DEF Others, TaskStep
    <2>3. CASE WritePosition \/ WriteAltitude \/ ReadPosition \/ ReadAltitude
      BY <2>3 DEF WritePosition, WriteAltitude, ReadPosition, ReadAltitude
    <2>4. CASE BeaconSleep
      BY <2>1, <2>4 DEF BeaconSleep, TaskStep
    <2>5. CASE UNCHANGED portVars
      BY <2>5 DEF portVars
    <2> QED  BY <2>2, <2>3, <2>4, <2>5 DEF PortNext
  <1> QED  BY <1>1, <1>2, PTL DEF PortSpec, Spec

(* However ticks cut task_sleep short, only the current task is RUNNING,   *)
(* and what it executes while marked asleep is the end of that call.       *)
THEOREM CurrentIsRunningHolds == Spec => []CurrentIsRunning
  <1>1. IInv => CurrentIsRunning
    BY DEF IInv, RunnerInv, CurrentIsRunning
  <1> QED  BY <1>1, IInvHolds, PTL

(* Round robin under preemption: a READY task is overtaken at most once by *)
(* each other task before it runs.                                         *)
THEOREM BoundedBypassHolds == Spec => []BoundedBypass
  <1>1. IInv => BoundedBypass
    <2> SUFFICES ASSUME IInv, NEW t \in TaskId, state[t] = "READY"
                 PROVE  passed[t] < s_count
      BY DEF BoundedBypass
    <2>1. t < s_count
      BY M4Assumption DEF IInv, TypeOK, CreatedInv, TaskId
    <2>2. Dist(Base, t) \in 1 .. s_count
      BY <2>1, CandidateDist DEF IInv
    <2>3. passed[t] + Dist(Base, t) <= s_count /\ passed[t] \in Nat /\ s_count \in Nat
      BY DEF IInv, BypassInv, TypeOK
    <2> QED  BY <2>2, <2>3
  <1> QED  BY <1>1, IInvHolds, PTL

-----------------------------------------------------------------------------
(* task_sleep.  Two facts of the port are used: g_ticks does not wrap      *)
(* while the system is up, and the shell, task 0, never sleeps.            *)
NoWrap == \A n \in SleepTicks : MaxClock + n < TickMod

(* While nothing wraps the code's numbers are the true ones.               *)
TicksInv == g_ticks = clock /\ sleep_until = due

(* The task that never sleeps is there whenever a task is looked for.      *)
ShellInv ==
    /\ at[Shell] = "body"
    /\ s_count > 0 => state[Shell] \in {"READY", "RUNNING"}

(* A task that is not asleep, or no longer, has slept long enough.         *)
SleptInv ==
    \A t \in TaskId :
        \/ at[t] = "computed"
        \/ at[t] \in {"marked", "yielded"} /\ state[t] = "SLEEPING"
        \/ clock >= due[t]

SleepInv == TicksInv /\ ShellInv /\ SleptInv

LEMMA InitSleepInv == Init => SleepInv
  BY M4Assumption, PortAssumption
     DEF Init, SleepInv, TicksInv, ShellInv, SleptInv, TaskId, Shell

LEMMA PendSVKeepsSleepInv == IInv /\ SleepInv /\ PendSV => SleepInv'
  <1> SUFFICES ASSUME IInv, SleepInv, PendSV PROVE SleepInv'
    OBVIOUS
  <1> USE DEF IInv, SleepInv
  <1>0. UNCHANGED <<g_ticks, s_count, sleep_until, at, clock, due>>
    BY DEF PendSV
  <1>1. CASE s_count = 0
    BY <1>0, <1>1 DEF PendSV, TicksInv, ShellInv, SleptInv
  <1>2. CASE s_count # 0
    <2>1. PICK next \in TaskId :
              /\ Chosen(next)
              /\ state' = [Woken EXCEPT ![next] = "RUNNING"]
      BY <1>2 DEF PendSV
    <2>2. Shell \in TaskId /\ s_count > 0 /\ state[Shell] \in {"READY", "RUNNING"}
      BY <1>2, M4Assumption DEF TypeOK, ShellInv, TaskId, Shell
    <2>3. Woken[Shell] = "READY" /\ Woken[next] = "READY"
      BY <1>2, <2>1, <2>2, WokenType, ChosenTask
    <2>4. \A t \in TaskId : state'[t] = IF t = next THEN "RUNNING" ELSE Woken[t]
      BY <2>1, WokenType
    <2>5. ShellInv'
      BY <1>0, <2>2, <2>3, <2>4 DEF ShellInv
    <2>6. ASSUME NEW t \in TaskId, state[t] = "SLEEPING", state'[t] # "SLEEPING"
          PROVE  clock >= due[t]
      <3>1. Woken[t] = "READY"
        BY <2>3, <2>4, <2>6 DEF Woken, Requeued
      <3> QED
        BY <2>6, <3>1, WokenType DEF Due, TicksInv
    <2>7. SleptInv'
      BY <1>0, <2>6 DEF SleptInv
    <2> QED  BY <1>0, <2>5, <2>7 DEF TicksInv
  <1> QED  BY <1>1, <1>2

LEMMA StepKeepsSleepInv ==
    ASSUME NoWrap, IInv, SleepInv, [Next]_vars
    PROVE  SleepInv'
  <1> USE M4Assumption, PortAssumption
      DEF IInv, TypeOK, SleepInv, TicksInv, ShellInv, SleptInv
  <1>1. CASE SysTick
    <2>1. clock + 1 < TickMod /\ clock \in Nat
      BY <1>1 DEF SysTick, NoWrap
    <2>2. (g_ticks + 1) % TickMod = clock + 1
      <3>1. clock + 1 \in 0 .. TickMod - 1
        BY <2>1
      <3> QED  BY <3>1, ModBelow
    <2> QED  BY <1>1, <2>1, <2>2 DEF SysTick
  <1>2. CASE PendSV
    BY <1>2, PendSVKeepsSleepInv
  <1>3. CASE TaskCreate
    BY <1>3 DEF TaskCreate, TaskId, Shell, CreatedInv
  <1>4. CASE SchedulerStart
    BY <1>4 DEF SchedulerStart
  <1>5. CASE Lost
    BY <1>5 DEF Lost, vars
  <1>6. ASSUME NEW t \in TaskId, TaskStep(t) PROVE SleepInv'
    <2>1. CASE Yield(t)
      BY <2>1 DEF Yield
    <2>2. ASSUME NEW n \in SleepTicks, t \in Sleepers, SleepCompute(t, n) PROVE SleepInv'
      <3>1. clock + n < TickMod /\ clock \in Nat /\ n \in Nat
        BY <2>2 DEF NoWrap
      <3>2. (g_ticks + n) % TickMod = clock + n
        <4>1. clock + n \in 0 .. TickMod - 1
          BY <3>1
        <4> QED  BY <4>1, ModBelow
      <3>3. /\ UNCHANGED <<g_ticks, s_count, state, clock>>
            /\ sleep_until' = [sleep_until EXCEPT ![t] = clock + n]
            /\ due' = [due EXCEPT ![t] = clock + n]
            /\ at' = [at EXCEPT ![t] = "computed"]
        BY <2>2, <3>2 DEF SleepCompute
      <3>4. TicksInv' /\ ShellInv'
        BY <2>2, <3>3
      <3>5. SleptInv'
        BY <3>3
      <3> QED  BY <3>4, <3>5
    <2>3. CASE SleepMark(t)
      BY <2>3 DEF SleepMark
    <2>4. CASE SleepYield(t)
      BY <2>4 DEF SleepYield
    <2>5. CASE SleepReturn(t)
      BY <2>5 DEF SleepReturn, Running, RunnerInv
    <2> QED  BY <1>6, <2>1, <2>2, <2>3, <2>4, <2>5 DEF TaskStep
  <1>7. CASE UNCHANGED vars
    BY <1>7 DEF vars
  <1> QED  BY <1>1, <1>2, <1>3, <1>4, <1>5, <1>6, <1>7 DEF Next

LEMMA SleepInvHolds ==
    ASSUME NoWrap
    PROVE  Spec => []SleepInv
  <1>1. IInv /\ SleepInv /\ [Next]_vars => SleepInv'
    BY StepKeepsSleepInv
  <1> QED  BY <1>1, InitSleepInv, IInvHolds, PTL DEF Spec

(* task_sleep(N) takes at least N ticks, wherever it is preempted.         *)
THEOREM NoEarlyReturnHolds ==
    ASSUME NoWrap
    PROVE  Spec => []NoEarlyReturn
  <1>1. SleepInv => NoEarlyReturn
    BY DEF SleepInv, SleptInv, NoEarlyReturn
  <1> QED  BY <1>1, SleepInvHolds, PTL
-----------------------------------------------------------------------------
(* The reports of the command orbit.                                       *)
Succ(x) == (x + 1) % UpdateMod

LEMMA SuccFacts ==
    ASSUME NEW x \in 0 .. UpdateMod - 1
    PROVE  /\ Succ(x) = IF x = UpdateMod - 1 THEN 0 ELSE x + 1
           /\ Succ(x) \in 0 .. UpdateMod - 1
           /\ (x - x) % UpdateMod = 0
           /\ (Succ(x) - x) % UpdateMod = 1
           /\ (x - Succ(x)) % UpdateMod = UpdateMod - 1
  <1>0. UpdateMod \in Nat \ {0} /\ UpdateMod >= 4
    BY PortAssumption
  <1>1. Succ(x) = IF x = UpdateMod - 1 THEN 0 ELSE x + 1
    <2> DEFINE y == x + 1
    <2>1. y \in 0 .. 2 * UpdateMod - 1
      BY <1>0
    <2>2. y % UpdateMod = IF y < UpdateMod THEN y ELSE y - UpdateMod
      <3> HIDE DEF y
      <3> QED  BY <1>0, <2>1, ModBelowTwice
    <2> QED  BY <1>0, <2>2 DEF Succ
  <1>2. Succ(x) \in 0 .. UpdateMod - 1
    BY <1>0, <1>1
  <1>3. (x - x) % UpdateMod = 0
    <2>1. x - x = 0 /\ 0 \in 0 .. UpdateMod - 1
      BY <1>0
    <2> QED  BY <1>0, <2>1, ModBelow
  <1>4. CASE x = UpdateMod - 1
    <2>1. Succ(x) - x \in 1 - UpdateMod .. - 1 /\ Succ(x) - x = 1 - UpdateMod
      BY <1>0, <1>1, <1>4
    <2>2. (Succ(x) - x) % UpdateMod = 1
      BY <1>0, <2>1, ModNegative
    <2>3. x - Succ(x) = UpdateMod - 1 /\ x - Succ(x) \in 0 .. UpdateMod - 1
      BY <1>0, <1>1, <1>4
    <2>4. (x - Succ(x)) % UpdateMod = UpdateMod - 1
      BY <1>0, <2>3, ModBelow
    <2> QED  BY <1>1, <1>2, <1>3, <2>2, <2>4
  <1>5. CASE x # UpdateMod - 1
    <2>1. Succ(x) - x = 1 /\ 1 \in 0 .. UpdateMod - 1
      BY <1>0, <1>1, <1>5
    <2>2. (Succ(x) - x) % UpdateMod = 1
      BY <1>0, <2>1, ModBelow
    <2>3. x - Succ(x) = -1 /\ -1 \in 1 - UpdateMod .. - 1
      BY <1>0, <1>1, <1>5
    <2>4. (x - Succ(x)) % UpdateMod = UpdateMod - 1
      BY <1>0, <2>3, ModNegative
    <2> QED  BY <1>1, <1>2, <1>3, <2>2, <2>4
  <1> QED  BY <1>4, <1>5

LEMMA SuccInjective ==
    ASSUME NEW x \in 0 .. UpdateMod - 1, NEW y \in 0 .. UpdateMod - 1, Succ(x) = Succ(y)
    PROVE  x = y
  <1> DEFINE next(z) == IF z = UpdateMod - 1 THEN 0 ELSE z + 1
  <1>1. UpdateMod \in Nat /\ x \in Nat /\ y \in Nat
    BY PortAssumption
  <1>2. Succ(x) = next(x) /\ Succ(y) = next(y)
    BY SuccFacts
  <1>3. next(x) = next(y)
    BY <1>2
  <1> QED  BY <1>1, <1>3

(* The types of the shared telemetry and of a report.                      *)
PortTypeOK ==
    /\ position \in 0 .. UpdateMod - 1 /\ altitude \in 0 .. UpdateMod - 1
    /\ beacon \in {"update", "updating", "printed"}
    /\ report \in [position : 0 .. UpdateMod - 1, altitude : 0 .. UpdateMod - 1,
                   from : Nat, upto : Nat, complete : BOOLEAN]

(* Between updates the two fields stem from the same one.                  *)
WriterInv ==
    IF beacon = "updating" THEN position = Succ(altitude) ELSE altitude = position

(* The shell gives the CPU away only at a tick, and until the report has   *)
(* taken a period no more than one update has begun; if that one is over,  *)
(* the telemetry task sleeps at least as long as the report may still take.*)
ReportInv ==
    ~ report.complete =>
        /\ clock >= report.from
        /\ clock = report.from => pc = "task" /\ ~ pendsv /\ s_current = Shell
        /\ \/ clock > report.from + Period
           \/ position = report.position
           \/ /\ position = Succ(report.position)
              /\ clock > report.from
              /\ beacon = "update" => due[Telemetry] > report.from + Period

PortInv == PortTypeOK /\ WriterInv /\ ReportInv /\ ReportSpansOneUpdate

LEMMA InitPortInv == PortInit => PortInv
  <1> SUFFICES ASSUME PortInit PROVE PortInv
    OBVIOUS
  <1>1. 0 \in 0 .. UpdateMod - 1
    BY PortAssumption
  <1>2. (0 - 0) % UpdateMod = 0
    BY <1>1, SuccFacts
  <1> QED
    BY <1>1, <1>2
       DEF PortInit, PortInv, PortTypeOK, WriterInv, ReportInv, ReportSpansOneUpdate, NoReport

(* What the scheduler and the other tasks do leaves g_tlm alone.           *)
LEMMA OthersKeepPortInv ==
    ASSUME IInv, PortInv, Others, UNCHANGED <<tlmVars, report>>
    PROVE  PortInv'
  <1> USE DEF PortInv
  <1>1. PortTypeOK' /\ WriterInv' /\ ReportSpansOneUpdate'
    BY DEF PortTypeOK, WriterInv, ReportSpansOneUpdate, tlmVars
  <1>2. clock \in Nat /\ report.from \in Nat /\ Period \in Nat
    BY M4Assumption, PortAssumption DEF IInv, TypeOK, PortTypeOK
  <1>3. SUFFICES ASSUME ~ report.complete PROVE ReportInv'
    BY <1>1 DEF ReportInv, tlmVars
  <1> USE DEF ReportInv, tlmVars
  <1>4. CASE SysTick
    BY <1>2, <1>3, <1>4 DEF SysTick
  <1>5. CASE PendSV \/ TaskCreate \/ SchedulerStart \/ Lost
    BY <1>3, <1>5 DEF PendSV, TaskCreate, SchedulerStart, Lost, vars
  <1>6. ASSUME NEW t \in TaskId \ {Shell, Telemetry}, TaskStep(t) PROVE ReportInv'
    <2> USE <1>6 DEF TaskStep, Yield, SleepCompute, SleepMark, SleepYield, SleepReturn
    <2>1. UNCHANGED clock
      OBVIOUS
    <2>2. Running(t)
      OBVIOUS
    <2>3. clock # report.from
      BY <1>3, <2>2 DEF Running
    <2>4. due'[Telemetry] = due[Telemetry]
      <3>1. CASE \E n \in SleepTicks : SleepCompute(t, n)
        BY <3>1 DEF IInv, TypeOK
      <3>2. CASE ~ \E n \in SleepTicks : SleepCompute(t, n)
        <4>1. Yield(t) \/ SleepMark(t) \/ SleepYield(t) \/ SleepReturn(t)
          BY <3>2 DEF TaskStep
        <4> QED  BY <4>1
      <3> QED  BY <3>1, <3>2
    <2> QED  BY <1>3, <2>1, <2>3, <2>4
  <1>7. CASE SleepMark(Telemetry) \/ SleepYield(Telemetry) \/ SleepReturn(Telemetry)
    BY <1>3, <1>7
       DEF SleepMark, SleepYield, SleepReturn, Running, Telemetry, Shell
  <1> QED  BY <1>3, <1>4, <1>5, <1>6, <1>7 DEF Others

LEMMA StepKeepsPortInv ==
    ASSUME IInv, SleepInv, PortInv, [PortNext]_portVars
    PROVE  PortInv'
  <1> USE DEF PortInv
  <1>0. /\ clock \in Nat /\ report.from \in Nat /\ Period \in Nat
        /\ Telemetry \in TaskId /\ due[Telemetry] \in Nat /\ Telemetry # Shell
        /\ 0 \in 0 .. UpdateMod - 1
    BY M4Assumption, PortAssumption DEF IInv, TypeOK, PortTypeOK, TaskId, Telemetry, Shell
  <1>1. CASE Others /\ UNCHANGED <<tlmVars, report>>
    BY <1>1, OthersKeepPortInv
  <1>2. CASE WritePosition
    <2> USE <1>2 DEF WritePosition, Running, vars
    <2>1. position' = Succ(position) /\ position' \in 0 .. UpdateMod - 1
      BY SuccFacts DEF Succ, PortTypeOK
    <2>2. PortTypeOK' /\ WriterInv' /\ ReportSpansOneUpdate'
      BY <2>1 DEF PortTypeOK, WriterInv, ReportSpansOneUpdate
    <2>3. clock >= due[Telemetry]
      BY <1>0 DEF SleepInv, SleptInv
    <2>4. ReportInv'
      BY <1>0, <2>1, <2>3 DEF ReportInv
    <2> QED  BY <2>2, <2>4
  <1>3. CASE WriteAltitude
    BY <1>3 DEF WriteAltitude, vars, PortTypeOK, WriterInv, ReportInv, ReportSpansOneUpdate
  <1>4. CASE BeaconSleep
    <2>1. UNCHANGED <<position, altitude, report, clock, pc, pendsv, s_current>>
      BY <1>4 DEF BeaconSleep, SleepCompute
    <2>2. beacon = "printed" /\ beacon' = "update" /\ s_current = Telemetry
      BY <1>4 DEF BeaconSleep, SleepCompute, Running
    <2>3. due'[Telemetry] = clock + Period
      BY <1>0, <1>4 DEF BeaconSleep, SleepCompute, IInv, TypeOK
    <2>4. PortTypeOK' /\ WriterInv' /\ ReportSpansOneUpdate'
      BY <2>1, <2>2 DEF PortTypeOK, WriterInv, ReportSpansOneUpdate
    <2>5. ReportInv'
      BY <1>0, <2>1, <2>2, <2>3 DEF ReportInv
    <2> QED  BY <2>4, <2>5
  <1>5. CASE ReadPosition
    <2>1. report' = [position |-> position, altitude |-> 0, from |-> clock, upto |-> 0,
                     complete |-> FALSE]
      BY <1>5 DEF ReadPosition, NoReport
    <2>2. UNCHANGED <<position, altitude, beacon, clock, pc, pendsv, s_current>>
      BY <1>5 DEF ReadPosition, vars, tlmVars
    <2>3. PortTypeOK' /\ WriterInv' /\ ReportSpansOneUpdate'
      BY <1>0, <2>1, <2>2 DEF PortTypeOK, WriterInv, ReportSpansOneUpdate
    <2>4. ReportInv'
      BY <1>0, <1>5, <2>1, <2>2 DEF ReadPosition, Running, ReportInv
    <2> QED  BY <2>3, <2>4
  <1>6. CASE ReadAltitude
    <2>1. UNCHANGED <<position, altitude, beacon, clock>>
      BY <1>6 DEF ReadAltitude, vars, tlmVars
    <2>2. ~ report.complete /\ report.position \in 0 .. UpdateMod - 1
      BY <1>6 DEF ReadAltitude, PortTypeOK
    <2>3. report' = [report EXCEPT !.altitude = altitude, !.upto = clock, !.complete = TRUE]
      BY <1>6 DEF ReadAltitude
    <2>4. /\ report'.altitude = altitude /\ report'.upto = clock /\ report'.complete
          /\ report'.position = report.position /\ report'.from = report.from
      BY <2>3 DEF PortTypeOK
    <2>5. PortTypeOK' /\ WriterInv' /\ ReportInv'
      BY <1>0, <2>1, <2>3, <2>4 DEF PortTypeOK, WriterInv, ReportInv
    <2>6. ASSUME clock - report.from <= Period
          PROVE  (altitude - report.position) % UpdateMod \in {0, 1, UpdateMod - 1}
      <3>1. \/ position = report.position
            \/ position = Succ(report.position)
        BY <1>0, <2>2, <2>6 DEF ReportInv
      <3>2. altitude = position \/ position = Succ(altitude)
        BY DEF WriterInv
      <3>3. \/ altitude = report.position
            \/ altitude = Succ(report.position)
            \/ report.position = Succ(altitude)
        <4>1. CASE altitude = position
          BY <3>1, <4>1
        <4>2. CASE position = Succ(altitude) /\ position = report.position
          BY <4>2
        <4>3. CASE position = Succ(altitude) /\ position = Succ(report.position)
          BY <2>2, <4>3, SuccInjective DEF PortTypeOK
        <4> QED  BY <3>1, <3>2, <4>1, <4>2, <4>3
      <3> QED
        BY <2>2, <3>3, SuccFacts DEF PortTypeOK
    <2>7. ReportSpansOneUpdate'
      BY <2>4, <2>6 DEF ReportSpansOneUpdate
    <2> QED  BY <2>5, <2>7
  <1>7. CASE UNCHANGED portVars
    BY <1>7 DEF portVars, vars, tlmVars, PortTypeOK, WriterInv, ReportInv,
                ReportSpansOneUpdate
  <1> QED  BY <1>1, <1>2, <1>3, <1>4, <1>5, <1>6, <1>7 DEF PortNext

(* A report printed within a beacon period mixes at most two consecutive   *)
(* updates, whatever its length and the period, wherever the two tasks     *)
(* lose the CPU.                                                           *)
THEOREM ReportSpansOneUpdateHolds ==
    ASSUME NoWrap
    PROVE  PortSpec => []ReportSpansOneUpdate
  <1>1. PortSpec => []IInv /\ []SleepInv
    BY PortRefinesScheduler, IInvHolds, SleepInvHolds, PTL
  <1>2. IInv /\ SleepInv /\ PortInv /\ [PortNext]_portVars => PortInv'
    BY StepKeepsPortInv
  <1>3. PortInv => ReportSpansOneUpdate
    BY DEF PortInv
  <1> QED  BY <1>1, <1>2, <1>3, InitPortInv, PTL DEF PortSpec
=============================================================================
