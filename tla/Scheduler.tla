------------------------------ MODULE Scheduler ------------------------------
(***************************************************************************)
(* The cooperative round-robin scheduler of SpaceJet OS (src/scheduler.c), *)
(* the timer interrupt that feeds it (timer.c, vic.c, startup.s) and the   *)
(* context switch it relies on (boot/task_switch.s).                       *)
(*                                                                         *)
(* There is one CPU.  pc says what it executes: main() creating tasks      *)
(* ("boot"), the code of task s_current ("task"), the wake loop of         *)
(* scheduler_yield ("wake"), its idle loop ("spin"), or the branch-to-self *)
(* after main returned ("halt").  The timer interrupt may occur between    *)
(* any two steps.  Each iteration of the two loops that read the volatile  *)
(* g_ticks is a step of its own; straight-line code that reads no volatile *)
(* variable is one step.                                                   *)
(***************************************************************************)
EXTENDS Integers

CONSTANTS
    MAX_TASKS,    \* size of s_tasks (8 in task.h)
    TickMod,      \* g_ticks and sleep_until are computed modulo TickMod (2^32)
    SleepTicks,   \* the arguments tasks pass to task_sleep
    MaxClock      \* bound: the number of timer interrupts of a behaviour

ASSUME SchedulerAssumption ==
    /\ MAX_TASKS \in Nat \ {0}
    /\ TickMod \in Nat \ {0}
    /\ SleepTicks \subseteq 0 .. TickMod - 1
    /\ MaxClock \in Nat

TaskId == 0 .. MAX_TASKS - 1

(* Frames: what a task's saved stack pointer denotes.  "entry" is the      *)
(* hand-built first frame, "saved" the frame task_switch pushed when the   *)
(* task last gave up the CPU, "popped" a frame already consumed: the field *)
(* sp of a task that has been resumed still points to where it was.        *)
TaskState == {"DEAD", "READY", "RUNNING", "SLEEPING"}
Frame     == {"none", "entry", "saved", "popped"}

VARIABLES
    g_ticks,            \* the tick counter, modulo TickMod
    g_preempt_request,  \* set by the interrupt, cleared by preempt_check
    s_count, s_current, \* number of tasks, index of the current one
    state, sleep_until, \* fields of s_tasks
    sp,                 \* the frame the field sp of each task points to
    pc, i,              \* what the CPU executes, index of the current loop
    loaded,             \* the frame task_switch last resumed
    clock,              \* history: timer interrupts since reset, unbounded
    due,                \* history: clock value at which a sleep is over
    passed              \* history: others dispatched since a task is READY

cpuVars  == <<s_count, s_current, state, sleep_until, sp, pc, i, loaded>>
histVars == <<due, passed>>
vars     == <<g_ticks, g_preempt_request, cpuVars, clock, histVars>>

-----------------------------------------------------------------------------
Init ==
    /\ g_ticks = 0 /\ g_preempt_request = 0 /\ clock = 0
    /\ s_count = 0 /\ s_current = 0
    /\ state = [t \in TaskId |-> "DEAD"]
    /\ sleep_until = [t \in TaskId |-> 0]
    /\ sp = [t \in TaskId |-> "none"]
    /\ pc = "boot" /\ i = 0 /\ loaded = "none"
    /\ due = [t \in TaskId |-> 0]
    /\ passed = [t \in TaskId |-> 0]

(* timer_clear_irq, called by irq_dispatch: the interrupt changes nothing  *)
(* of the interrupted context, which irq_entry saves and restores.         *)
Tick ==
    /\ clock < MaxClock
    /\ clock' = clock + 1
    /\ g_ticks' = (g_ticks + 1) % TickMod
    /\ g_preempt_request' = 1
    /\ UNCHANGED <<cpuVars, histVars>>

(* Mutant of Room: off by one.                                             *)
RoomOffByOne == s_count <= MAX_TASKS

Room == s_count < MAX_TASKS

(* task_create, called by main before scheduler_start.                     *)
TaskCreate ==
    /\ pc = "boot"
    /\ Room
    /\ state' = [state EXCEPT ![s_count] = "READY"]
    /\ sleep_until' = [sleep_until EXCEPT ![s_count] = 0]
    /\ sp' = [sp EXCEPT ![s_count] = "entry"]
    /\ s_count' = s_count + 1
    /\ UNCHANGED <<g_ticks, g_preempt_request, s_current, pc, i, loaded, clock, histVars>>

(* scheduler_start: the first switch saves into s_init_sp, never restored. *)
SchedulerStart ==
    /\ pc = "boot"
    /\ s_count > 0
    /\ s_current' = 0
    /\ state' = [state EXCEPT ![0] = "RUNNING"]
    /\ loaded' = sp[0]
    /\ sp' = [sp EXCEPT ![0] = "popped"]
    /\ pc' = "task"
    /\ UNCHANGED <<g_ticks, g_preempt_request, s_count, sleep_until, i, clock, histVars>>

(* scheduler_start with no task returns, main returns, startup.s halts.    *)
StartReturns ==
    /\ pc = "boot"
    /\ s_count = 0
    /\ pc' = "halt"
    /\ UNCHANGED <<g_ticks, g_preempt_request, s_count, s_current, state, sleep_until,
                   sp, i, loaded, clock, histVars>>

Halted == pc = "halt" /\ UNCHANGED vars

-----------------------------------------------------------------------------
(* Entering scheduler_yield: its wake loop starts at index 0.              *)
EnterYield == pc' = "wake" /\ i' = 0

(* A direct call of scheduler_yield by the running task.                   *)
Yield ==
    /\ pc = "task"
    /\ EnterYield
    /\ UNCHANGED <<g_ticks, g_preempt_request, s_count, s_current, state, sleep_until,
                   sp, loaded, clock, histVars>>

(* preempt_check with a request pending; without one it does nothing.      *)
PreemptCheck ==
    /\ pc = "task"
    /\ g_preempt_request = 1
    /\ g_preempt_request' = 0
    /\ EnterYield
    /\ UNCHANGED <<g_ticks, s_count, s_current, state, sleep_until, sp, loaded,
                   clock, histVars>>

(* task_sleep(n).  The second guard is the bound on the clock: the sleeps  *)
(* considered are those that end before the last interrupt.                *)
Sleep(n) ==
    /\ pc = "task"
    /\ clock + n <= MaxClock
    /\ sleep_until' = [sleep_until EXCEPT ![s_current] = (g_ticks + n) % TickMod]
    /\ state' = [state EXCEPT ![s_current] = "SLEEPING"]
    /\ due' = [due EXCEPT ![s_current] = clock + n]
    /\ EnterYield
    /\ UNCHANGED <<g_ticks, g_preempt_request, s_count, s_current, sp, loaded,
                   clock, passed>>

(* Mutant of Expired: the tick in progress is counted as a full one.       *)
ExpiredEarly(t) == state[t] = "SLEEPING" /\ g_ticks + 1 >= sleep_until[t]

(* Mutant of Expired: a wake-up tick that has passed unseen is missed.     *)
ExpiredExactly(t) == state[t] = "SLEEPING" /\ g_ticks = sleep_until[t]

(* The test of both wake loops.                                            *)
Expired(t) == state[t] = "SLEEPING" /\ g_ticks >= sleep_until[t]

(* One iteration of the wake loop.                                         *)
WakeScan ==
    /\ pc = "wake"
    /\ i < s_count
    /\ state' = IF Expired(i) THEN [state EXCEPT ![i] = "READY"] ELSE state
    /\ i' = i + 1
    /\ UNCHANGED <<g_ticks, g_preempt_request, s_count, s_current, sleep_until, sp,
                   pc, loaded, clock, histVars>>

(* Mutant of IsCurrent: the test for a switch to oneself is missing.       *)
IsCurrentNever(next) == FALSE

IsCurrent(next) == next = s_current

(* The end of scheduler_yield: make next RUNNING and switch to it, unless  *)
(* it is the task that is giving up the CPU, for which yield just returns. *)
SwitchTo(next, st) ==
    /\ state' = [st EXCEPT ![next] = "RUNNING"]
    /\ IF IsCurrent(next)
       THEN UNCHANGED <<s_current, sp, loaded>>
       ELSE /\ s_current' = next
            /\ loaded' = sp[next]
            /\ sp' = [sp EXCEPT ![s_current] = "saved", ![next] = "popped"]
    /\ passed' = [t \in TaskId |->
                    IF t # next /\ st[t] = "READY" THEN passed[t] + 1 ELSE 0]
    /\ pc' = "task"
    /\ UNCHANGED <<g_ticks, g_preempt_request, s_count, sleep_until, i, clock, due>>

(* Mutant of Requeued: the current task is never made READY again.         *)
RequeuedNever == state

(* The current task becomes READY unless it went to sleep.                 *)
Requeued ==
    IF state[s_current] = "RUNNING"
    THEN [state EXCEPT ![s_current] = "READY"] ELSE state

(* Mutant of Candidate: every search starts at task 0.                     *)
CandidateFromZero(k) == k

(* The k-th task after the current one in round-robin order.               *)
Candidate(k) == (s_current + 1 + k) % s_count

(* The wake loop is over: requeue the current task and switch to the first *)
(* READY task after it ...                                                 *)
PickReady ==
    /\ pc = "wake"
    /\ i = s_count
    /\ \E k \in 0 .. s_count - 1 :
          /\ Requeued[Candidate(k)] = "READY"
          /\ \A j \in 0 .. k - 1 : Requeued[Candidate(j)] # "READY"
          /\ SwitchTo(Candidate(k), Requeued)

(* Mutant of NoneReady: the search misses the task just requeued.          *)
NoneReadyButSelf == \A k \in 0 .. s_count - 1 : state[Candidate(k)] # "READY"

NoneReady == \A k \in 0 .. s_count - 1 : Requeued[Candidate(k)] # "READY"

(* ... or, when there is none, fall into the idle loop.                    *)
PickNone ==
    /\ pc = "wake"
    /\ i = s_count
    /\ NoneReady
    /\ state' = Requeued
    /\ pc' = "spin"
    /\ i' = 0
    /\ UNCHANGED <<g_ticks, g_preempt_request, s_count, s_current, sleep_until, sp,
                   loaded, clock, histVars>>

(* One iteration of the idle loop, which takes the first sleeper it finds  *)
(* expired and otherwise starts over at index 0.                           *)
SpinWake ==
    /\ pc = "spin"
    /\ Expired(i)
    /\ SwitchTo(i, state)

SpinNext ==
    /\ pc = "spin"
    /\ ~ Expired(i)
    /\ i' = IF i + 1 < s_count THEN i + 1 ELSE 0
    /\ UNCHANGED <<g_ticks, g_preempt_request, s_count, s_current, state, sleep_until,
                   sp, pc, loaded, clock, histVars>>

-----------------------------------------------------------------------------
Boot    == TaskCreate \/ SchedulerStart \/ StartReturns
GiveUp  == Yield \/ PreemptCheck \/ \E n \in SleepTicks : Sleep(n)
Resched == WakeScan \/ PickReady \/ PickNone \/ SpinWake \/ SpinNext

Next == Tick \/ Boot \/ GiveUp \/ Resched \/ Halted

Spec == Init /\ [][Next]_vars

(* The timer is periodic; code that runs makes progress; and every task    *)
(* sooner or later gives up the CPU, the contract of a cooperative system  *)
(* (scheduler.c: "Tasks call scheduler_yield() to voluntarily give up the  *)
(* CPU").                                                                  *)
Fairness == WF_vars(Tick) /\ WF_vars(Boot) /\ WF_vars(GiveUp) /\ WF_vars(Resched)

FairSpec == Spec /\ Fairness

-----------------------------------------------------------------------------
(* The types of the variables.                                             *)
TypeOK ==
    /\ g_ticks \in 0 .. TickMod - 1
    /\ g_preempt_request \in {0, 1}
    /\ s_count \in 0 .. MAX_TASKS
    /\ s_current \in TaskId
    /\ state \in [TaskId -> TaskState]
    /\ sleep_until \in [TaskId -> 0 .. TickMod - 1]
    /\ sp \in [TaskId -> Frame]
    /\ pc \in {"boot", "task", "wake", "spin", "halt"}
    /\ i \in 0 .. MAX_TASKS
    /\ loaded \in Frame
    /\ clock \in 0 .. MaxClock
    /\ due \in [TaskId -> 0 .. MaxClock]
    /\ passed \in [TaskId -> Nat]

(* Mutual exclusion of the CPU: while a task's code executes, that task    *)
(* and no other is RUNNING, however interrupts, wakes and switches fell.   *)
SingleRunner == pc = "task" => \A t \in TaskId : state[t] = "RUNNING" <=> t = s_current

(* A context switch never resumes a frame that was already consumed: this  *)
(* is what the test "next == old" protects, since task_switch(&old->sp,    *)
(* old->sp) would load the stack pointer of the task's previous switch.    *)
ResumesSavedFrame == loaded # "popped"

(* task_sleep(N) returns no earlier than N ticks after the call, whichever *)
(* of the two wake loops ended the sleep.                                  *)
NoEarlyWake == \A t \in TaskId : state[t] \in {"READY", "RUNNING"} => clock >= due[t]

(* The round robin is fair: a READY task is overtaken by at most the other *)
(* tasks once each before it is dispatched, also when tasks wake or sleep  *)
(* while it waits.                                                         *)
BoundedBypass == \A t \in TaskId : state[t] = "READY" => passed[t] < s_count

(* The CPU enters and stays in the idle loop only while every task sleeps: *)
(* a READY task cannot be stranded behind it, for the idle loop looks at   *)
(* SLEEPING tasks only.                                                    *)
IdleMeansAllAsleep == pc = "spin" => \A t \in 0 .. s_count - 1 : state[t] = "SLEEPING"

(* The scheduler implements its abstract promise: the steps below are      *)
(* abstract steps, in particular a task gives up the CPU only by itself,   *)
(* and a dispatch happens only after the release and the task's due time.  *)
Coop == INSTANCE Cooperative WITH
            Task    <- TaskId,
            None    <- MAX_TASKS,
            now     <- clock,
            created <- {t \in TaskId : t < s_count},
            due     <- due,
            running <- IF pc = "task" THEN s_current ELSE MAX_TASKS

ImplementsCooperative == Coop!Spec

(* No task starves: a task that may run gets the CPU, whether it is READY  *)
(* or has to be woken first by one of the two loops.                       *)
NoStarvation == Coop!EveryTaskRuns

(* A task that sleeps runs again, and its sleep is over by then.           *)
SleeperRuns ==
    \A t \in TaskId : (state[t] = "SLEEPING") ~> (pc = "task" /\ s_current = t)

=============================================================================
