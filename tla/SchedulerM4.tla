----------------------------- MODULE SchedulerM4 -----------------------------
(***************************************************************************)
(* The preemptive scheduler of the STM32 port (stm32/scheduler_m4.c), with *)
(* the SysTick interrupt that requests a switch (systick.c) and the PendSV *)
(* handler that makes it (startup_m4.s).                                   *)
(*                                                                         *)
(* PendSV is pended by every SysTick and by scheduler_yield and is taken   *)
(* before the next thread instruction, so thread steps require ~ pendsv;   *)
(* it runs with interrupts disabled, hence in one step.  A task may lose   *)
(* the CPU between any two of its steps, also in the middle of task_sleep, *)
(* whose steps `at' records.                                               *)
(***************************************************************************)
EXTENDS Integers

CONSTANTS
    NTasks,      \* the tasks main() creates
    Sleepers,    \* those that call task_sleep (all but the shell)
    SleepTicks,  \* the arguments of task_sleep
    TickMod,     \* width of g_ticks and sleep_until (2^32)
    MaxClock,    \* bound: SysTick interrupts of a behaviour
    BootTicks    \* TRUE: SysTick interrupts main() as well as the tasks

ASSUME M4Assumption ==
    /\ NTasks \in Nat \ {0} /\ TickMod \in Nat \ {0} /\ MaxClock \in Nat
    /\ Sleepers \subseteq 0 .. NTasks - 1
    /\ SleepTicks \subseteq 0 .. TickMod - 1
    /\ BootTicks \in BOOLEAN

TaskId  == 0 .. NTasks - 1
NoTask  == -1

VARIABLES
    g_ticks, s_count, s_current, state, sleep_until,
    pendsv,   \* the PENDSVSET bit
    pc,       \* "main", "started" (main waits for PendSV), "task" or "lost"
    at,       \* per task: "body", or how far it is in task_sleep
    clock,    \* history: SysTick interrupts so far
    due,      \* history: clock value at which the last sleep may end
    passed    \* history: dispatches of others while READY

vars == <<g_ticks, s_count, s_current, state, sleep_until, pendsv, pc, at, clock, due, passed>>

Init ==
    /\ g_ticks = 0 /\ s_count = 0 /\ s_current = NoTask
    /\ state = [t \in TaskId |-> "DEAD"]
    /\ sleep_until = [t \in TaskId |-> 0]
    /\ pendsv = FALSE /\ pc = "main"
    /\ at = [t \in TaskId |-> "body"]
    /\ clock = 0
    /\ due = [t \in TaskId |-> 0]
    /\ passed = [t \in TaskId |-> 0]

-----------------------------------------------------------------------------
(* SysTick_Handler and timer_clear_irq.                                    *)
SysTick ==
    /\ clock < MaxClock
    /\ pc = "main" => BootTicks
    /\ clock' = clock + 1
    /\ g_ticks' = (g_ticks + 1) % TickMod
    /\ pendsv' = TRUE
    /\ UNCHANGED <<s_count, s_current, state, sleep_until, pc, at, due, passed>>

(* Mutant of Requeued: a preempted task stays RUNNING.                     *)
RequeuedNever == state

(* The three parts of pendsv_schedule.  Requeue the interrupted task ...   *)
Requeued ==
    [t \in TaskId |-> IF t = s_current /\ state[t] = "RUNNING" THEN "READY" ELSE state[t]]

(* Mutant of Due: the tick in progress counts as a full one.               *)
DueEarly(t) == g_ticks + 1 >= sleep_until[t]

Due(t) == g_ticks >= sleep_until[t]

(* ... wake the sleepers whose time has come ...                           *)
Woken ==
    [t \in TaskId |-> IF Requeued[t] = "SLEEPING" /\ Due(t) THEN "READY" ELSE Requeued[t]]

Base == IF s_current = NoTask THEN 0 ELSE s_current

(* Mutant of Candidate: the search always starts after task 0.             *)
CandidateFromZero(k) == (1 + k) % s_count

Candidate(k) == (Base + 1 + k) % s_count

(* ... and find the first READY task after the current one; without one    *)
(* the current task goes on, whatever its state.                           *)
Chosen(next) ==
    \/ \E k \in 0 .. s_count - 1 :
          /\ next = Candidate(k)
          /\ Woken[next] = "READY"
          /\ \A j \in 0 .. k - 1 : Woken[Candidate(j)] # "READY"
    \/ /\ next = Base
       /\ \A t \in TaskId : Woken[t] # "READY"

(* PendSV_Handler.  Nothing keeps the context of main(): whatever task is  *)
(* chosen, main() does not run again.  Before the first task_create there  *)
(* is no stack pointer to load, and execution is lost.                     *)
PendSV ==
    /\ pendsv
    /\ pendsv' = FALSE
    /\ IF s_count = 0
       THEN pc' = "lost" /\ UNCHANGED <<s_current, state, passed>>
       ELSE \E next \in TaskId :
              /\ Chosen(next)
              /\ pc' = "task"
              /\ s_current' = next
              /\ state' = [Woken EXCEPT ![next] = "RUNNING"]
              /\ passed' = [t \in TaskId |-> IF t # next /\ Woken[t] = "READY"
                                             THEN passed[t] + 1 ELSE 0]
    /\ UNCHANGED <<g_ticks, s_count, sleep_until, at, clock, due>>

-----------------------------------------------------------------------------
(* main(): task_create for each task in turn, then scheduler_start.        *)
TaskCreate ==
    /\ pc = "main" /\ ~ pendsv
    /\ s_count < NTasks
    /\ state' = [state EXCEPT ![s_count] = "READY"]
    /\ s_count' = s_count + 1
    /\ UNCHANGED <<g_ticks, s_current, sleep_until, pendsv, pc, at, clock, due, passed>>

SchedulerStart ==
    /\ pc = "main" /\ ~ pendsv
    /\ s_count = NTasks
    /\ pc' = "started"
    /\ pendsv' = TRUE
    /\ UNCHANGED <<g_ticks, s_count, s_current, state, sleep_until, at, clock, due, passed>>

Running(t) == pc = "task" /\ ~ pendsv /\ s_current = t

(* scheduler_yield outside task_sleep.                                     *)
Yield(t) ==
    /\ Running(t) /\ at[t] = "body"
    /\ pendsv' = TRUE
    /\ UNCHANGED <<g_ticks, s_count, s_current, state, sleep_until, pc, at, clock, due, passed>>

(* task_sleep(n): compute the wake-up time, ...                            *)
SleepCompute(t, n) ==
    /\ Running(t) /\ at[t] = "body"
    /\ sleep_until' = [sleep_until EXCEPT ![t] = (g_ticks + n) % TickMod]
    /\ due' = [due EXCEPT ![t] = clock + n]
    /\ at' = [at EXCEPT ![t] = "computed"]
    /\ UNCHANGED <<g_ticks, s_count, s_current, state, pendsv, pc, clock, passed>>

(* ... set the state, ...                                                  *)
SleepMark(t) ==
    /\ Running(t) /\ at[t] = "computed"
    /\ state' = [state EXCEPT ![t] = "SLEEPING"]
    /\ at' = [at EXCEPT ![t] = "marked"]
    /\ UNCHANGED <<g_ticks, s_count, s_current, sleep_until, pendsv, pc, clock, due, passed>>

(* ... yield, ...                                                          *)
SleepYield(t) ==
    /\ Running(t) /\ at[t] = "marked"
    /\ pendsv' = TRUE
    /\ at' = [at EXCEPT ![t] = "yielded"]
    /\ UNCHANGED <<g_ticks, s_count, s_current, state, sleep_until, pc, clock, due, passed>>

(* ... and return when the task next gets the CPU.                         *)
SleepReturn(t) ==
    /\ Running(t) /\ at[t] = "yielded"
    /\ at' = [at EXCEPT ![t] = "body"]
    /\ UNCHANGED <<g_ticks, s_count, s_current, state, sleep_until, pendsv, pc, clock, due,
                   passed>>

(* A loaded stack pointer that is none: fault_handler, for ever.           *)
Lost == pc = "lost" /\ UNCHANGED vars

TaskStep(t) ==
    \/ Yield(t)
    \/ t \in Sleepers /\ \E n \in SleepTicks : SleepCompute(t, n)
    \/ SleepMark(t) \/ SleepYield(t) \/ SleepReturn(t)

Next ==
    \/ SysTick \/ PendSV \/ TaskCreate \/ SchedulerStart \/ Lost
    \/ \E t \in TaskId : TaskStep(t)

Spec == Init /\ [][Next]_vars

-----------------------------------------------------------------------------
(* The types of the variables.                                             *)
TypeOK ==
    /\ g_ticks \in 0 .. TickMod - 1
    /\ s_count \in 0 .. NTasks
    /\ s_current \in TaskId \union {NoTask}
    /\ state \in [TaskId -> {"DEAD", "READY", "RUNNING", "SLEEPING"}]
    /\ sleep_until \in [TaskId -> 0 .. TickMod - 1]
    /\ pendsv \in BOOLEAN
    /\ pc \in {"main", "started", "task", "lost"}
    /\ at \in [TaskId -> {"body", "computed", "marked", "yielded"}]
    /\ clock \in 0 .. MaxClock
    /\ due \in [TaskId -> Nat]
    /\ passed \in [TaskId -> Nat]

(* Only the current task can be RUNNING, and no preemption, wherever it    *)
(* hits task_sleep, leaves it asleep while it executes anything but the    *)
(* rest of that call.                                                      *)
CurrentIsRunning ==
    pc = "task" => \A t \in TaskId :
        /\ state[t] = "RUNNING" => t = s_current
        /\ t = s_current /\ state[t] # "RUNNING" => at[t] \in {"marked", "yielded"}

(* task_sleep(N) returns no earlier than N ticks after it read g_ticks,    *)
(* wherever the task was preempted inside the call.  (It relies on a task  *)
(* that never sleeps: without a READY task pendsv_schedule goes on with    *)
(* the one that has just gone to sleep.)                                   *)
NoEarlyReturn == \A t \in TaskId : at[t] = "body" => clock >= due[t]

(* A READY task is overtaken at most once by each other task, however      *)
(* ticks and voluntary switches mix.                                       *)
BoundedBypass == \A t \in TaskId : state[t] = "READY" => passed[t] < s_count

(* "Boot: clock -> uart -> systick -> sjfs -> satkey -> logger -> satellite*)
(* tasks -> scheduler_start()" (main_stm32.c): by the time a task executes *)
(* main() has created all of them.                                         *)
BootCompletes == pc = "task" => s_count = NTasks
=============================================================================
