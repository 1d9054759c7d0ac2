------------------------------- MODULE Watchdog ------------------------------
(***************************************************************************)
(* The software watchdog (src/watchdog.c): channels that tasks register    *)
(* and kick, and the task that checks them once per period and resets the  *)
(* satellite when a channel has been silent for too long.                  *)
(*                                                                         *)
(* Tasks are cooperative, so no kick falls inside a check; the timer       *)
(* interrupt does, between the channels.  A task that hangs here still     *)
(* yields (a wait that never ends); one that keeps the CPU would stop the  *)
(* watchdog task as well.                                                  *)
(***************************************************************************)
EXTENDS Integers

CONSTANTS
    Task,             \* the tasks to be monitored
    Registered,       \* those that call wd_register: none in main.c
    WD_MAX_CHANNELS,  \* 8
    Timeout,          \* timeout_ticks of every channel (500)
    CheckPeriod,      \* the sleep of watchdog_task, in ticks (100)
    MaxDelay,         \* bound: how late, and long, a check may run, in ticks
    TickMod,          \* width of g_ticks (2^32)
    MaxClock          \* bound: timer interrupts of a behaviour

(* A channel that falls silent just before a check looks at it early, and  *)
(* is then looked at late: that check's delay moves the next one too.      *)
DetectionTime == Timeout + CheckPeriod + 2 * MaxDelay

ASSUME WatchdogAssumption ==
    /\ Registered \subseteq Task
    /\ WD_MAX_CHANNELS \in Nat \ {0} /\ CheckPeriod \in Nat \ {0}
    /\ {Timeout, MaxDelay, MaxClock, TickMod} \subseteq Nat
    /\ MaxDelay <= Timeout
    /\ TickMod > DetectionTime

Channel == 0 .. WD_MAX_CHANNELS - 1
NoChannel == -1

VARIABLES
    g_ticks, s_wd,
    chan,      \* the result of each task's wd_register
    hung,      \* the tasks that are silent for ever
    wake, i,   \* watchdog_task: when its sleep ends, index of the check loop
    phase,     \* "start", "sleep", "check" or "reset"
    clock,     \* history: timer interrupts so far
    kicked     \* history: clock at each task's last kick

vars == <<g_ticks, s_wd, chan, hung, wake, i, phase, clock, kicked>>

Init ==
    /\ g_ticks = 0 /\ clock = 0
    /\ s_wd = [c \in Channel |-> [active |-> FALSE, last_kick |-> 0, timeout |-> 0]]
    /\ chan = [t \in Task |-> NoChannel]
    /\ hung = {}
    /\ wake = 0 /\ i = 0 /\ phase = "start"
    /\ kicked = [t \in Task |-> 0]

-----------------------------------------------------------------------------
(* Mutant of FirstKick: last_kick is left at zero.                         *)
FirstKickNever == 0

FirstKick == g_ticks

(* wd_register: the lowest inactive channel, if there is one.              *)
WdRegister(t) ==
    /\ phase = "start"
    /\ t \in Registered /\ chan[t] = NoChannel
    /\ \E c \in Channel :
          /\ ~ s_wd[c].active
          /\ \A d \in 0 .. c - 1 : s_wd[d].active
          /\ s_wd' = [s_wd EXCEPT ![c] = [active |-> TRUE, last_kick |-> FirstKick,
                                          timeout |-> Timeout]]
          /\ chan' = [chan EXCEPT ![t] = c]
    /\ kicked' = [kicked EXCEPT ![t] = clock]
    /\ UNCHANGED <<g_ticks, hung, wake, i, phase, clock>>

(* The scheduler starts; watchdog_task checks at once.                     *)
Start ==
    /\ phase = "start"
    /\ \A t \in Registered : chan[t] # NoChannel
    /\ phase' = "check"
    /\ wake' = clock
    /\ UNCHANGED <<g_ticks, s_wd, chan, hung, i, clock, kicked>>

(* wd_kick by a task that is alive, between two checks.                    *)
WdKick(t) ==
    /\ phase = "sleep"
    /\ t \notin hung /\ chan[t] # NoChannel
    /\ s_wd' = IF s_wd[chan[t]].active
               THEN [s_wd EXCEPT ![chan[t]].last_kick = g_ticks] ELSE s_wd
    /\ kicked' = [kicked EXCEPT ![t] = clock]
    /\ UNCHANGED <<g_ticks, chan, hung, wake, i, phase, clock>>

(* A task falls silent (bounded so that its detection is in the behaviour).*)
Hang(t) ==
    /\ phase = "sleep"
    /\ t \notin hung
    /\ clock + DetectionTime < MaxClock
    /\ hung' = hung \union {t}
    /\ UNCHANGED <<g_ticks, s_wd, chan, wake, i, phase, clock, kicked>>

(* The timer interrupt.  Its guards are what the tasks owe the watchdog:   *)
(* main() and the tasks that are alive kick often enough, with room for a  *)
(* check, during which they cannot run; and the check is not held up.      *)
Tick ==
    /\ clock < MaxClock
    /\ phase # "check" => \A t \in Registered \ hung :
                            chan[t] # NoChannel => clock - kicked[t] < Timeout - MaxDelay
    /\ phase \in {"sleep", "check"} => clock < wake + MaxDelay
    /\ clock' = clock + 1
    /\ g_ticks' = (g_ticks + 1) % TickMod
    /\ UNCHANGED <<s_wd, chan, hung, wake, i, phase, kicked>>

(* Mutant of Age: signed, so that a wrapped counter gives a small age.     *)
AgeSigned(c) == g_ticks - s_wd[c].last_kick

Age(c) == (g_ticks - s_wd[c].last_kick) % TickMod

(* Mutant of ScanStart: the scan goes on behind the last channel.          *)
ScanStartLate == i

ScanStart == 0

(* watchdog_task wakes from its sleep.                                     *)
CheckStarts ==
    /\ phase = "sleep"
    /\ clock >= wake
    /\ phase' = "check" /\ i' = ScanStart
    /\ UNCHANGED <<g_ticks, s_wd, chan, hung, wake, clock, kicked>>

(* One iteration of wd_check.                                              *)
CheckOne ==
    /\ phase = "check"
    /\ i < WD_MAX_CHANNELS
    /\ IF s_wd[i].active /\ Age(i) > s_wd[i].timeout
       THEN phase' = "reset" /\ UNCHANGED i
       ELSE i' = i + 1 /\ UNCHANGED phase
    /\ UNCHANGED <<g_ticks, s_wd, chan, hung, wake, clock, kicked>>

(* wd_check returns and the task sleeps for the next period.               *)
CheckEnds ==
    /\ phase = "check"
    /\ i = WD_MAX_CHANNELS
    /\ phase' = "sleep"
    /\ wake' = clock + CheckPeriod
    /\ UNCHANGED <<g_ticks, s_wd, chan, hung, i, clock, kicked>>

Idle == (phase = "reset" \/ clock = MaxClock) /\ UNCHANGED vars

CheckStep == Start \/ CheckStarts \/ CheckOne \/ CheckEnds

Next ==
    \/ Tick \/ CheckStep \/ Idle
    \/ \E t \in Task : WdRegister(t) \/ WdKick(t) \/ Hang(t)

Spec == Init /\ [][Next]_vars

(* The timer runs, the watchdog task is scheduled, main() registers.       *)
FairSpec ==
    /\ Spec
    /\ WF_vars(Tick) /\ WF_vars(CheckStep)
    /\ \A t \in Task : WF_vars(WdRegister(t)) /\ WF_vars(t \notin hung /\ WdKick(t))

-----------------------------------------------------------------------------
(* The types of the variables.                                             *)
TypeOK ==
    /\ g_ticks \in 0 .. TickMod - 1 /\ clock \in 0 .. MaxClock
    /\ s_wd \in [Channel -> [active : BOOLEAN, last_kick : 0 .. TickMod - 1, timeout : Nat]]
    /\ chan \in [Task -> Channel \union {NoChannel}]
    /\ hung \subseteq Task
    /\ wake \in Nat /\ i \in 0 .. WD_MAX_CHANNELS
    /\ phase \in {"start", "sleep", "check", "reset"}
    /\ kicked \in [Task -> 0 .. MaxClock]

(* The satellite is never reset while every registered task is alive and   *)
(* kicks in time, also across a wrap of the tick counter.                  *)
NoFalseReset == phase = "reset" => \E t \in Registered \intersect hung : clock - kicked[t] > Timeout

(* A registered task that hangs is detected within its timeout, one check  *)
(* period and the delays of two checks.                                    *)
DetectedInTime ==
    phase # "reset" => \A t \in Registered :
        chan[t] # NoChannel => clock - kicked[t] <= DetectionTime

(* "If any channel goes silent for timeout_ticks, wd_check() triggers a    *)
(* controlled reset" (watchdog.h, which says that each task has one).      *)
HungTaskResets == \A t \in Task : (t \in hung) ~> (phase = "reset")
=============================================================================
