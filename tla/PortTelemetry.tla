---------------------------- MODULE PortTelemetry ----------------------------
(***************************************************************************)
(* Two of the port's tasks that share data: telemetry_task, which rewrites *)
(* g_tlm field by field before each beacon, and the shell, whose command   *)
(* orbit prints g_tlm field by field.  Under SchedulerM4 either can lose   *)
(* the CPU between two fields.                                             *)
(*                                                                         *)
(* A field's value is the number of the update that wrote it, modulo       *)
(* UpdateMod; two fields stand for the rest: the position, which comes     *)
(* early in both functions, and the altitude, which comes late.            *)
(***************************************************************************)
EXTENDS SchedulerM4

CONSTANTS
    Period,      \* that of SleepTicks that separates two beacons (500)
    UpdateMod    \* bound: updates are told apart modulo this

Shell     == 0
Telemetry == 1

ASSUME PortAssumption ==
    /\ Period \in SleepTicks \ {0} /\ UpdateMod \in Nat /\ UpdateMod >= 4
    /\ Telemetry \in Sleepers /\ Shell \notin Sleepers

VARIABLES
    position, altitude,   \* g_tlm
    beacon,               \* telemetry_task: "update", "updating" or "printed"
    report                \* cmd_orbit: what it has read so far, and when

tlmVars  == <<position, altitude, beacon>>
portVars == <<vars, tlmVars, report>>

NoReport == [position |-> 0, altitude |-> 0, from |-> 0, upto |-> 0, complete |-> TRUE]

PortInit ==
    /\ Init
    /\ position = 0 /\ altitude = 0 /\ beacon = "update"
    /\ report = NoReport

(* tlm_update, and telemetry_print, which only reads.                      *)
WritePosition ==
    /\ Running(Telemetry) /\ at[Telemetry] = "body" /\ beacon = "update"
    /\ position' = (position + 1) % UpdateMod
    /\ beacon' = "updating"
    /\ UNCHANGED <<vars, altitude, report>>

WriteAltitude ==
    /\ Running(Telemetry) /\ beacon = "updating"
    /\ altitude' = position
    /\ beacon' = "printed"
    /\ UNCHANGED <<vars, position, report>>

(* task_sleep_ms(5000), the first of its steps.                            *)
BeaconSleep ==
    /\ beacon = "printed"
    /\ SleepCompute(Telemetry, Period)
    /\ beacon' = "update"
    /\ UNCHANGED <<position, altitude, report>>

(* cmd_orbit: the position is read before anything is printed, ...         *)
ReadPosition ==
    /\ Running(Shell) /\ report.complete
    /\ report' = [NoReport EXCEPT !.position = position, !.from = clock, !.complete = FALSE]
    /\ UNCHANGED <<vars, tlmVars>>

(* ... the altitude with the last line.                                    *)
ReadAltitude ==
    /\ Running(Shell) /\ ~ report.complete
    /\ report' = [report EXCEPT !.altitude = altitude, !.upto = clock, !.complete = TRUE]
    /\ UNCHANGED <<vars, tlmVars>>

(* The shell yields between commands only.                                 *)
Others ==
    \/ SysTick \/ PendSV \/ TaskCreate \/ SchedulerStart \/ Lost
    \/ report.complete /\ Yield(Shell)
    \/ \E t \in TaskId \ {Shell, Telemetry} : TaskStep(t)
    \/ SleepMark(Telemetry) \/ SleepYield(Telemetry) \/ SleepReturn(Telemetry)

PortNext ==
    \/ Others /\ UNCHANGED <<tlmVars, report>>
    \/ WritePosition \/ WriteAltitude \/ BeaconSleep
    \/ ReadPosition \/ ReadAltitude

PortSpec == PortInit /\ [][PortNext]_portVars

-----------------------------------------------------------------------------
(* A report printed within a beacon period may be torn, but its fields     *)
(* stem from the same update or from two consecutive ones, in either       *)
(* order, wherever the two tasks were preempted.                           *)
ReportSpansOneUpdate ==
    report.complete /\ report.upto - report.from <= Period =>
        (report.altitude - report.position) % UpdateMod \in {0, 1, UpdateMod - 1}
=============================================================================
