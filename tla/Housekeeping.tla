---------------------------- MODULE Housekeeping -----------------------------
(***************************************************************************)
(* The three simulated subsystems of SpaceJet OS: the power system         *)
(* (src/eps.c), attitude control (src/adcs.c) and the telemetry beacon     *)
(* (src/telemetry.c).  Each is a task that samples g_ticks, updates its    *)
(* global structure and sleeps for a period.  No call of the scheduler     *)
(* separates the sample from the update, so an update is one step; what    *)
(* can go wrong lies in when the samples fall.                             *)
(*                                                                         *)
(* The lengths are parameters, so that TLC can run several orbits; the     *)
(* comments give the values of the code.  The field `at' of a structure is *)
(* history: the tick of its sample.  Fields that nothing but a print reads *)
(* and that are functions of these (voltage, solar power, temperature,     *)
(* the other two axes and the wheels, altitude, uptime) are left out.      *)
(***************************************************************************)
EXTENDS Text

CONSTANTS
    Orbit, Sunlit,           \* ticks of an orbit (6000), of its lit part (3600)
    ChargeTicks, DrainTicks, \* ticks of a charge (20) and a discharge (40) step
    BatteryStart, BatteryMin, BatteryMax,        \* percent (82, 5, 100)
    EpsPeriod, AdcsPeriod, TlmPeriod,            \* sleeps (50, 10, 500)
    LatAmp, LonRate, LonSpan,                    \* 5160, 3, 36000
    RollPeriod, RollAmp, LockLimit,              \* 800, 450, 600
    TickMod,                 \* width of the arithmetic on ticks (2^32)
    StartTicks,              \* bound: when the boot sequence may be over
    MaxLate,                 \* bound: how long a task that is due may wait
    MaxTicks                 \* bound: timer interrupts of a behaviour

ASSUME HousekeepingAssumption ==
    /\ {Orbit, ChargeTicks, DrainTicks, EpsPeriod, AdcsPeriod, TlmPeriod, LonSpan,
        TickMod} \subseteq Nat \ {0}
    /\ {Sunlit, BatteryMin, BatteryMax, LatAmp, LonRate, RollAmp, LockLimit, MaxLate,
        MaxTicks} \subseteq Nat
    /\ Orbit % 4 = 0 /\ Sunlit < Orbit
    /\ RollPeriod \in Nat /\ RollPeriod >= 2 /\ RollPeriod % 2 = 0
    /\ BatteryStart \in BatteryMin .. BatteryMax
    /\ StartTicks \subseteq 0 .. MaxTicks

VARIABLES
    g_ticks,             \* the tick counter
    g_eps,               \* battery_pct, charging
    g_adcs,              \* roll_mdeg, locked
    g_tlm,               \* lat_cdeg, lon_cdeg, orbit_num, pkt_count
    wake,                \* when each task's sleep is over
    sunset_pct           \* history: battery_pct when the last eclipse began

hkVars == <<g_ticks, g_eps, g_adcs, g_tlm, wake, sunset_pct>>

(* eps_init, adcs_init, telemetry_init, and the first dispatch of a task.  *)
HkInit ==
    /\ g_ticks \in StartTicks
    /\ g_eps  = [battery_pct |-> BatteryStart, charging |-> TRUE, at |-> g_ticks]
    /\ g_adcs = [roll_mdeg |-> 0, locked |-> TRUE, at |-> g_ticks]
    /\ g_tlm  = [lat_cdeg |-> 0, lon_cdeg |-> 0, orbit_num |-> 1, pkt_count |-> 0,
                 at |-> g_ticks]
    /\ wake = [eps |-> g_ticks, adcs |-> g_ticks, tlm |-> g_ticks]
    /\ sunset_pct = BatteryStart

Phase(t) == t % Orbit
Due(task) == g_ticks >= wake[task]

-----------------------------------------------------------------------------
(* Mutant of CanCharge: off by one at the upper limit.                     *)
CanChargeOnce(pct) == pct <= BatteryMax

CanCharge(pct) == pct < BatteryMax

(* The battery after a sample at tick t.                                   *)
BatteryAfter(pct, t) ==
    IF Phase(t) < Sunlit
    THEN IF t % ChargeTicks = 0 /\ CanCharge(pct) THEN pct + 1 ELSE pct
    ELSE IF t % DrainTicks = 0 /\ pct > BatteryMin THEN pct - 1 ELSE pct

(* Mutant of EpsSleep: milliseconds taken for ticks of 5 ms.               *)
EpsSleepDouble == 2 * EpsPeriod

EpsSleep == EpsPeriod

(* eps_task: eps_update, then task_sleep_ms(500).                          *)
EpsTask ==
    /\ Due("eps")
    /\ g_eps' = [battery_pct |-> BatteryAfter(g_eps.battery_pct, g_ticks),
                 charging |-> Phase(g_ticks) < Sunlit, at |-> g_ticks]
    /\ wake' = [wake EXCEPT !.eps = g_ticks + EpsSleep]
    /\ UNCHANGED <<g_ticks, g_adcs, g_tlm, sunset_pct>>

(* Mutant of Falling: a sawtooth, whose second half rises again.           *)
FallingNever(p, period) == p - period \div 2

Falling(p, period) == period - p

(* tri: a triangle wave between -amp and amp.                              *)
Tri(t, period, amp) ==
    LET p == t % period
        v == IF p < period \div 2 THEN p ELSE Falling(p, period)
    IN  (v * amp * 2) \div (period \div 2) - amp

(* adcs_task: adcs_update, then task_sleep_ms(100).                        *)
AdcsTask ==
    /\ Due("adcs")
    /\ LET roll == Tri(g_ticks, RollPeriod, RollAmp) IN
       g_adcs' = [roll_mdeg |-> roll, locked |-> Magnitude(roll) < LockLimit, at |-> g_ticks]
    /\ wake' = [wake EXCEPT !.adcs = g_ticks + AdcsPeriod]
    /\ UNCHANGED <<g_ticks, g_eps, g_tlm, sunset_pct>>

Quarter == Orbit \div 4

(* Mutant of UntilEnd: copied from the second branch as it stands.         *)
UntilEndCopied(phase) == 2 * Quarter - phase

UntilEnd(phase) == 4 * Quarter - phase

(* The four branches of tlm_update's latitude.                             *)
Latitude(phase) ==
    IF phase < Quarter THEN (phase * LatAmp) \div Quarter
    ELSE IF phase < 2 * Quarter THEN ((2 * Quarter - phase) * LatAmp) \div Quarter
    ELSE IF phase < 3 * Quarter THEN -(((phase - 2 * Quarter) * LatAmp) \div Quarter)
    ELSE -((UntilEnd(phase) * LatAmp) \div Quarter)

Longitude(t) == (((t * LonRate) % TickMod) % LonSpan) - (LonSpan \div 2)

(* Mutant of NextCount: the update and the print both count the packet.    *)
NextCountTwice == g_tlm.pkt_count + 2

NextCount == g_tlm.pkt_count + 1

(* telemetry_task: tlm_update, the beacon, task_sleep_ms(5000).            *)
TlmTask ==
    /\ Due("tlm")
    /\ g_tlm' = [lat_cdeg |-> Latitude(Phase(g_ticks)), lon_cdeg |-> Longitude(g_ticks),
                 orbit_num |-> 1 + g_ticks \div Orbit,
                 pkt_count |-> NextCount, at |-> g_ticks]
    /\ wake' = [wake EXCEPT !.tlm = g_ticks + TlmPeriod]
    /\ UNCHANGED <<g_ticks, g_eps, g_adcs, sunset_pct>>

(* The timer interrupt; MaxLate bounds how long a due task can be kept     *)
(* from the CPU by the others (a beacon or a packet on the serial line).   *)
HkTick ==
    /\ g_ticks < MaxTicks
    /\ \A task \in DOMAIN wake : g_ticks < wake[task] + MaxLate
    /\ g_ticks' = g_ticks + 1
    /\ sunset_pct' = (IF Phase(g_ticks') = Sunlit THEN g_eps.battery_pct ELSE sunset_pct)
    /\ UNCHANGED <<g_eps, g_adcs, g_tlm, wake>>

HkStep == HkTick \/ EpsTask \/ AdcsTask \/ TlmTask

(* The shell has no input.                                                 *)
ShellPolls == UNCHANGED hkVars

HkSpec == HkInit /\ [][HkStep \/ ShellPolls]_hkVars

-----------------------------------------------------------------------------
(* The types of the variables; the batteries, angles and positions stay in *)
(* the ranges that eps.h, adcs.h and telemetry.h give.                     *)
HkTypeOK ==
    /\ g_ticks \in 0 .. MaxTicks
    /\ g_eps \in [battery_pct : BatteryMin .. BatteryMax, charging : BOOLEAN, at : 0 .. MaxTicks]
    /\ g_adcs \in [roll_mdeg : -RollAmp .. RollAmp, locked : BOOLEAN, at : 0 .. MaxTicks]
    /\ g_tlm \in [lat_cdeg : -LatAmp .. LatAmp, lon_cdeg : -LonSpan .. LonSpan,
                  orbit_num : Nat, pkt_count : Nat, at : 0 .. MaxTicks]
    /\ wake \in [{"eps", "adcs", "tlm"} -> Nat]
    /\ sunset_pct \in BatteryMin .. BatteryMax

(* Between two beacons the position moves as far as the time between them  *)
(* allows, over the seams of the latitude's four branches and of the orbit *)
(* too; the longitude advances by exactly LonRate per tick, modulo a turn  *)
(* (while LonRate * g_ticks does not wrap).                                *)
GroundTrackContinuous ==
    [][g_tlm'.pkt_count > g_tlm.pkt_count /\ g_tlm.pkt_count > 0 =>
         LET dt == g_tlm'.at - g_tlm.at IN
         /\ Quarter * (Magnitude(g_tlm'.lat_cdeg - g_tlm.lat_cdeg) - 1) <= dt * LatAmp
         /\ (g_tlm'.lon_cdeg - g_tlm.lon_cdeg - LonRate * dt) % LonSpan = 0]_hkVars

(* The attitude moves continuously between two updates: no jump where the  *)
(* triangle wave turns or starts over.                                     *)
AttitudeContinuous ==
    [][g_adcs'.at > g_adcs.at /\ wake.adcs > g_adcs.at =>
         RollPeriod * (Magnitude(g_adcs'.roll_mdeg - g_adcs.roll_mdeg) - 1)
             <= 4 * RollAmp * (g_adcs'.at - g_adcs.at)]_hkVars

(* The beacon's number tells the ground how long the satellite has been up *)
(* at least, and with timely tasks at most: none is lost or counted twice. *)
BeaconNumberTellsTime ==
    g_tlm.pkt_count > 0 => \E start \in StartTicks :
        LET k == g_tlm.pkt_count - 1 IN
        g_tlm.at \in start + TlmPeriod * k .. start + (TlmPeriod + MaxLate) * k + MaxLate

(* The position a beacon prints is the one the packets carry, with every   *)
(* leading zero of the hundredths; only the minus sign of a coordinate     *)
(* between -0.99 and -0.01, whose whole part is 0, is lost.                *)
BeaconReadable ==
    \A cdeg \in {g_tlm.lat_cdeg, g_tlm.lon_cdeg} :
        HundredthsOf(Hundredths(cdeg)) = IF cdeg \in -99 .. -1 THEN -cdeg ELSE cdeg

(* "Eclipse (3600 - 5999): panels dark, battery discharges." (eps.c): when *)
(* the sun rises the battery holds less than when it set.                  *)
EclipseDischarges ==
    Phase(g_ticks) = 0 /\ g_ticks > 0 =>
        g_eps.battery_pct < sunset_pct \/ sunset_pct = BatteryMin
=============================================================================
