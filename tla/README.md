# A formal model of SpaceJet OS

This directory holds TLA+ specifications of the satellite operating system in
`src/spacejet-os`, TLC configurations that check them on small instances, and
TLAPS proofs of every safety property, for every value of the constants. Paths below
are relative to `src/spacejet-os`.

## 1. The system

SpaceJet OS is a bare-metal C program for one CPU: an ARM926 under QEMU
(`boot/`, `src/`, `include/`) with a port to the STM32F405 (`stm32/`). There is
no memory protection, no heap and no C library.

| component | state it keeps | operations | hard because of |
|---|---|---|---|
| scheduler (`src/scheduler.c`, `boot/task_switch.s`) | task table: state, wake-up time, saved stack pointer; current task | `task_create`, `scheduler_start`, `scheduler_yield`, `task_sleep`, `preempt_check` | the tick counter changes while two loops read it; a switch must never resume a stale frame; starvation; the wrap of the counter |
| timer and interrupt controller (`src/timer.c`, `src/vic.c`) | `g_ticks`, `g_preempt_request`; the timer's flag, enable and mask bits | set-up, one increment per 10 ms | occurs anywhere; flags that outlive a reboot |
| boot (`boot/startup.s`, `src/main.c`) | `.bss` (cleared), `.data` (not restored) | the order of the initialisations, self test | resets in the middle; a self test that waits for an interrupt |
| file system (`src/sjfs.c`) | 24 append-only files of 4 KB in RAM that a reset keeps | init, open, create, write, read, rename | limits, duplicate names, resets |
| key (`src/satkey.c`) | the key file; `g_authenticated` | generate on first boot, verify | a reset between its steps |
| log (`src/logger.c`) | index of the log file, session open or not | init, write, close with rename | one path for all sessions, resets, full files |
| shell (`src/command.c`) | line buffer and position | line editing, public and privileged commands | combines all of these; reads a line over many yields |
| watchdog (`src/watchdog.c`) | channels with their last kick | register, kick, check | time, late checks, wrap |
| power, attitude, telemetry (`src/eps.c`, `src/adcs.c`, `src/telemetry.c`) | one structure each | one task each, sampling `g_ticks` | when the samples fall |
| CCSDS packets (`src/ccsds.c`, `src/crc.c`) | sequence counter | build, send | lengths, layout, wrap |
| preemptive scheduler (`stm32/scheduler_m4.c`, `systick.c`, `startup_m4.s`) | task table, PENDSVSET | SysTick, PendSV, `task_sleep` | a switch between any two steps |
| serial line (`src/uart.c`) | the receive FIFO of the device | poll, echo | overruns; two tasks print on one screen |
| formatting (`src/kprintf.c`, `src/kstring.c`) | none | numbers to text | signs, padding |
| STM32 clock, SPI and I2C drivers | device registers | | not modelled, see section 7 |

**How they interact.** The interrupt writes `g_ticks`, which everything reads.
Tasks call the scheduler; on the ARM926 only such a call switches tasks, so that
what a task does between two calls is atomic towards the other tasks, though
not towards the interrupt or a reset. The shell calls the key, the log and the
packets; key and log call the file system. Housekeeping tasks publish global
structures that the shell and the beacon read. After boot, the shell and the
watchdog's controlled reset are the only users of the file system.

## 2. The modules

| module | models | kind |
|---|---|---|
| `Cooperative` | what a cooperative scheduler promises its tasks | abstract specification |
| `Scheduler` | the scheduler, the interrupt and the context switch | implements `Cooperative` |
| `SchedulerProofs` | theorems about `Scheduler` | proofs |
| `SchedulerM4` | the preemptive scheduler of the port | component |
| `PortTelemetry` | the port's shell and telemetry task, preempted over shared data, on `SchedulerM4` | composition |
| `Sjfs` | the file system, as operators from stores to stores | pure operators |
| `SessionLog` | what the session log promises its readers | abstract specification |
| `Mission` | boot, key, log, shell and watchdog reset over `Sjfs`, from reset to reset | composition, implements `SessionLog` |
| `Watchdog` | channels and check | component |
| `Text` | numbers as text, and a reader of them | pure operators |
| `Housekeeping` | power, attitude and telemetry tasks and the beacon's text | component |
| `Downlink` | the packet and the ground station over `Housekeeping` | composition |
| `Interrupts` | timer, interrupt controller, and `main` up to the self test | component |
| `Console` | receive FIFO, line editor, screen and CPU, over `Interrupts` | composition |
| `SchedulerM4Proofs` | theorems about `SchedulerM4` and `PortTelemetry` | proofs |
| `WatchdogProofs` | theorems about `Watchdog` | proofs |
| `SjfsProofs` | what each operation of `Sjfs` does to files and paths | lemmas |
| `MissionProofs` | theorems about `Mission`, over `SjfsProofs` | proofs |
| `ConsoleProofs` | theorems about `Interrupts` and `Console` | proofs |
| `HousekeepingProofs` | theorems about `Housekeeping` and `Text` | proofs |
| `DownlinkProofs` | theorems about `Downlink`, over `HousekeepingProofs` | proofs |

### Scheduler

`pc` says what the CPU executes: `boot` (main), `task` (the code of
`s_current`), `wake` and `spin` (the two loops of `scheduler_yield`), `halt`.
`state`, `sleep_until`, `s_count`, `s_current`, `g_ticks` and
`g_preempt_request` are the variables of the code; `i` is the index of the loop
being run. Since the loops read the volatile `g_ticks` in every iteration, each
iteration is a step (`WakeScan`, `SpinNext`) and `Tick` may fall between any
two. The rest of `scheduler_yield` reads nothing volatile and is one step
(`PickReady`, `PickNone`, `SpinWake`).

The context switch is modelled by what a saved stack pointer denotes: `sp[t]` is
`entry` (the frame that `task_create` built), `saved` (pushed when the task gave
up the CPU) or `popped` (already resumed; the field still points there). `loaded`
is the frame last resumed. `clock`, `due` and `passed` are history: real time,
when a sleep may end, and how often a READY task was overtaken.

### Mission

The call in progress is a sequence `work` of remaining steps (`sjfs_init`,
`key_create`, `key_magic`, `logger_write`, `rename`, ...), which a command or a
reset fills and each `Do...` action shortens: a reset can fall between any two.
A file's content is a sequence of units; a log line of the operator's events and
the closing line have two, so that a full file can cut one in half. `hist[f]` is
everything ever handed to file `f`; `shown` and `presented` record the keys that
were displayed and typed. A reset clears what lies in `.bss` and keeps the store
and `s_log_idx`, which is initialised to -1 and therefore in `.data`. Closed paths
are named by the closing minute only, as in the code, where the date is fixed.
`Monitored` says whether tasks have registered watchdog channels; if so,
`WdTimeout` starts the controlled reset of `wd_check` between two lines of input.
`PullReset` is the reset line (the memory keeps its content), at any step at all.

The refinement to `SessionLog` looks at paths: a file is the open session if it has
the log path, a closed one under a closed path. The abstract log knows neither
capacity nor resets, so `ImplementsSessionLog` says that these never change a
session's text except by appending, and a closed session's not at all.

### SchedulerM4

`PendSV` is taken before the next thread instruction, so thread steps require
`~ pendsv`. `at[t]` says how far task `t` is inside `task_sleep`, which may be
preempted between its assignments. `PendSV` during `main` dispatches a task and
never returns to `main`; with no task it leaves the CPU without a valid stack
(`lost`). `BootTicks` lets the interrupt occur during `main`.

`PortTelemetry` gives two tasks a body: telemetry rewrites a position and an
altitude in two steps before it sleeps, the shell's `orbit` reads them in two. Each
field holds the number of the update that wrote it, so that a torn report shows.

### Watchdog

`wake`, `i` and `phase` are the position of `watchdog_task`; the check of one
channel is a step, because `g_ticks` advances between them. The guards of `Tick`
state what live tasks and the scheduler owe the watchdog: kicks that leave room for
a check, and a check at most `MaxDelay` late. `Registered` is a parameter because
the code's own configuration registers nobody. `wd_register` with no channel free, which
returns -1 and changes nothing, has no step: there are more channels than tasks.

### Housekeeping and Downlink

An update samples `g_ticks` and calls nothing, so it is one step; `wake` is when
a task's sleep ends, and `MaxLate` bounds how long other work may keep a due
task from the CPU. Structure fields that only a print reads and that are
functions of the modelled ones are left out. `Text` holds the conversions of
`kprintf` (which prints the sign before the padding) and of `ksnprintf`, character
by character, and the reader that turns text back into numbers.

In `Downlink` a packet is the C structure, byte by byte, each byte a tuple that
names its origin: a frame is the first `ccsds_packet_len` bytes of it, its text the
characters of the converted samples, data behind the text is uninitialised stack,
and the CRC is an ideal function, so that equality of CRCs means equality of the
bytes covered. The ground station finds the data by the format that `ccsds.h` gives
and the numbers by their keywords. `ALT`, `PITCH` and `YAW`, three more numbers
converted in the same way, are left out of the text.

### Interrupts and Console

`Interrupts` has the timer's flag (`irq_line`), the controller's enable bit and the
CPU's mask, and `boot`, the steps `main` still has to do. The handler is one step,
taken before the next step of the program (`Execute` requires that no interrupt is
pending). Before `cpu_irq_enable` the timer may expire any number of times between two
steps (`main` prints its banner), and the flag does not tell one expiry from several;
after it `ran` keeps the program faster than the timer, whose period is 10 ms: one
expiry at most per program step. `expired` is history: it counts every expiry, whether
it finds the flag set or not, modulo the width of `g_ticks`, and starts again when the
CPU begins to take interrupts; the handler does not touch it. `TicksAreExpiries`
compares the two counters: expiries before that moment, and a flag left from before a
reboot, give one tick at most, and from the self test on none is lost or counted twice.
`SoftReset` is the shell's `reboot`, which restarts the program while timer and
controller go on.

`Console` adds the receive FIFO, which drops what does not fit, the shell's `buf`, the
other tasks that get the CPU when the FIFO is empty, and the `screen`: what stands
behind the prompt. If another task prints there (`mixed`) the screen is no longer
compared. `keys` is history: the characters read since the last Enter; one that met a
full FIFO is not among them, nor on the screen, by which the operator can tell. `Survivors`
is the reference definition of line editing on it: the places behind which there were
never more erasures than characters.

## 3. What the runs check

| run | shows |
|---|---|
| `scheduler` | mutual exclusion, fresh frames, no early wake, bounded overtaking, idle loop entered only when all sleep; refinement of `Cooperative`; no starvation |
| `scheduler_wrap` | *violation*: a sleep across the wrap of `g_ticks` ends at once |
| `mission` | over resets by command, by the watchdog and by the reset line at any step, full files and a full table: authentication is sound, the key is stable, and known unless a reset cut its creation; logs are complete, separate, finished before they are closed; refinement of `SessionLog` |
| `mission_lockout` | *violation*: a reset during the first boot can lock the operator out for good |
| `m4` | the preempted `task_sleep` is safe and the round robin fair; a report of shared data is torn by one update at most |
| `m4_boot` | *violation*: the first SysTick abandons `main` |
| `watchdog` | no false reset, detection in time, a hung task leads to a reset, over a wrapping counter |
| `watchdog_unregistered` | *violation*: with the channels of `main.c` (none) a hung task goes unnoticed |
| `downlink` | what the ground can conclude from beacons and packets: the numbers in their text, sequence counts, age of the samples, continuous tracks |
| `downlink_crc` | *violation*: frames do not end with the CRC |
| `eclipse` | *violation*: with the code's constants, the battery does not discharge in an eclipse unless samples fall on multiples of ten ticks |
| `console` | `g_ticks` follows the timer expiry by expiry once interrupts are on, also over reboots; the self test passes and the shell starts; the command executed is the line as typed and edited, and the one on the screen; the other tasks run again and again once input stops |

**Bounds.** Three tasks are the smallest number for which the round robin, the
idle loop and overtaking differ from a mere alternation; sleeps of 0, 1 and 3
ticks put wake-ups before, at and after each other. `TickMod` exceeds `MaxClock`
in `scheduler`, so that no counter wraps, and is below it in `scheduler_wrap`.
`m4` runs seven ticks with sleeps of 0 to 2, enough for two beacons within one report.
In `mission` there are three sessions, of two commands each, two of which the reset
line may cut; files of seven units overflow in the middle of a line, also of a
closing one; three files are used up by the key and two logs, so that the third
session finds the table full. Two keys are needed to type a wrong one. In `watchdog`
the clock runs past `TickMod`; a check may be two ticks late and a hung task is met
at its very last moment, `DetectionTime`; there are more channels than tasks, so that a scan
passes over inactive ones. `downlink` scales the code's lengths down but keeps what
matters: periods of 10 and steps of 4 and 8 have a common divisor, a beacon every
eight falls into each quarter of the orbit, the orbit has four quarters and a dark
part, and one and a half orbits are run; the battery's limits are close to its start
so that both are met. The amplitude of the latitude and the span of the longitude are
the code's, and the longitude's rate is such that coordinates of one to five
digits, of both signs and between -0.99 and -0.01 occur.
`SeqCounts` is 2, so the count wraps at once. `eclipse` uses the code's own numbers.
In `console` a counter of three values tells a lost expiry, an exact count and a double
one apart, and wraps; `bist` gives up after three iterations and a period is over within
one; a buffer for two
characters, a FIFO of two and four keys a line make both overflow. `MaxLineKeys`
does not bound Enter, so an operator without mercy is still there.

**Fairness.** `FairSpec` of `Scheduler` has weak fairness of the interrupt (the
timer is periodic), of the steps of `main` and of `scheduler_yield` (code that
can run runs), and of a task giving up the CPU, which is the contract of a
cooperative system; `command.c` breaks it in two places (after `shutdown`, and
while input keeps coming), where no task but the shell runs. `FairSpec` of
`Watchdog` adds that live tasks kick. `Console` assumes that the timer expires, that
interrupts are served and that the CPU executes; never that the operator types or
stops. `OthersAlwaysRun` is about behaviours in which input does stop, since the
shell yields only when the FIFO is empty. Nothing assumes fairness of resets,
commands or hanging.

**Deadlock** is checked in every run; where the program really stops or waits,
the model has an explicit stuttering action (`Halted`, `ShellIdle`, `Lost`,
`ShellPolls`, `Idle`, `CpuStops`).

## 4. What is proved

Every invariant and every action property of a passing run is also a theorem; so are
both refinements. Each theorem holds for every value of the constants that the modules'
named assumptions allow (TLC evaluates these on every run), and for any bound on time
and on the number of sessions, which the models have only for TLC. A further hypothesis
is part of the theorem's statement and listed here.

`SchedulerProofs`, for every set of sleeps:

* `TypeCorrect`, `OneTaskRuns`, `FramesAreFresh`, `RoundRobinIsFair` and
  `IdleIsIdle`: the five safety invariants other than `NoEarlyWake`, without
  any further assumption, hence also over a wrap of the tick counter;
* `SleepsLastLongEnough` (`NoEarlyWake`) and `Refinement`
  (`ImplementsCooperative`), assuming `MaxClock < TickMod`, that is, before the
  first wrap. `scheduler_wrap` shows that the assumption is needed.

`SchedulerM4Proofs`, for the port, with ticks during `main` or without:

* `CurrentIsRunningHolds` and `BoundedBypassHolds`, without further assumption;
* `NoEarlyReturnHolds`, assuming `NoWrap` (clock plus any sleep stay below
  `TickMod`) and that task 0, the shell, never sleeps (part of `PortAssumption`);
* `PortRefinesScheduler`: the telemetry task and the shell take only steps that
  `SchedulerM4` allows; with it `ReportSpansOneUpdateHolds`, under `NoWrap`, for every
  period and every modulus of the update numbers.

`WatchdogProofs`, for every timeout, period, number of channels, and every counter
wider than the greatest age (`TickMod > DetectionTime`), over wraps of it:
`TypeCorrect`, `NoFalseResetHolds` and `DetectedInTimeHolds`.

`MissionProofs`, for every size of files, of the file table and of the set of keys,
and with resets between any two steps:

* `AuthenticationSound`, `SessionsKeptApart`, `FilesKeepPrefixes`,
  `ClosedLogsFinished`, `PathsUnambiguous`, `LogMissingOnlyWhenFull`, `TypeCorrect`
  and the action property `KeyNeverLost`;
* `OperatorNotLockedOut` (`KeyKnownUnlessCut`), assuming `SJFS_FILE_UNITS >= 2`: the
  key file has two units, and a file that cannot hold them (4 KB can) never has a key;
* `LogRefinement`: the mission implements `SessionLog`.

`ConsoleProofs`, for every size of line buffer and FIFO, every width of the counter and
every limit of the self test above a timer period: `TypeCorrect`, `TicksAreTime`,
`ScreenIsTrue`, `CommandIsTyped`, and `SelfTestPasses`, the safety half of
`BootReachesShell`: the self test never gives up, after a reboot neither.

`HousekeepingProofs` and `DownlinkProofs`, for every length of orbit and period, every
amplitude, size of a packet and width of the sequence count: `DownlinkTypeCorrect`,
`BeaconsStillCountTime`, `BeaconsStillReadable`, `AttitudeStillContinuous`,
`PacketsAreFresh`, `CountsHaveNoGap`, and

* `TrackStillContinuous`, assuming `NoLongitudeWrap`: `LonRate * MaxTicks < TickMod`,
  that is, during the first 165 days; after them the longitude does jump;
* `ReadingsAreRecovered`, assuming `TextFits`: no reading has more than five digits and
  `MAX_DATA` is 32 at least. In the code no reading exceeds 36000 and `MAX_DATA` is 256;
  `downlink.cfg` has the smallest size allowed.

The five about the housekeeping tasks are proved of `HkSpec` in `HousekeepingProofs`;
`SpecKeepsHouse` carries them over to `Downlink`, where the run checks them.

`WatchdogAssumption` asks for `MaxDelay <= Timeout` and a positive period: a check
held up for longer than the timeout would find live tasks silent, since they cannot
run, and kick, while it is in progress.

**The arguments.** In `Scheduler` none of the invariants is inductive alone. `IInv` adds
what ties `pc`, `s_current` and the table together: the tasks that exist are those
below `s_count` (`CreatedInv`), the current task exists (`CurrentInv`), only it
can be RUNNING and only while its code or the wake loop executes (`RunnerInv`),
every other task has a frame that was not consumed (`FrameInv`), and loop
indices are in range (`IndexInv`). Fairness of the round robin needs more:
`BypassInv` says that the times a READY task has been overtaken plus its distance
from the current task, in round-robin order, never exceed `s_count`. A dispatch
moves the current task towards every READY task it overtakes, since the search
stops at the first READY one; a dispatch from the idle loop may move anywhere,
but then, by `IdleMeansAllAsleep`, nobody is READY. The lemmas `CandidateDist`,
`CandidateCloser` and `CandidateExists` are the arithmetic of that order,
`SwitchKeepsIInv` the common end of `scheduler_yield`. `TimeInv` relates `g_ticks` and
`sleep_until` to `clock` and `due` before the wrap. The refinement maps the abstract
CPU owner to `s_current` while a task's code executes and to nobody otherwise; yields
and sleeps map to `Release`, the three kinds of dispatch to `Run`, the scans to
stuttering.

In `SchedulerM4` the distance argument is the same, but `RunnerInv` must follow
`task_sleep`: a task that is not RUNNING executes only with its state already set and,
once it has yielded, only until PendSV is taken. `SleptInv` says that a task which is
neither computing its wake-up time nor marked asleep has slept long enough; it
survives PendSV because `ShellInv` keeps a READY task in the table, so that
`pendsv_schedule` never has to go on with a sleeper. `ReportInv` then counts updates:
the shell loses the CPU only at a tick, so an update begins at a later tick than the
report, and the sleep after it ends more than a period after the report began.

In `Watchdog`, `AgeInv` says that the age the code computes modulo `TickMod` is the
true one; it is inductive only together with a bound on the age. `SilenceInv` gives
it, channel by channel in the order of the scan: what was found in time by the last
check is older by one period and two delays at most when the next one comes to it.
`AliveInv` follows the live tasks' kicks through the check, for `NoFalseReset`.

In `Mission` a reset may fall between any two steps, so that the invariant has to say
what half-done work leaves behind. `WorkInv` says that what is left to do is a chain the
code can be in, given the phase; `StoreInv` that an entry not in use is blank and that a
file holds what fits of what it was handed (its history); `KeyPlaceInv` and `KeyTextInv`
that the key file is the first entry, made before every other, and only grows towards a
key the operator was shown; `LogInv` that at most one file has the path of the open log,
the one the logger has the index of while a session is open, and that a session runs
without a log only when every entry is in use; `EndInv` that a session's last lines are
written before the rename that closes it; `CountInv` counts the first lines of sessions
against the pulls of the reset line. `SjfsProofs` says once what creating, writing and
renaming change, and that nothing else changes. For the refinement, a slot's status is
read off the path of the file and its text is what the file holds: `StepRefines` shows
that only `DoKeyCreate`, `DoLoggerInit`, `DoLoggerWrite` and `DoRename` are steps of
`SessionLog`; a write to a full file changes nothing there.

In `Console` (`IInv`), `BootInv` says that what `main` has still to do is an end of
`BootOrder`, and `TestInv` that by the time of the self test controller and CPU take
interrupts, so that the timer's next period ends it. `TicksInv` says that a flag that is
set while the program runs on is the one left when the CPU was unmasked; it is served
before the self test, so that no later expiry finds the flag set. `LineInv` ties buffer
to screen. `TypedInv` is about line editing: an order-preserving map `at` takes each
character of `buf` to its place in `keys`, hits exactly the places that stay, and (this
makes it inductive) behind the i-th of them as many more characters were typed than
erased as `buf` has after it. An erasure then removes exactly the last one.

In `Housekeeping` (`HkInv`), `WakeInv` bounds how late each task's sample is,
`SampleInv` says that a structure is the function of its tick that the code computes,
and `BeaconInv` counts beacons. Continuity is then arithmetic: the slopes of the
triangle wave and of the latitude's four branches across every seam. In `Downlink`,
`SeqInv` relates the 16-bit counter to the 14 bits last sent, over wraps of both, and
`FrameInv` the last frame to the present structures.

The conversions of `Text` are recursive functions. Since no prover instantiates the
library's induction theorems, the proofs use induction in the form of a least element: a
non-empty set of numbers has one (`Smallest`), the set of numbers with a wrong text
included. That gives `DigitsEquation` (the recursion has the solution it defines),
`DigitsRead` (a number's digits read as the number) and `HundredthsAreRead`. For
`ReadingsAreRecovered`, `LineLayout` says where in the text each number and keyword
stands, `LineIsRead` that a keyword stands nowhere else so that the ground finds the
fields, and `TextIsReceived` that the length field leads to exactly this text.


## 5. Only model-checked

Liveness (`NoStarvation`, `SleeperRuns`, `HungTaskResets`, `BootReachesShell`,
`OthersAlwaysRun`), which is beyond the prover. The six violations are TLC's
counterexamples; that nothing else goes wrong where a theorem has a hypothesis (a
wrapped counter, an unregistered task, a longer text) is not claimed.

## 6. Where code and documentation disagree

Six runs end in a violation; the manifest gives the lines. Smaller
disagreements met on the way, which no run is spent on:

* `timer.c:23` says that a yield clears `g_preempt_request`; only
  `preempt_check` does.
* `eps.h:8` gives 3200 to 4200 mV; `eps.c:44` yields up to 4400 mV.
* `kprintf` knows no `-` flag, so the columns of `help` and of the key banner
  come out as the format's text, and `tasks` prints its `%-15s` literally.
* `telemetry_print` loses the sign of coordinates between -0.99 and -0.01
  (`BeaconReadable` names the exception).
* `preempt_check` is called only where the shell yields anyway, so that a pending
  request makes it yield twice in a row and has no other effect.
* The self test asks for a tick but does not clear the timer's flag first: after a
  reboot a flag left from before satisfies it.
* `adcs.h` gives a lock state; with an amplitude of 450 and a limit of 600 mdeg
  it is always locked.
* `telemetry.c:35` says that the longitude drifts steadily; `g_ticks * 3` wraps
  after 165 days and it jumps once.
* Two sessions that end in the same minute after boot get the same closed path.
* The fields of a packet are sent in the CPU's byte order; CCSDS is big-endian.
* The sources declare no `kstrncmp`, and the port defines no `preempt_check`, so that
  neither image links as it stands; both are modelled by what their callers expect.

## 7. Not modelled, and why

The set-up of the serial line and its transmit FIFO, whose busy wait only takes
time; the clock, SPI and I2C drivers of the port, which nothing in the repository
calls, so that there is no sequence of calls to model. Of formatting, copying,
comparing and hexadecimal output; of the reports, those that only print. Stack
overflow and the registers in a frame: below the level of these models. `sjfs_init`
over a RAM that lost power: the store is either recognised or formatted, and a
recognised one is assumed intact. On the port a beacon can also break into the hex
dump of a packet, character by character; `Console` and `Downlink` model the
ARM926, where a command is never interrupted by another task.

## 8. Plan

Done, in this order of importance: the scheduler with its refinement and proofs; the
mission from reset to reset, with the watchdog's reset and the abstract log; the port's
scheduler and two of its tasks, and the watchdog, with proofs; the downlink with its
text; the interrupt path, the boot and the console; then the proofs of all safety
properties. Next:

1. State for `Scheduler` and `SchedulerM4` what holds after the wrap of the tick counter
   (by how much a sleep can be shortened), and prove it.
2. Prove the safety halves of the liveness properties: bounds on the steps in which a
   sleeper becomes READY, as `BoundedBypass` bounds those until it runs.
3. `ReadingsRecovered` for the whole text of `cmd_downlink`, with `ALT`, `PITCH` and `YAW`.
