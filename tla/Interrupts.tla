----------------------------- MODULE Interrupts ------------------------------
(***************************************************************************)
(* The tick on its way from the SP804 timer (src/timer.c) through the      *)
(* PL190 interrupt controller (src/vic.c) and irq_entry (boot/startup.s)   *)
(* to g_ticks, and the part of main() (src/main.c) that sets them up and   *)
(* tests them.  What main() does next is up to the module that extends     *)
(* this one.                                                               *)
(*                                                                         *)
(* The handler runs with interrupts masked and touches nothing the timer   *)
(* does, so it is one step; it comes before the next step of the program.  *)
(***************************************************************************)
EXTENDS Integers, Sequences

CONSTANTS
    TickMod,       \* width of g_ticks (2^32)
    WdLimit,       \* iterations after which bist gives up (10000000)
    SpinsPerTick   \* bound: iterations of bist's loop within a period

ASSUME InterruptAssumption ==
    /\ TickMod \in Nat /\ TickMod >= 2
    /\ {WdLimit, SpinsPerTick} \subseteq Nat
    /\ SpinsPerTick < WdLimit

VARIABLES
    timer_on,           \* T_CTRL: periodic, interrupt enabled
    irq_line,           \* the timer's interrupt flag
    vic_enabled,        \* VIC_INT_ENABLE has the timer's bit
    masked,             \* the I bit of the CPSR
    g_ticks, g_preempt_request,
    boot,               \* the steps main() still has to do
    t0, wd,             \* bist: the tick it started at, iterations so far
    ran,                \* history: the program has run since the last expiry
    expired             \* history: expiries since the CPU takes interrupts, mod TickMod

devVars  == <<timer_on, irq_line, vic_enabled, masked>>
tickVars == <<g_ticks, g_preempt_request>>
irqVars  == <<devVars, tickVars, boot, t0, wd, ran, expired>>

(* Mutant of BootOrder: the self test comes before the CPU takes           *)
(* interrupts.                                                             *)
BootOrderTestFirst ==
    <<"vic_init", "timer_init", "vic_enable_irq", "bist", "spin", "cpu_irq_enable", "rest">>

BootOrder ==
    <<"vic_init", "timer_init", "vic_enable_irq", "cpu_irq_enable", "bist", "spin", "rest">>

Power ==
    /\ timer_on = FALSE /\ irq_line = FALSE /\ vic_enabled = FALSE /\ masked = TRUE
    /\ g_ticks = 0 /\ g_preempt_request = 0
    /\ boot = BootOrder /\ t0 = 0 /\ wd = 0
    /\ ran = TRUE /\ expired = 0

-----------------------------------------------------------------------------
(* The timer's period is over.  The flag does not tell one expiry from     *)
(* several.  main() may take any number of periods while the CPU is masked *)
(* (it prints the banner); after that each step takes less than one.       *)
Expire ==
    /\ timer_on /\ (ran \/ masked)
    /\ irq_line' = TRUE /\ ran' = FALSE
    /\ expired' = (expired + 1) % TickMod
    /\ UNCHANGED <<timer_on, vic_enabled, masked, tickVars, boot, t0, wd>>

Pending == irq_line /\ vic_enabled /\ ~ masked

(* Mutant of Acknowledged: T_INTCLR is not written.                        *)
AcknowledgedNever == irq_line

(* What writing T_INTCLR leaves of the flag.                               *)
Acknowledged == FALSE

(* irq_entry, irq_dispatch, timer_clear_irq and the return.                *)
Irq ==
    /\ Pending
    /\ irq_line' = Acknowledged
    /\ g_ticks' = (g_ticks + 1) % TickMod
    /\ g_preempt_request' = 1
    /\ UNCHANGED <<timer_on, vic_enabled, masked, boot, t0, wd, ran, expired>>

-----------------------------------------------------------------------------
(* A step of the program in progress.                                      *)
Execute == ~ Pending /\ ran' = TRUE

BootStep(s) == Execute /\ boot # <<>> /\ Head(boot) = s

VicInit ==
    /\ BootStep("vic_init") /\ boot' = Tail(boot)
    /\ vic_enabled' = FALSE
    /\ UNCHANGED <<timer_on, irq_line, masked, tickVars, t0, wd, expired>>

(* The interrupt flag is not cleared: one left by the last session stays.  *)
TimerInit ==
    /\ BootStep("timer_init") /\ boot' = Tail(boot)
    /\ timer_on' = TRUE
    /\ UNCHANGED <<irq_line, vic_enabled, masked, tickVars, t0, wd, expired>>

VicEnableIrq ==
    /\ BootStep("vic_enable_irq") /\ boot' = Tail(boot)
    /\ vic_enabled' = TRUE
    /\ UNCHANGED <<timer_on, irq_line, masked, tickVars, t0, wd, expired>>

CpuIrqEnable ==
    /\ BootStep("cpu_irq_enable") /\ boot' = Tail(boot)
    /\ masked' = FALSE /\ expired' = 0
    /\ UNCHANGED <<timer_on, irq_line, vic_enabled, tickVars, t0, wd>>

Bist ==
    /\ BootStep("bist") /\ boot' = Tail(boot)
    /\ t0' = g_ticks /\ wd' = 0
    /\ UNCHANGED <<devVars, tickVars, expired>>

(* An iteration of bist's loop: a tick ends it, and after WdLimit of them  *)
(* the satellite stops for good.  A period is over by SpinsPerTick.        *)
BistSpin ==
    /\ BootStep("spin")
    /\ wd >= SpinsPerTick /\ g_ticks = t0 => irq_line
    /\ IF g_ticks # t0 THEN boot' = Tail(boot) /\ UNCHANGED wd
       ELSE /\ wd' = wd + 1
            /\ boot' = IF wd' > WdLimit THEN <<"failed">> ELSE boot
    /\ UNCHANGED <<devVars, tickVars, t0, expired>>

BootNext == VicInit \/ TimerInit \/ VicEnableIrq \/ CpuIrqEnable \/ Bist \/ BistSpin

(* reset_handler: masks interrupts and clears .bss; the devices go on.     *)
SoftReset ==
    /\ masked' = TRUE
    /\ g_ticks' = 0 /\ g_preempt_request' = 0
    /\ boot' = BootOrder /\ t0' = 0 /\ wd' = 0
    /\ UNCHANGED <<timer_on, irq_line, vic_enabled, expired>>

IrqTypeOK ==
    /\ {timer_on, irq_line, vic_enabled, masked, ran} \subseteq BOOLEAN
    /\ {g_ticks, t0, expired} \subseteq 0 .. TickMod - 1 /\ g_preempt_request \in {0, 1}
    /\ wd \in 0 .. WdLimit + 1

(* By how much g_ticks, with the tick that is about to be counted, is      *)
(* ahead of the timer.                                                     *)
Ahead == (g_ticks + (IF irq_line THEN 1 ELSE 0) - expired) % TickMod

(* The interrupt that was pending when the CPU was unmasked is served: the *)
(* self test has begun.                                                    *)
Serving == ~ masked /\ \A k \in DOMAIN boot : boot[k] # "bist"

(* However many expiries there were before the CPU takes interrupts, one   *)
(* left over from before a reboot included, they give one tick at most;    *)
(* from the self test to the next reboot every expiry is counted exactly   *)
(* once, whenever it falls and whatever the program does: none is lost and *)
(* none is counted twice (timer_clear_irq clears the flag it counts).      *)
TicksAreExpiries ==
    /\ [](IF masked THEN g_ticks = 0 ELSE Ahead \in {0, 1})
    /\ [][Serving /\ Serving' => Ahead' = Ahead]_irqVars
=============================================================================
