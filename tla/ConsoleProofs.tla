---------------------------- MODULE ConsoleProofs ----------------------------
(***************************************************************************)
(* Theorems about Interrupts and Console, for every width of the tick      *)
(* counter, every limit of the self test, every size of the line buffer    *)
(* and of the FIFO.                                                        *)
(***************************************************************************)
EXTENDS Console, SequenceTheorems, FiniteSetTheorems, TLAPS

LEMMA Constants ==
    /\ TickMod \in Nat /\ TickMod >= 2
    /\ WdLimit \in Nat /\ SpinsPerTick \in Nat /\ SpinsPerTick < WdLimit
    /\ BUF_SIZE \in Nat /\ BUF_SIZE >= 1
    /\ FifoDepth \in Nat /\ MaxLineKeys \in Nat
    /\ "BS" \notin Printable /\ "Enter" \notin Printable /\ "Other" \notin Printable
  <1>1. WdLimit \in Nat /\ SpinsPerTick \in Nat /\ FifoDepth \in Nat /\ MaxLineKeys \in Nat
    BY InterruptAssumption, ConsoleAssumption
  <1>2. QED BY <1>1, InterruptAssumption, ConsoleAssumption

(* The variables have their types; a request of the timer makes the shell  *)
(* yield once more, so that others run for one or two calls.               *)
TypeInv ==
    /\ timer_on \in BOOLEAN /\ irq_line \in BOOLEAN
    /\ vic_enabled \in BOOLEAN /\ masked \in BOOLEAN
    /\ g_ticks \in 0 .. TickMod - 1 /\ t0 \in 0 .. TickMod - 1
    /\ g_preempt_request \in {0, 1}
    /\ ran \in BOOLEAN
    /\ pc \in {"boot", "poll", "others", "halt"}
    /\ yields \in 0 .. 2 /\ (pc = "others" => yields # 0)
    /\ mixed \in BOOLEAN

(* What main() does.                                                       *)
BootSteps ==
    {"vic_init", "timer_init", "vic_enable_irq", "cpu_irq_enable", "bist", "spin", "rest"}

(* What main() has still to do is an end of BootOrder; the shell and the   *)
(* other tasks run when nothing is left.                                   *)
BootInv ==
    /\ boot \in Seq(BootSteps) /\ Len(boot) <= 7
    /\ \A k \in 1 .. Len(boot) : boot[k] = BootOrder[7 - Len(boot) + k]
    /\ (pc = "boot") <=> (Len(boot) # 0)

(* By the time of the self test interrupts are enabled, in the controller  *)
(* and in the CPU, so that it ends within a period of the timer.           *)
TestInv ==
    /\ Len(boot) > 4 \/ vic_enabled = TRUE
    /\ Len(boot) > 3 \/ masked = FALSE
    /\ wd \in 0 .. SpinsPerTick

(* The line fits into its buffer, the screen shows it unless another task  *)
(* has printed, and the shell starts with an empty one.                    *)
LineInv ==
    /\ fifo \in Seq(Key) /\ Len(fifo) <= FifoDepth
    /\ buf \in Seq(Printable) /\ Len(buf) <= BUF_SIZE - 1
    /\ pc = "boot" => buf = <<>>
    /\ pc \in {"poll", "others"} /\ ~ mixed => screen = buf

(* Before the CPU takes interrupts nothing is counted; the one that may be *)
(* pending then is served before the self test, and after that each one    *)
(* before the program goes on, hence before the timer expires again.       *)
TicksInv ==
    /\ expired \in 0 .. TickMod - 1
    /\ masked = TRUE <=> Len(boot) > 3
    /\ masked => g_ticks = 0
    /\ ~ masked => Ahead \in {0, 1}
    /\ ~ masked /\ irq_line /\ ran => Len(boot) = 3 /\ Ahead = 1

IInv == TypeInv /\ BootInv /\ TestInv /\ LineInv /\ TicksInv

-----------------------------------------------------------------------------
(* The place of each step in the order of the boot.                        *)
LEMMA BootPlaces ==
    /\ BootOrder \in Seq(BootSteps) /\ Len(BootOrder) = 7
    /\ BootOrder[1] = "vic_init" /\ BootOrder[2] = "timer_init"
    /\ BootOrder[3] = "vic_enable_irq" /\ BootOrder[4] = "cpu_irq_enable"
    /\ BootOrder[5] = "bist" /\ BootOrder[6] = "spin" /\ BootOrder[7] = "rest"
  <1>1. /\ BootOrder[1] = "vic_init" /\ BootOrder[2] = "timer_init"
        /\ BootOrder[3] = "vic_enable_irq" /\ BootOrder[4] = "cpu_irq_enable"
        /\ BootOrder[5] = "bist" /\ BootOrder[6] = "spin" /\ BootOrder[7] = "rest"
    BY DEF BootOrder
  <1>2. Len(BootOrder) = 7
    BY DEF BootOrder
  <1>3. BootOrder \in Seq(BootSteps)
    BY DEF BootOrder, BootSteps
  <1>4. QED BY <1>1, <1>2, <1>3

(* What Tail leaves of an end of BootOrder is the next shorter one.        *)
LEMMA BootAdvances ==
    ASSUME BootInv, NEW s, BootStep(s)
    PROVE  /\ Len(boot) \in 1 .. 7 /\ s = BootOrder[8 - Len(boot)]
           /\ Tail(boot) \in Seq(BootSteps) /\ Len(Tail(boot)) = Len(boot) - 1
           /\ \A k \in 1 .. Len(Tail(boot)) :
                 Tail(boot)[k] = BootOrder[7 - Len(Tail(boot)) + k]
  <1> DEFINE n == Len(boot)
  <1>1. boot \in Seq(BootSteps) /\ boot # <<>> /\ Head(boot) = s
    BY DEF BootInv, BootStep
  <1>2. n \in 1 .. 7 /\ \A k \in 1 .. n : boot[k] = BootOrder[7 - n + k]
    <2>1. n \in Nat /\ n # 0
      BY <1>1
    <2>2. n <= 7
      BY DEF BootInv
    <2> HIDE DEF n
    <2>3. n \in 1 .. 7
      BY <2>1, <2>2
    <2>4. QED BY <2>3 DEF BootInv, n
  <1>3. s = BootOrder[8 - n]
    <2>1. boot[1] = BootOrder[7 - n + 1]
      BY <1>2
    <2>2. 7 - n + 1 = 8 - n
      BY <1>2
    <2>3. QED BY <1>1, <2>1, <2>2
  <1>4. /\ Tail(boot) \in Seq(BootSteps) /\ Len(Tail(boot)) = n - 1
        /\ \A k \in 1 .. n - 1 : Tail(boot)[k] = boot[k + 1]
    BY <1>1
  <1>5. ASSUME NEW k \in 1 .. Len(Tail(boot))
        PROVE  Tail(boot)[k] = BootOrder[7 - Len(Tail(boot)) + k]
    <2>1. k \in 1 .. n - 1 /\ k + 1 \in 1 .. n
      BY <1>2, <1>4
    <2>2. Tail(boot)[k] = BootOrder[7 - n + (k + 1)]
      BY <1>2, <1>4, <2>1
    <2>3. 7 - n + (k + 1) = 7 - Len(Tail(boot)) + k
      BY <1>2, <1>4, <2>1
    <2>4. QED BY <2>2, <2>3
  <1>6. QED BY <1>2, <1>3, <1>4, <1>5

(* Where the boot is when a given step is executed.                        *)
LEMMA BootWhere ==
    ASSUME BootInv
    PROVE  /\ BootStep("vic_init") => Len(boot) = 7
           /\ BootStep("timer_init") => Len(boot) = 6
           /\ BootStep("vic_enable_irq") => Len(boot) = 5
           /\ BootStep("cpu_irq_enable") => Len(boot) = 4
           /\ BootStep("bist") => Len(boot) = 3
           /\ BootStep("spin") => Len(boot) = 2
           /\ BootStep("rest") => Len(boot) = 1
  <1> SUFFICES ASSUME NEW s, BootStep(s)
      PROVE /\ s = "vic_init" => Len(boot) = 7
            /\ s = "timer_init" => Len(boot) = 6
            /\ s = "vic_enable_irq" => Len(boot) = 5
            /\ s = "cpu_irq_enable" => Len(boot) = 4
            /\ s = "bist" => Len(boot) = 3
            /\ s = "spin" => Len(boot) = 2
            /\ s = "rest" => Len(boot) = 1
    OBVIOUS
  <1> DEFINE n == Len(boot)
  <1>1. n \in 1 .. 7 /\ s = BootOrder[8 - n]
    BY BootAdvances
  <1> HIDE DEF n
  <1>2. \/ n = 1 /\ s = BootOrder[7]
        \/ n = 2 /\ s = BootOrder[6]
        \/ n = 3 /\ s = BootOrder[5]
        \/ n = 4 /\ s = BootOrder[4]
        \/ n = 5 /\ s = BootOrder[3]
        \/ n = 6 /\ s = BootOrder[2]
        \/ n = 7 /\ s = BootOrder[1]
    BY <1>1
  <1>3. QED BY <1>2, BootPlaces DEF n

-----------------------------------------------------------------------------
(* The parts that a step of the shell, of the line or of the timer leaves  *)
(* alone.                                                                  *)
LEMMA BootKept ==
    ASSUME BootInv, TestInv, UNCHANGED <<boot, wd, vic_enabled, masked>>,
           (pc' = "boot") <=> (pc = "boot")
    PROVE  BootInv' /\ TestInv'
  BY DEF BootInv, TestInv

(* A step of main() that is not its last.                                  *)
LEMMA BootStepped ==
    ASSUME BootInv, TypeInv, UNCHANGED pc, NEW s, BootStep(s), boot' = Tail(boot),
           Len(boot) # 1
    PROVE  BootInv' /\ Len(boot') = Len(boot) - 1
  <1> DEFINE n == Len(boot)
             m == Len(boot')
  <1>1. n \in 1 .. 7 /\ n # 1 /\ m = n - 1
    BY BootAdvances
  <1>2. /\ boot' \in Seq(BootSteps)
        /\ \A k \in 1 .. m : boot'[k] = BootOrder[7 - m + k]
    BY BootAdvances
  <1>3. (pc = "boot") <=> (n # 0)
    BY DEF BootInv
  <1> HIDE DEF n, m
  <1>4. m <= 7 /\ m # 0 /\ n # 0
    BY <1>1
  <1>5. (pc' = "boot") <=> (m # 0)
    BY <1>3, <1>4
  <1>6. QED BY <1>1, <1>2, <1>4, <1>5 DEF BootInv, n, m

(* At the beginning and after a reset everything of main() is to be done.  *)
LEMMA BootBegins ==
    ASSUME NEW b, NEW p, b = BootOrder, p = "boot"
    PROVE  /\ b \in Seq(BootSteps) /\ Len(b) = 7
           /\ \A k \in 1 .. Len(b) : b[k] = BootOrder[7 - Len(b) + k]
           /\ (p = "boot") <=> (Len(b) # 0)
  <1>1. b \in Seq(BootSteps) /\ Len(b) = 7
    BY BootPlaces
  <1>2. ASSUME NEW k \in 1 .. 7 PROVE 7 - 7 + k = k
    OBVIOUS
  <1>3. QED BY <1>1, <1>2

-----------------------------------------------------------------------------
(* What is counted and what is about to be, less the expiries, modulo the  *)
(* width of the counter.                                                   *)
Gap(g, b, e) == (g + b - e) % TickMod

LEMMA GapIs ==
    ASSUME NEW g \in 0 .. TickMod - 1, NEW e \in 0 .. TickMod - 1, NEW b \in {0, 1}
    PROVE  Gap(g, b, e) = IF g + b - e < 0 THEN g + b - e + TickMod
                          ELSE IF g + b - e = TickMod THEN 0 ELSE g + b - e
  <1>1. TickMod \in Nat \ {0}
    BY Constants
  <1>2. \A n \in Nat \ {0} : \A x \in 1 - n .. n :
            x % n = IF x < 0 THEN x + n ELSE IF x = n THEN 0 ELSE x
    OBVIOUS
  <1> DEFINE d == g + b - e
  <1>3. d \in 1 - TickMod .. TickMod
    BY <1>1
  <1>4. d % TickMod = IF d < 0 THEN d + TickMod ELSE IF d = TickMod THEN 0 ELSE d
    <2> HIDE DEF d
    <2>1. QED BY <1>1, <1>2, <1>3
  <1>5. QED BY <1>4 DEF Gap

LEMMA NextTick ==
    ASSUME NEW a \in 0 .. TickMod - 1
    PROVE  /\ (a + 1) % TickMod = IF a = TickMod - 1 THEN 0 ELSE a + 1
           /\ (a + 1) % TickMod \in 0 .. TickMod - 1
  <1>1. TickMod \in Nat \ {0}
    BY Constants
  <1>2. \A n \in Nat \ {0} : \A x \in 1 .. n : x % n = IF x = n THEN 0 ELSE x
    OBVIOUS
  <1> DEFINE d == a + 1
  <1>3. d \in 1 .. TickMod
    BY <1>1
  <1>4. d % TickMod = IF d = TickMod THEN 0 ELSE d
    <2> HIDE DEF d
    <2>1. QED BY <1>1, <1>2, <1>3
  <1>5. QED BY <1>1, <1>4

(* An expiry that sets the flag and one that finds it set; a tick counted. *)
LEMMA GapMoves ==
    ASSUME NEW g \in 0 .. TickMod - 1, NEW e \in 0 .. TickMod - 1
    PROVE  /\ Gap(g, 1, (e + 1) % TickMod) = Gap(g, 0, e)
           /\ Gap(g, 1, e) = 1 => Gap(g, 1, (e + 1) % TickMod) = 0
           /\ Gap((g + 1) % TickMod, 0, e) = Gap(g, 1, e)
  <1> DEFINE n == (e + 1) % TickMod
             m == (g + 1) % TickMod
  <1>1. TickMod \in Nat /\ TickMod >= 2
    BY Constants
  <1>2. /\ n = (IF e = TickMod - 1 THEN 0 ELSE e + 1) /\ n \in 0 .. TickMod - 1
        /\ m = (IF g = TickMod - 1 THEN 0 ELSE g + 1) /\ m \in 0 .. TickMod - 1
    BY NextTick
  <1> HIDE DEF n, m
  <1>3. /\ Gap(g, 1, n) = IF g + 1 - n < 0 THEN g + 1 - n + TickMod
                          ELSE IF g + 1 - n = TickMod THEN 0 ELSE g + 1 - n
        /\ Gap(g, 0, e) = IF g + 0 - e < 0 THEN g + 0 - e + TickMod
                          ELSE IF g + 0 - e = TickMod THEN 0 ELSE g + 0 - e
        /\ Gap(g, 1, e) = IF g + 1 - e < 0 THEN g + 1 - e + TickMod
                          ELSE IF g + 1 - e = TickMod THEN 0 ELSE g + 1 - e
        /\ Gap(m, 0, e) = IF m + 0 - e < 0 THEN m + 0 - e + TickMod
                          ELSE IF m + 0 - e = TickMod THEN 0 ELSE m + 0 - e
    BY <1>2, GapIs
  <1>4. Gap(g, 1, n) = Gap(g, 0, e)
    BY <1>1, <1>2, <1>3
  <1>5. Gap(g, 1, e) = 1 => Gap(g, 1, n) = 0
    BY <1>1, <1>2, <1>3
  <1>6. Gap(m, 0, e) = Gap(g, 1, e)
    BY <1>1, <1>2, <1>3
  <1>7. QED BY <1>4, <1>5, <1>6 DEF n, m

LEMMA AheadIs ==
    /\ irq_line = TRUE => Ahead = Gap(g_ticks, 1, expired)
    /\ irq_line = FALSE => Ahead = Gap(g_ticks, 0, expired)
  BY DEF Ahead, Gap

(* When interrupts are on the flag is down whenever the program executes.  *)
LEMMA FlagIsDown ==
    ASSUME IInv, Execute, ~ masked
    PROVE  ~ irq_line
  <1>1. Len(boot) \in Nat /\ ~ (Len(boot) > 3)
    BY DEF IInv, BootInv, TicksInv
  <1>2. vic_enabled = TRUE
    BY <1>1 DEF IInv, TestInv
  <1>3. QED BY <1>2 DEF Execute, Pending

(* The steps that leave the ticks alone.                                   *)
LEMMA TicksKept ==
    ASSUME IInv, UNCHANGED <<masked, irq_line, g_ticks, expired>>, ran' = ran \/ Execute,
           Len(boot') > 3 <=> Len(boot) > 3,
           Len(boot) = 3 => Len(boot') = 3 \/ Execute
    PROVE  TicksInv'
  <1>1. Ahead' = Ahead
    BY DEF Ahead
  <1>2. ASSUME ~ masked', irq_line', ran' PROVE Len(boot') = 3 /\ Ahead' = 1
    <2>1. ~ Execute
      BY <1>2, FlagIsDown
    <2>2. Len(boot) = 3 /\ Ahead = 1
      BY <1>2, <2>1 DEF IInv, TicksInv
    <2>3. QED BY <1>1, <2>1, <2>2
  <1>3. QED BY <1>1, <1>2 DEF IInv, TicksInv

(* Lemma: the initial states satisfy the invariant.                        *)
LEMMA InitIInv == Init => IInv
  <1> SUFFICES ASSUME Init PROVE IInv
    OBVIOUS
  <1>1. TypeInv
    <2>1. 0 \in 0 .. TickMod - 1 /\ 0 \in 0 .. 2
      BY Constants
    <2>2. QED BY <2>1 DEF Init, Power, TypeInv
  <1>2. BootInv /\ Len(boot) = 7
    BY BootBegins DEF Init, Power, BootInv
  <1>3. TestInv
    BY <1>2, Constants DEF Init, Power, TestInv
  <1>4. LineInv
    BY Constants DEF Init, LineInv
  <1>5. TicksInv
    <2>1. masked = TRUE /\ g_ticks = 0 /\ expired = 0 /\ 0 \in 0 .. TickMod - 1
      BY Constants DEF Init, Power
    <2>2. QED BY <1>2, <2>1 DEF TicksInv
  <1>6. QED BY <1>1, <1>2, <1>3, <1>4, <1>5 DEF IInv

(* From the self test on an expiry finds the flag down: it is counted once *)
(* more, by the tick that is about to come.                                *)
LEMMA ExpiryCounted ==
    ASSUME IInv, Expire
    PROVE  /\ expired' \in 0 .. TickMod - 1
           /\ ~ masked => Ahead' \in {0, 1}
           /\ ~ masked /\ Len(boot) # 3 => Ahead' = Ahead
  <1>1. g_ticks \in 0 .. TickMod - 1 /\ expired \in 0 .. TickMod - 1 /\ irq_line \in BOOLEAN
    BY DEF IInv, TypeInv, TicksInv
  <1>2. expired' \in 0 .. TickMod - 1
    BY <1>1, NextTick DEF Expire
  <1>3. Ahead' = Gap(g_ticks, 1, (expired + 1) % TickMod)
    BY DEF Expire, Ahead, Gap, tickVars
  <1>4. CASE ~ irq_line
    <2>1. Ahead' = Ahead
      BY <1>1, <1>3, <1>4, AheadIs, GapMoves
    <2>2. QED BY <1>2, <2>1 DEF IInv, TicksInv
  <1>5. CASE irq_line /\ ~ masked
    <2>1. Len(boot) = 3 /\ Ahead = 1
      BY <1>5 DEF Expire, IInv, TicksInv
    <2>2. Ahead' = 0
      BY <1>1, <1>3, <1>5, <2>1, AheadIs, GapMoves
    <2>3. QED BY <1>2, <2>1, <2>2
  <1>6. QED BY <1>1, <1>2, <1>4, <1>5

(* The handler counts what it takes from the flag.                         *)
LEMMA TickCounted ==
    ASSUME IInv, Irq
    PROVE  ~ masked /\ Ahead' = Ahead /\ Ahead \in {0, 1} /\ irq_line' = FALSE
  <1>1. g_ticks \in 0 .. TickMod - 1 /\ expired \in 0 .. TickMod - 1 /\ irq_line = TRUE
    BY DEF IInv, TypeInv, TicksInv, Irq, Pending
  <1>2. ~ masked /\ irq_line' = FALSE
    BY DEF Irq, Pending, Acknowledged
  <1>3. Ahead' = Gap((g_ticks + 1) % TickMod, 0, expired)
    BY <1>2 DEF Irq, Ahead, Gap
  <1>4. Ahead' = Ahead
    BY <1>1, <1>3, AheadIs, GapMoves
  <1>5. QED BY <1>2, <1>4 DEF IInv, TicksInv

LEMMA ExpireStep ==
    ASSUME IInv, Expire, UNCHANGED <<shVars, fifo>>
    PROVE  IInv'
  <1> USE DEF IInv, Expire, shVars, tickVars
  <1>1. TypeInv'
    BY DEF TypeInv
  <1>2. BootInv' /\ TestInv'
    BY BootKept
  <1>3. LineInv'
    BY DEF LineInv
  <1>4. TicksInv'
    BY ExpiryCounted DEF TicksInv
  <1>5. QED BY <1>1, <1>2, <1>3, <1>4

LEMMA IrqStep ==
    ASSUME IInv, Irq, UNCHANGED <<shVars, fifo>>
    PROVE  IInv'
  <1> USE DEF IInv, Irq, shVars
  <1>1. TypeInv'
    <2>1. (g_ticks + 1) % TickMod \in 0 .. TickMod - 1
      BY Constants DEF TypeInv
    <2>2. QED BY <2>1 DEF TypeInv, Acknowledged
  <1>2. BootInv' /\ TestInv'
    BY BootKept
  <1>3. LineInv'
    BY DEF LineInv
  <1>4. TicksInv'
    BY TickCounted DEF TicksInv
  <1>5. QED BY <1>1, <1>2, <1>3, <1>4

LEMMA TypeStep ==
    ASSUME IInv, NEW k \in Key, Type(k)
    PROVE  IInv'
  <1> USE DEF IInv, Type, shVars, irqVars, devVars, tickVars
  <1>1. TypeInv'
    BY DEF TypeInv
  <1>2. BootInv' /\ TestInv'
    BY BootKept
  <1>3. fifo' \in Seq(Key) /\ Len(fifo') <= FifoDepth
    BY Constants DEF LineInv
  <1>4. LineInv'
    BY <1>3 DEF LineInv
  <1>5. TicksInv'
    BY TicksKept
  <1>6. QED BY <1>1, <1>2, <1>4, <1>5

(* The CPU begins to take interrupts: one is pending, or none.             *)
LEMMA Unmasked ==
    ASSUME IInv, CpuIrqEnable, Len(boot) = 4, Len(boot') = 3
    PROVE  TicksInv'
  <1>1. masked = TRUE /\ g_ticks = 0 /\ irq_line \in BOOLEAN
    BY DEF IInv, TypeInv, TicksInv
  <1>2. masked' = FALSE /\ expired' = 0 /\ g_ticks' = 0 /\ irq_line' = irq_line
    BY <1>1 DEF CpuIrqEnable, tickVars
  <1>3. 0 \in 0 .. TickMod - 1 /\ TickMod \in Nat /\ TickMod >= 2
    BY Constants
  <1>4. Gap(0, 1, 0) = 1 /\ Gap(0, 0, 0) = 0
    <2>1. Gap(0, 1, 0) = IF 0 + 1 - 0 < 0 THEN 0 + 1 - 0 + TickMod
                         ELSE IF 0 + 1 - 0 = TickMod THEN 0 ELSE 0 + 1 - 0
      BY <1>3, GapIs
    <2>2. Gap(0, 0, 0) = IF 0 + 0 - 0 < 0 THEN 0 + 0 - 0 + TickMod
                         ELSE IF 0 + 0 - 0 = TickMod THEN 0 ELSE 0 + 0 - 0
      BY <1>3, GapIs
    <2>3. QED BY <1>3, <2>1, <2>2
  <1>5. /\ irq_line = TRUE => Ahead' = Gap(0, 1, 0)
        /\ irq_line = FALSE => Ahead' = Gap(0, 0, 0)
    BY <1>2 DEF Ahead, Gap
  <1>6. Ahead' \in {0, 1} /\ (irq_line => Ahead' = 1)
    BY <1>1, <1>4, <1>5
  <1>7. QED BY <1>2, <1>3, <1>6 DEF TicksInv

(* The steps of main() up to the self test.                                *)
LEMMA BootDone ==
    ASSUME IInv, Boot
    PROVE  IInv'
  <1> USE DEF IInv, Boot, shVars, tickVars, devVars
  <1>1. CASE BistSpin
    <2>0. Len(boot) = 2
      BY <1>1, BootWhere DEF BistSpin
    <2>1. Len(boot) = 2 /\ vic_enabled /\ ~ masked
      BY <2>0 DEF TestInv
    <2>2. ~ irq_line
      BY <1>1, <2>1 DEF BistSpin, BootStep, Execute, Pending
    <2>3. g_ticks # t0 \/ wd < SpinsPerTick
      BY <1>1, <2>2, Constants DEF BistSpin, TestInv
    <2>4. wd' \in 0 .. SpinsPerTick /\ wd' <= WdLimit
      BY <1>1, <2>3, Constants DEF BistSpin, TestInv
    <2>5. \/ boot' = Tail(boot)
          \/ boot' = boot
      BY <1>1, <2>4, Constants DEF BistSpin
    <2>6. BootInv' /\ Len(boot') \in {1, 2}
      <3>1. CASE boot' = Tail(boot)
        BY <1>1, <2>1, <3>1, BootStepped DEF BistSpin
      <3>2. CASE boot' = boot
        BY <2>1, <3>2 DEF BootInv
      <3>3. QED BY <2>5, <3>1, <3>2
    <2>7. TestInv'
      BY <1>1, <2>1, <2>4, <2>6 DEF BistSpin, TestInv
    <2>8. TypeInv' /\ LineInv'
      BY <1>1 DEF BistSpin, BootStep, Execute, TypeInv, LineInv
    <2>9. TicksInv'
      <3> DEFINE n == Len(boot)
                 m == Len(boot')
      <3>1. n = 2 /\ m \in {1, 2}
        BY <2>1, <2>6
      <3> HIDE DEF n, m
      <3>2. ~ (n > 3) /\ ~ (m > 3) /\ n # 3
        BY <3>1
      <3>3. Execute /\ UNCHANGED <<masked, irq_line, g_ticks, expired>>
        BY <1>1 DEF BistSpin, BootStep
      <3>4. QED BY <3>2, <3>3, TicksKept DEF n, m
    <2>10. QED BY <2>6, <2>7, <2>8, <2>9
  <1>2. CASE VicInit \/ TimerInit \/ VicEnableIrq \/ CpuIrqEnable \/ Bist
    <2>1. /\ VicInit => Len(boot) = 7
          /\ TimerInit => Len(boot) = 6
          /\ VicEnableIrq => Len(boot) = 5
          /\ CpuIrqEnable => Len(boot) = 4
          /\ Bist => Len(boot) = 3
      BY BootWhere DEF VicInit, TimerInit, VicEnableIrq, CpuIrqEnable, Bist
    <2>2. BootInv' /\ Len(boot') = Len(boot) - 1
      <3>1. Len(boot) # 1
        BY <1>2, <2>1
      <3>2. \E s : BootStep(s) /\ boot' = Tail(boot)
        BY <1>2 DEF VicInit, TimerInit, VicEnableIrq, CpuIrqEnable, Bist
      <3>3. QED BY <3>1, <3>2, BootStepped
    <2>3. /\ VicInit => Len(boot') = 6
          /\ TimerInit => Len(boot') = 5
          /\ VicEnableIrq => Len(boot') = 4
          /\ CpuIrqEnable => Len(boot') = 3
          /\ Bist => Len(boot) = 3 /\ Len(boot') = 2
      BY <2>1, <2>2
    <2>4. TypeInv'
      BY <1>2 DEF TypeInv, VicInit, TimerInit, VicEnableIrq, CpuIrqEnable, Bist, BootStep, Execute
    <2>5. TestInv'
      <3>1. wd' \in 0 .. SpinsPerTick
        <4>1. wd' = wd \/ wd' = 0
          BY <1>2 DEF VicInit, TimerInit, VicEnableIrq, CpuIrqEnable, Bist
        <4>2. QED BY <4>1, Constants DEF TestInv
      <3>2. Len(boot') > 4 \/ vic_enabled' = TRUE
        <4>1. CASE VicInit \/ TimerInit
          <5>1. Len(boot') = 6 \/ Len(boot') = 5
            BY <2>3, <4>1, Zenon
          <5>2. QED BY <5>1
        <4>2. CASE VicEnableIrq
          BY <4>2 DEF VicEnableIrq
        <4>3. CASE CpuIrqEnable \/ Bist
          <5>1. Len(boot) = 4 \/ Len(boot) = 3
            BY <2>1, <4>3, Zenon
          <5>2. vic_enabled' = vic_enabled
            BY <4>3 DEF CpuIrqEnable, Bist
          <5>3. vic_enabled = TRUE
            <6>1. CASE Len(boot) = 4
              BY <6>1 DEF TestInv
            <6>2. CASE Len(boot) = 3
              BY <6>2 DEF TestInv
            <6>3. QED BY <5>1, <6>1, <6>2
          <5>4. QED BY <5>2, <5>3
        <4>4. QED BY <1>2, <4>1, <4>2, <4>3
      <3>3. Len(boot') > 3 \/ masked' = FALSE
        <4>1. CASE VicInit \/ TimerInit \/ VicEnableIrq
          <5>1. Len(boot') = 6 \/ Len(boot') = 5 \/ Len(boot') = 4
            BY <2>3, <4>1, Zenon
          <5>2. QED BY <5>1
        <4>2. CASE CpuIrqEnable
          BY <4>2 DEF CpuIrqEnable
        <4>3. CASE Bist
          <5>1. Len(boot) = 3
            BY <2>1, <4>3, Zenon
          <5>2. masked' = masked
            BY <4>3 DEF Bist
          <5>3. QED BY <5>1, <5>2 DEF TestInv
        <4>4. QED BY <1>2, <4>1, <4>2, <4>3
      <3>4. QED BY <3>1, <3>2, <3>3 DEF TestInv
    <2>6. LineInv'
      BY <1>2 DEF LineInv, VicInit, TimerInit, VicEnableIrq, CpuIrqEnable, Bist
    <2>7. TicksInv'
      <3>1. CASE CpuIrqEnable
        BY <2>1, <2>3, <3>1, Unmasked
      <3>2. CASE VicInit \/ TimerInit \/ VicEnableIrq \/ Bist
        <4>1. Execute /\ UNCHANGED <<masked, irq_line, g_ticks, expired>>
          BY <3>2 DEF VicInit, TimerInit, VicEnableIrq, Bist, BootStep
        <4>2. \/ Len(boot) = 7 /\ Len(boot') = 6
              \/ Len(boot) = 6 /\ Len(boot') = 5
              \/ Len(boot) = 5 /\ Len(boot') = 4
              \/ Len(boot) = 3 /\ Len(boot') = 2
          BY <2>1, <2>3, <3>2, Zenon
        <4> DEFINE n == Len(boot)
                   m == Len(boot')
        <4>3. (n = 7 /\ m = 6) \/ (n = 6 /\ m = 5) \/ (n = 5 /\ m = 4) \/ (n = 3 /\ m = 2)
          BY <4>2
        <4> HIDE DEF n, m
        <4>4. m > 3 <=> n > 3
          BY <4>3
        <4>5. QED BY <4>1, <4>4, TicksKept DEF n, m
      <3>3. QED BY <1>2, <3>1, <3>2
    <2>8. QED BY <2>2, <2>4, <2>5, <2>6, <2>7
  <1>3. QED BY <1>1, <1>2 DEF BootNext

LEMMA ShellStartsStep ==
    ASSUME IInv, ShellStarts
    PROVE  IInv'
  <1> USE DEF IInv, ShellStarts, Prompt, tickVars, devVars
  <1>1. Len(boot) = 1 /\ boot' \in Seq(BootSteps) /\ Len(boot') = 0
    <2>1. BootStep("rest") /\ boot' = Tail(boot)
      OBVIOUS
    <2>2. Len(boot) = 1
      BY <2>1, BootWhere
    <2>3. Tail(boot) \in Seq(BootSteps) /\ Len(Tail(boot)) = Len(boot) - 1
      BY <2>1, BootAdvances
    <2>4. QED BY <2>1, <2>2, <2>3
  <1>2. BootInv'
    BY <1>1 DEF BootInv
  <1>3. TestInv'
    BY <1>1 DEF TestInv
  <1>4. TypeInv'
    BY DEF TypeInv, BootStep, Execute
  <1>5. LineInv'
    <2>1. pc = "boot"
      BY <1>1 DEF BootInv
    <2>2. QED BY <2>1 DEF LineInv
  <1>6. TicksInv'
    <2> DEFINE n == Len(boot)
               m == Len(boot')
    <2>1. n = 1 /\ m = 0
      BY <1>1
    <2> HIDE DEF n, m
    <2>2. ~ (n > 3) /\ ~ (m > 3) /\ n # 3
      BY <2>1
    <2>3. Execute /\ UNCHANGED <<masked, irq_line, g_ticks, expired>>
      BY DEF BootStep
    <2>4. QED BY <2>2, <2>3, TicksKept DEF n, m
  <1>7. QED BY <1>2, <1>3, <1>4, <1>5, <1>6

LEMMA CpuStopsStep ==
    ASSUME IInv, CpuStops
    PROVE  IInv'
  <1> USE DEF IInv, CpuStops, shVars, tickVars, devVars
  <1>1. TypeInv'
    BY DEF TypeInv, Execute
  <1>2. BootInv' /\ TestInv'
    BY BootKept
  <1>3. LineInv'
    BY DEF LineInv
  <1>4. TicksInv'
    BY TicksKept
  <1>5. QED BY <1>1, <1>2, <1>3, <1>4

(* The shell gives up the CPU, and gets it back.                           *)
LEMMA PollStep ==
    ASSUME IInv, PollEmpty \/ OthersRun
    PROVE  IInv'
  <1>1. CASE PollEmpty
    <2> USE <1>1 DEF IInv, PollEmpty, AfterEmptyPoll, Shell, kept, devVars
    <2>1. TypeInv'
      BY DEF TypeInv, Execute
    <2>2. BootInv' /\ TestInv'
      BY BootKept
    <2>3. LineInv'
      BY DEF LineInv
    <2>4. TicksInv'
      BY TicksKept
    <2>5. QED BY <2>1, <2>2, <2>3, <2>4
  <1>2. CASE OthersRun
    <2> USE <1>2 DEF IInv, OthersRun, kept, devVars, tickVars
    <2>1. TypeInv'
      <3>1. yields \in 1 .. 2 /\ yields' = yields - 1
        BY DEF TypeInv
      <3>2. yields' \in 0 .. 2 /\ (pc' = "others" => yields' # 0)
        BY <3>1
      <3>3. pc' \in {"poll", "others"} /\ mixed' \in BOOLEAN /\ ran' = TRUE
        BY DEF TypeInv, Execute
      <3>4. QED BY <3>2, <3>3 DEF TypeInv
    <2>2. BootInv' /\ TestInv'
      BY BootKept
    <2>3. LineInv'
      BY DEF LineInv
    <2>4. TicksInv'
      BY TicksKept
    <2>5. QED BY <2>1, <2>2, <2>3, <2>4
  <1>3. QED BY <1>1, <1>2

(* What erasing the last character leaves.                                 *)
LEMMA FrontProps ==
    ASSUME NEW S, NEW s \in Seq(S), s # <<>>
    PROVE  Front(s) \in Seq(S) /\ Len(Front(s)) = Len(s) - 1
  <1>1. Len(s) \in Nat /\ Len(s) # 0
    OBVIOUS
  <1> DEFINE n == Len(s) - 1
  <1>2. n \in Nat /\ \A i \in 1 .. n : s[i] \in S
    BY <1>1
  <1>3. SubSeq(s, 1, n) \in Seq(S) /\ Len(SubSeq(s, 1, n)) = n
    <2> HIDE DEF n
    <2>1. SubSeq(s, 1, n) \in Seq(S) /\ Len(SubSeq(s, 1, n)) = IF 1 <= n THEN n - 1 + 1 ELSE 0
      BY <1>2, SubSeqProperties
    <2>2. QED BY <1>2, <2>1
  <1>4. QED BY <1>3 DEF Front

(* A character read, up to Enter, leaves everything but the line alone.    *)
LEMMA ReadKeeps ==
    ASSUME IInv, NEW c, Reads(c), UNCHANGED <<kept, tickVars, pc, mixed>>
    PROVE  TypeInv' /\ BootInv' /\ TestInv' /\ TicksInv'
  <1> USE DEF IInv, Reads, Shell, kept, devVars, tickVars
  <1>1. TypeInv'
    BY DEF TypeInv, Execute
  <1>2. BootInv' /\ TestInv'
    BY BootKept
  <1>3. TicksInv'
    BY TicksKept
  <1>4. QED BY <1>1, <1>2, <1>3

LEMMA FifoRead ==
    ASSUME LineInv, NEW c, Reads(c)
    PROVE  fifo' \in Seq(Key) /\ Len(fifo') <= FifoDepth /\ pc = "poll"
  <1>1. Tail(fifo) \in Seq(Key) /\ Len(Tail(fifo)) = Len(fifo) - 1 /\ Len(fifo) \in Nat
    BY DEF LineInv, Reads
  <1>2. Len(Tail(fifo)) <= FifoDepth
    BY <1>1, Constants DEF LineInv
  <1>3. QED BY <1>1, <1>2 DEF Reads, Shell

LEMMA ReadPrintableStep ==
    ASSUME IInv, NEW c \in Printable, ReadPrintable(c)
    PROVE  IInv'
  <1>1. TypeInv' /\ BootInv' /\ TestInv' /\ TicksInv'
    BY ReadKeeps DEF ReadPrintable
  <1>2. fifo' \in Seq(Key) /\ Len(fifo') <= FifoDepth /\ pc' = "poll" /\ mixed' = mixed
    BY FifoRead DEF ReadPrintable, IInv
  <1>3. buf \in Seq(Printable) /\ Len(buf) \in Nat /\ Len(buf) <= BUF_SIZE - 1
    BY DEF IInv, LineInv
  <1>4. ~ mixed => screen = buf
    BY FifoRead DEF ReadPrintable, IInv, LineInv
  <1>5. CASE Fits
    <2>1. buf' = Append(buf, c) /\ screen' = IF mixed THEN screen ELSE Append(screen, c)
      BY <1>5 DEF ReadPrintable, Echo
    <2>2. buf' \in Seq(Printable) /\ Len(buf') = Len(buf) + 1
      BY <1>3, <2>1
    <2>3. Len(buf') <= BUF_SIZE - 1
      BY <1>3, <1>5, <2>2, Constants DEF Fits
    <2>4. ~ mixed' => screen' = buf'
      BY <1>2, <1>4, <2>1
    <2>5. LineInv'
      BY <1>2, <2>2, <2>3, <2>4 DEF LineInv
    <2>6. QED BY <1>1, <2>5 DEF IInv
  <1>6. CASE ~ Fits
    <2>1. LineInv'
      BY <1>2, <1>3, <1>4, <1>6 DEF LineInv, ReadPrintable
    <2>2. QED BY <1>1, <2>1 DEF IInv
  <1>7. QED BY <1>5, <1>6

LEMMA ReadEraseStep ==
    ASSUME IInv, ReadErase
    PROVE  IInv'
  <1>1. TypeInv' /\ BootInv' /\ TestInv' /\ TicksInv'
    BY ReadKeeps DEF ReadErase
  <1>2. fifo' \in Seq(Key) /\ Len(fifo') <= FifoDepth /\ pc' = "poll" /\ mixed' = mixed
    BY FifoRead DEF ReadErase, IInv
  <1>3. buf \in Seq(Printable) /\ Len(buf) \in Nat /\ Len(buf) <= BUF_SIZE - 1
    BY DEF IInv, LineInv
  <1>4. ~ mixed => screen = buf
    BY FifoRead DEF ReadErase, IInv, LineInv
  <1>5. CASE buf # <<>>
    <2>1. buf' = Front(buf) /\ screen' = IF mixed THEN screen ELSE Erased
      BY <1>5 DEF ReadErase, Echo
    <2>2. buf' \in Seq(Printable) /\ Len(buf') = Len(buf) - 1
      BY <1>3, <1>5, <2>1, FrontProps
    <2>3. Len(buf') <= BUF_SIZE - 1
      BY <1>3, <2>2, Constants
    <2>4. ~ mixed' => screen' = buf'
      BY <1>2, <1>4, <1>5, <2>1 DEF Erased
    <2>5. LineInv'
      BY <1>2, <2>2, <2>3, <2>4 DEF LineInv
    <2>6. QED BY <1>1, <2>5 DEF IInv
  <1>6. CASE buf = <<>>
    <2>1. LineInv'
      BY <1>2, <1>3, <1>4, <1>6 DEF LineInv, ReadErase
    <2>2. QED BY <1>1, <2>1 DEF IInv
  <1>7. QED BY <1>5, <1>6

LEMMA ReadOtherStep ==
    ASSUME IInv, ReadOther
    PROVE  IInv'
  <1>1. TypeInv' /\ BootInv' /\ TestInv' /\ TicksInv'
    BY ReadKeeps DEF ReadOther
  <1>2. fifo' \in Seq(Key) /\ Len(fifo') <= FifoDepth /\ pc' = "poll" /\ mixed' = mixed
    BY FifoRead DEF ReadOther, IInv
  <1>3. LineInv'
    BY <1>2 DEF LineInv, ReadOther, IInv, Reads, Shell
  <1>4. QED BY <1>1, <1>3 DEF IInv

(* The command returns, stops the CPU, or resets it.                       *)
LEMMA ReadEnterStep ==
    ASSUME IInv, ReadEnter
    PROVE  IInv'
  <1>1. fifo' \in Seq(Key) /\ Len(fifo') <= FifoDepth /\ pc = "poll"
    BY FifoRead DEF ReadEnter, IInv
  <1>2. ran' = TRUE /\ mixed' = FALSE /\ screen' = <<>> /\ yields' = yields
    BY DEF ReadEnter, Reads, Shell, Execute, Prompt
  <1>3. BUF_SIZE - 1 >= 0
    BY Constants
  <1>4. CASE /\ UNCHANGED <<kept, tickVars>>
             /\ (pc' = "poll" /\ buf' = <<>>) \/ (pc' = "halt" /\ buf' = buf)
    <2> USE <1>4 DEF IInv, kept, devVars, tickVars
    <2>1. TypeInv'
      BY <1>2 DEF TypeInv
    <2>2. BootInv' /\ TestInv'
      BY <1>1, BootKept
    <2>3. LineInv'
      <3>1. buf' \in Seq(Printable) /\ Len(buf') <= BUF_SIZE - 1
        <4>1. CASE buf' = <<>>
          <5>1. <<>> \in Seq(Printable) /\ Len(<<>>) = 0 /\ 0 <= BUF_SIZE - 1
            BY Constants
          <5>2. QED BY <4>1, <5>1
        <4>2. CASE buf' = buf
          BY <4>2 DEF LineInv
        <4>3. QED BY <4>1, <4>2
      <3>2. pc' # "boot" /\ (pc' = "poll" => screen' = buf') /\ pc' # "others"
        BY <1>2
      <3>3. QED BY <1>1, <3>1, <3>2 DEF LineInv
    <2>4. TicksInv'
      BY TicksKept DEF ReadEnter, Reads, Shell
    <2>5. QED BY <2>1, <2>2, <2>3, <2>4
  <1>5. CASE SoftReset /\ pc' = "boot" /\ buf' = <<>>
    <2> USE <1>5 DEF IInv, SoftReset
    <2>1. TypeInv'
      <3>1. 0 \in 0 .. TickMod - 1
        BY Constants
      <3>2. QED BY <1>2, <3>1 DEF TypeInv
    <2>2. BootInv' /\ Len(boot') = 7
      BY BootBegins DEF BootInv
    <2>3. TestInv'
      BY <2>2, Constants DEF TestInv
    <2>4. LineInv'
      BY <1>1, <1>2, <1>3 DEF LineInv
    <2>5. TicksInv'
      <3>1. masked' = TRUE /\ g_ticks' = 0 /\ expired' = expired
        OBVIOUS
      <3>2. QED BY <2>2, <3>1 DEF TicksInv
    <2>6. QED BY <2>1, <2>2, <2>3, <2>4, <2>5
  <1>6. \/ /\ UNCHANGED <<kept, tickVars>>
           /\ (pc' = "poll" /\ buf' = <<>>) \/ (pc' = "halt" /\ buf' = buf)
        \/ SoftReset /\ pc' = "boot" /\ buf' = <<>>
    BY DEF ReadEnter, AfterLine, kept, devVars, tickVars
  <1>7. QED BY <1>4, <1>5, <1>6

LEMMA StutterStep ==
    ASSUME IInv, UNCHANGED vars
    PROVE  IInv'
  <1> USE DEF vars, irqVars, devVars, tickVars, shVars, IInv
  <1>1. TypeInv' /\ LineInv'
    BY DEF TypeInv, LineInv
  <1>2. BootInv' /\ TestInv'
    BY BootKept
  <1>3. TicksInv'
    BY TicksKept
  <1>4. QED BY <1>1, <1>2, <1>3

LEMMA Invariance == Spec => []IInv
  <1>1. IInv /\ [Next]_vars => IInv'
    <2> SUFFICES ASSUME IInv, [Next]_vars PROVE IInv'
      OBVIOUS
    <2>1. CASE (Expire \/ Irq) /\ UNCHANGED <<shVars, fifo>>
      BY <2>1, ExpireStep, IrqStep
    <2>2. CASE \E k \in Key : Type(k)
      BY <2>2, TypeStep
    <2>3. CASE Cpu
      BY <2>3, BootDone, ShellStartsStep, PollStep, ReadPrintableStep, ReadEraseStep,
         ReadOtherStep, ReadEnterStep, CpuStopsStep DEF Cpu
    <2>4. CASE UNCHANGED vars
      BY <2>4, StutterStep
    <2>5. QED BY <2>1, <2>2, <2>3, <2>4 DEF Next
  <1>2. QED BY InitIInv, <1>1, PTL DEF Spec

-----------------------------------------------------------------------------
(* The line editor.  What is counted of a line, before and after the next  *)
(* character.                                                              *)
LEMMA Counts ==
    ASSUME NEW s, NEW S, NEW p \in Int, NEW q \in Int
    PROVE  /\ Count(s, S, p, q) \in Nat /\ IsFiniteSet({i \in p .. q : s[i] \in S})
           /\ q < p => Count(s, S, p, q) = 0
  <1> DEFINE C == {i \in p .. q : s[i] \in S}
  <1>1. IsFiniteSet(p .. q) /\ C \in SUBSET (p .. q)
    BY FS_Interval
  <1>2. IsFiniteSet(C) /\ Cardinality(C) \in Nat
    BY <1>1, FS_Subset, FS_CardinalityType
  <1>3. q < p => C = {}
    OBVIOUS
  <1>4. QED BY <1>2, <1>3, FS_EmptySet DEF Count

LEMMA CountsAppended ==
    ASSUME NEW T, NEW s \in Seq(T), NEW c \in T, NEW S, NEW p \in Int, NEW q \in Int,
           1 <= p, p <= Len(s) + 1, q <= Len(s)
    PROVE  /\ Count(Append(s, c), S, p, q) = Count(s, S, p, q)
           /\ c \in S => Count(Append(s, c), S, p, Len(s) + 1) = Count(s, S, p, Len(s)) + 1
           /\ c \notin S => Count(Append(s, c), S, p, Len(s) + 1) = Count(s, S, p, Len(s))
  <1> DEFINE n == Len(s)
             m == n + 1
             z == Append(s, c)
             Old == {i \in p .. n : s[i] \in S}
             New == {i \in p .. m : z[i] \in S}
  <1>1. n \in Nat /\ n \in Int /\ m \in Nat /\ n < m /\ m \in p .. m
    OBVIOUS
  <1>2. \A i \in p .. n : z[i] = s[i]
    OBVIOUS
  <1>3. z[m] = c
    OBVIOUS
  <1>4. \A i : i \in p .. m <=> (i \in p .. n \/ i = m)
    <2>1. \A i \in Int : i \in p .. m <=> (i \in p .. n \/ i = m)
      BY <1>1
    <2>2. p .. m \subseteq Int /\ p .. n \subseteq Int /\ m \in Int
      BY <1>1
    <2>3. QED BY <2>1, <2>2, Zenon
  <1>5. p .. q \subseteq p .. n /\ m \notin p .. n
    BY <1>1
  <1> HIDE DEF z, m, n
  <1>6. {i \in p .. q : z[i] \in S} = {i \in p .. q : s[i] \in S}
    BY <1>2, <1>5
  <1>7. c \in S => New = Old \union {m}
    <2> SUFFICES ASSUME c \in S PROVE \A i : i \in New <=> (i \in Old \/ i = m)
      OBVIOUS
    <2>1. QED BY <1>2, <1>3, <1>4, Zenon
  <1>8. c \notin S => New = Old
    <2> SUFFICES ASSUME c \notin S PROVE \A i : i \in New <=> i \in Old
      OBVIOUS
    <2>1. QED BY <1>2, <1>3, <1>4, Zenon
  <1>9. m \notin Old
    BY <1>5
  <1>10. IsFiniteSet(Old)
    BY <1>1, Counts
  <1> HIDE DEF Old, New
  <1>11. c \in S => Cardinality(New) = Cardinality(Old) + 1
    BY <1>7, <1>9, <1>10, FS_AddElement
  <1>12. /\ Count(z, S, p, q) = Count(s, S, p, q)
         /\ Count(z, S, p, m) = Cardinality(New) /\ Count(s, S, p, n) = Cardinality(Old)
    BY <1>6 DEF Count, New, Old
  <1>13. QED BY <1>8, <1>11, <1>12 DEF z, m, n

(* Stays, of any line.                                                     *)
StaysIn(s, p) ==
    /\ s[p] \in Printable
    /\ \A q \in p + 1 .. Len(s) : Count(s, {"BS"}, p + 1, q) <= Count(s, Printable, p + 1, q)

LEMMA StaysAppended ==
    ASSUME NEW s \in Seq(Key), NEW c \in Key
    PROVE  LET z == Append(s, c)
               n == Len(s)
           IN  /\ \A p \in 1 .. n : StaysIn(z, p) <=>
                     /\ StaysIn(s, p)
                     /\ Count(z, {"BS"}, p + 1, n + 1) <= Count(z, Printable, p + 1, n + 1)
               /\ StaysIn(z, n + 1) <=> c \in Printable
  <1> DEFINE z == Append(s, c)
             n == Len(s)
             m == n + 1
  <1>1. /\ n \in Nat /\ m \in Nat /\ Len(z) = m /\ z[m] = c
        /\ \A p \in 1 .. n : z[p] = s[p]
    OBVIOUS
  <1>2. ASSUME NEW p \in 1 .. n, NEW q \in p + 1 .. n, NEW S
        PROVE  Count(z, S, p + 1, q) = Count(s, S, p + 1, q)
    <2> DEFINE a == p + 1
    <2>1. a \in Int /\ q \in Int /\ 1 <= a /\ a <= Len(s) + 1 /\ q <= Len(s)
      BY <1>1
    <2> HIDE DEF a
    <2>2. Count(Append(s, c), S, a, q) = Count(s, S, a, q)
      BY <2>1, CountsAppended
    <2>3. QED BY <2>2 DEF a
  <1> HIDE DEF z
  <1>3. ASSUME NEW p \in 1 .. n
        PROVE  StaysIn(z, p) <=>
                     /\ StaysIn(s, p)
                     /\ Count(z, {"BS"}, p + 1, m) <= Count(z, Printable, p + 1, m)
    <2>1. m \in p + 1 .. m /\ \A q \in Int : q \in p + 1 .. m <=> (q \in p + 1 .. n \/ q = m)
      BY <1>1
    <2>2. StaysIn(z, p) <=>
             /\ s[p] \in Printable
             /\ \A q \in p + 1 .. m :
                   Count(z, {"BS"}, p + 1, q) <= Count(z, Printable, p + 1, q)
      BY <1>1 DEF StaysIn
    <2>3. StaysIn(s, p) <=>
             /\ s[p] \in Printable
             /\ \A q \in p + 1 .. n :
                   Count(z, {"BS"}, p + 1, q) <= Count(z, Printable, p + 1, q)
      BY <1>2 DEF StaysIn
    <2> HIDE DEF m, n
    <2>4. QED BY <2>1, <2>2, <2>3
  <1>4. StaysIn(z, m) <=> c \in Printable
    <2>1. m + 1 .. m = {}
      BY <1>1
    <2>2. QED BY <1>1, <2>1 DEF StaysIn
  <1>5. QED BY <1>3, <1>4 DEF z

(* The characters of b are the ones of s that stay, in their order, and    *)
(* behind each of them as many more were typed than erased as b has left.  *)
Matched(s, b, at) ==
    /\ at \in [1 .. Len(b) -> 1 .. Len(s)]
    /\ \A i, j \in 1 .. Len(b) : i < j => at[i] < at[j]
    /\ \A p \in 1 .. Len(s) : StaysIn(s, p) <=> \E i \in 1 .. Len(b) : at[i] = p
    /\ \A i \in 1 .. Len(b) : b[i] = s[at[i]]
    /\ \A i \in 1 .. Len(b) : Count(s, Printable, at[i] + 1, Len(s))
                                  = Count(s, {"BS"}, at[i] + 1, Len(s)) + (Len(b) - i)

(* What the next character changes behind a place that stays.              *)
LEMMA MatchedGrows ==
    ASSUME NEW s \in Seq(Key), NEW b \in Seq(Printable), NEW at, Matched(s, b, at),
           NEW c \in Key, NEW i \in 1 .. Len(b)
    PROVE  LET z == Append(s, c)
               p == at[i]
               n == Len(s)
               e == Count(z, {"BS"}, p + 1, n + 1)
               t == Count(z, Printable, p + 1, n + 1)
           IN  /\ p \in 1 .. n /\ StaysIn(s, p) /\ z[p] = b[i] /\ e \in Nat /\ t \in Nat
               /\ c \in Printable => t = e + (Len(b) + 1 - i)
               /\ c = "BS" => t = e + (Len(b) - 1 - i)
               /\ c = "Other" => t = e + (Len(b) - i)
  <1> DEFINE z == Append(s, c)
             p == at[i]
             n == Len(s)
             a == p + 1
             e == Count(z, {"BS"}, a, n + 1)
             t == Count(z, Printable, a, n + 1)
             f == Count(s, {"BS"}, a, n)
             u == Count(s, Printable, a, n)
  <1>1. /\ p \in 1 .. n /\ StaysIn(s, p) /\ b[i] = s[p] /\ u = f + (Len(b) - i)
    BY DEF Matched
  <1>2. z[p] = s[p]
    BY <1>1
  <1>3. a \in Int /\ n \in Int /\ n + 1 \in Int /\ 1 <= a /\ a <= Len(s) + 1 /\ n <= Len(s)
        /\ Len(b) \in Nat
    BY <1>1
  <1> HIDE DEF p, a
  <1>4. /\ c \in Printable => t = u + 1
        /\ c \notin Printable => t = u
    BY <1>3, CountsAppended
  <1>5. /\ c \in {"BS"} => e = f + 1
        /\ c \notin {"BS"} => e = f
    BY <1>3, CountsAppended
  <1>6. e \in Nat /\ t \in Nat /\ f \in Nat /\ u \in Nat
    BY <1>3, Counts
  <1> HIDE DEF e, t, f, u, z
  <1>7. /\ c \in Printable => c \notin {"BS"}
        /\ c = "BS" => c \notin Printable /\ c \in {"BS"}
        /\ c = "Other" => c \notin Printable /\ c \notin {"BS"}
    BY Constants
  <1>8. /\ c \in Printable => t = e + (Len(b) + 1 - i)
        /\ c = "BS" => t = e + (Len(b) - 1 - i)
        /\ c = "Other" => t = e + (Len(b) - i)
    <2>1. CASE c \in Printable
      BY <1>1, <1>3, <1>4, <1>5, <1>6, <1>7, <2>1
    <2>2. CASE c \notin Printable
      BY <1>1, <1>3, <1>4, <1>5, <1>6, <1>7, <2>2
    <2>3. QED BY <2>1, <2>2
  <1>9. QED BY <1>1, <1>2, <1>6, <1>8 DEF e, t, z, a, p

(* A character that is kept.                                               *)
LEMMA MatchedKept ==
    ASSUME NEW s \in Seq(Key), NEW b \in Seq(Printable), NEW at, Matched(s, b, at),
           NEW c \in Printable
    PROVE  \E to : Matched(Append(s, c), Append(b, c), to)
  <1> DEFINE z == Append(s, c)
             d == Append(b, c)
             n == Len(s)
             l == Len(b)
             to == [i \in 1 .. l + 1 |-> IF i <= l THEN at[i] ELSE n + 1]
  <1>1. c \in Key
    BY DEF Key
  <1>2. /\ n \in Nat /\ l \in Nat /\ Len(z) = n + 1 /\ Len(d) = l + 1 /\ z[n + 1] = c
        /\ d[l + 1] = c /\ \A i \in 1 .. l : d[i] = b[i]
    BY <1>1
  <1>3. ASSUME NEW i \in 1 .. l
        PROVE  /\ to[i] = at[i] /\ at[i] \in 1 .. n /\ StaysIn(s, at[i]) /\ z[at[i]] = b[i]
               /\ Count(z, {"BS"}, at[i] + 1, n + 1) \in Nat
               /\ Count(z, Printable, at[i] + 1, n + 1)
                     = Count(z, {"BS"}, at[i] + 1, n + 1) + (l + 1 - i)
    <2>1. to[i] = at[i]
      BY <1>2
    <2>2. QED BY <1>1, <2>1, MatchedGrows
  <1>4. to[l + 1] = n + 1
    BY <1>2
  <1>5. \A i \in 1 .. l + 1 : i \in 1 .. l \/ i = l + 1
    BY <1>2
  <1>6. /\ \A p \in 1 .. n : StaysIn(z, p) <=>
              /\ StaysIn(s, p)
              /\ Count(z, {"BS"}, p + 1, n + 1) <= Count(z, Printable, p + 1, n + 1)
        /\ StaysIn(z, n + 1)
    BY <1>1, StaysAppended
  <1>7. DOMAIN to = 1 .. l + 1
    OBVIOUS
  <1> HIDE DEF z, d, to
  <1>8. to \in [1 .. l + 1 -> 1 .. n + 1]
    <2>1. \A i \in 1 .. l + 1 : to[i] \in 1 .. n + 1
      <3>1. n + 1 \in 1 .. n + 1 /\ 1 .. n \subseteq 1 .. n + 1
        BY <1>2
      <3>2. QED BY <1>3, <1>4, <1>5, <3>1, Zenon
    <2>2. to = [i \in 1 .. l + 1 |-> to[i]]
      BY DEF to
    <2>3. QED BY <2>1, <2>2
  <1>9. \A i, j \in 1 .. l + 1 : i < j => to[i] < to[j]
    <2> SUFFICES ASSUME NEW i \in 1 .. l + 1, NEW j \in 1 .. l + 1, i < j
        PROVE  to[i] < to[j]
      OBVIOUS
    <2>1. i \in 1 .. l
      BY <1>2
    <2>2. CASE j \in 1 .. l
      <3>1. at[i] < at[j]
        BY <2>1, <2>2 DEF Matched
      <3>2. QED BY <1>3, <2>1, <2>2, <3>1
    <2>3. CASE j = l + 1
      BY <1>2, <1>3, <1>4, <2>1, <2>3
    <2>4. QED BY <1>5, <2>2, <2>3
  <1>10. \A p \in 1 .. n + 1 : StaysIn(z, p) <=> \E i \in 1 .. l + 1 : to[i] = p
    <2> SUFFICES ASSUME NEW p \in 1 .. n + 1
        PROVE  StaysIn(z, p) <=> \E i \in 1 .. l + 1 : to[i] = p
      OBVIOUS
    <2>1. CASE p = n + 1
      <3>1. l + 1 \in 1 .. l + 1
        BY <1>2
      <3>2. QED BY <1>4, <1>6, <2>1, <3>1
    <2>2. CASE p \in 1 .. n
      <3>1. ASSUME StaysIn(z, p) PROVE \E i \in 1 .. l + 1 : to[i] = p
        <4>1. StaysIn(s, p)
          BY <1>6, <2>2, <3>1
        <4>2. PICK i \in 1 .. l : at[i] = p
          BY <2>2, <4>1 DEF Matched
        <4>3. i \in 1 .. l + 1 /\ to[i] = p
          BY <1>2, <1>3, <4>2
        <4>4. QED BY <4>3
      <3>2. ASSUME NEW i \in 1 .. l + 1, to[i] = p PROVE StaysIn(z, p)
        <4>1. i \in 1 .. l
          BY <1>2, <1>4, <1>5, <2>2, <3>2
        <4>2. at[i] = p
          BY <1>3, <3>2, <4>1
        <4>3. Count(z, {"BS"}, at[i] + 1, n + 1) <= Count(z, Printable, at[i] + 1, n + 1)
          BY <1>2, <1>3, <4>1
        <4>4. QED BY <1>3, <1>6, <2>2, <4>1, <4>2, <4>3
      <3>3. QED BY <3>1, <3>2
    <2>3. QED BY <1>2, <2>1, <2>2
  <1>11. \A i \in 1 .. l + 1 : d[i] = z[to[i]]
    BY <1>2, <1>3, <1>4, <1>5
  <1>12. \A i \in 1 .. l + 1 : Count(z, Printable, to[i] + 1, n + 1)
                = Count(z, {"BS"}, to[i] + 1, n + 1) + (l + 1 - i)
    <2> SUFFICES ASSUME NEW i \in 1 .. l + 1
        PROVE  Count(z, Printable, to[i] + 1, n + 1)
                   = Count(z, {"BS"}, to[i] + 1, n + 1) + (l + 1 - i)
      OBVIOUS
    <2>1. CASE i \in 1 .. l
      BY <1>3, <2>1
    <2>2. CASE i = l + 1
      <3>1. to[i] + 1 \in Int /\ n + 1 \in Int /\ n + 1 < to[i] + 1 /\ l + 1 - i = 0
        BY <1>2, <1>4, <2>2
      <3>2. /\ Count(z, Printable, to[i] + 1, n + 1) = 0
            /\ Count(z, {"BS"}, to[i] + 1, n + 1) = 0
        BY <3>1, Counts
      <3>3. QED BY <3>1, <3>2
    <2>3. QED BY <1>5, <2>1, <2>2
  <1>13. Matched(z, d, to)
    BY <1>2, <1>8, <1>9, <1>10, <1>11, <1>12 DEF Matched
  <1>14. QED BY <1>13 DEF z, d

(* A character that changes nothing.                                       *)
LEMMA MatchedIgnored ==
    ASSUME NEW s \in Seq(Key), NEW b \in Seq(Printable), NEW at, Matched(s, b, at),
           NEW c \in Key, c = "Other" \/ (c = "BS" /\ Len(b) = 0)
    PROVE  Matched(Append(s, c), b, at)
  <1> DEFINE z == Append(s, c)
             n == Len(s)
             l == Len(b)
  <1>1. n \in Nat /\ l \in Nat /\ Len(z) = n + 1 /\ c \notin Printable
    BY Constants
  <1>2. ASSUME NEW i \in 1 .. l
        PROVE  /\ at[i] \in 1 .. n /\ StaysIn(s, at[i]) /\ z[at[i]] = b[i]
               /\ Count(z, {"BS"}, at[i] + 1, n + 1) \in Nat
               /\ Count(z, Printable, at[i] + 1, n + 1)
                     = Count(z, {"BS"}, at[i] + 1, n + 1) + (l - i)
    <2>1. c = "Other"
      BY <1>1
    <2>2. QED BY <2>1, MatchedGrows
  <1>3. /\ \A p \in 1 .. n : StaysIn(z, p) <=>
              /\ StaysIn(s, p)
              /\ Count(z, {"BS"}, p + 1, n + 1) <= Count(z, Printable, p + 1, n + 1)
        /\ ~ StaysIn(z, n + 1)
    BY <1>1, StaysAppended
  <1> HIDE DEF z
  <1>4. at \in [1 .. l -> 1 .. n + 1]
    <2>1. at \in [1 .. l -> 1 .. n] /\ 1 .. n \subseteq 1 .. n + 1
      BY <1>1 DEF Matched
    <2>2. QED BY <2>1
  <1>5. \A i, j \in 1 .. l : i < j => at[i] < at[j]
    BY DEF Matched
  <1>6. \A p \in 1 .. n + 1 : StaysIn(z, p) <=> \E i \in 1 .. l : at[i] = p
    <2> SUFFICES ASSUME NEW p \in 1 .. n + 1
        PROVE  StaysIn(z, p) <=> \E i \in 1 .. l : at[i] = p
      OBVIOUS
    <2>1. CASE p = n + 1
      <3>1. ASSUME NEW i \in 1 .. l PROVE at[i] # n + 1
        BY <1>1, <1>2
      <3>2. QED BY <1>3, <2>1, <3>1, Zenon
    <2>2. CASE p \in 1 .. n
      <3>1. StaysIn(z, p) => \E i \in 1 .. l : at[i] = p
        BY <1>3, <2>2 DEF Matched
      <3>2. ASSUME NEW i \in 1 .. l, at[i] = p PROVE StaysIn(z, p)
        <4>1. Count(z, {"BS"}, at[i] + 1, n + 1) <= Count(z, Printable, at[i] + 1, n + 1)
          BY <1>1, <1>2
        <4>2. QED BY <1>2, <1>3, <2>2, <3>2, <4>1
      <3>3. QED BY <3>1, <3>2
    <2>3. QED BY <1>1, <2>1, <2>2
  <1>7. Matched(z, b, at)
    BY <1>1, <1>2, <1>4, <1>5, <1>6 DEF Matched
  <1>8. QED BY <1>7 DEF z

(* An erasure: the last character that stayed is the one that goes.        *)
LEMMA MatchedErased ==
    ASSUME NEW s \in Seq(Key), NEW b \in Seq(Printable), NEW at, Matched(s, b, at),
           Len(b) # 0
    PROVE  \E to : Matched(Append(s, "BS"), Front(b), to)
  <1> DEFINE z == Append(s, "BS")
             d == Front(b)
             n == Len(s)
             l == Len(b) - 1
             to == [i \in 1 .. l |-> at[i]]
  <1>1. "BS" \in Key /\ "BS" \notin Printable
    BY Constants DEF Key
  <1>2. n \in Nat /\ l \in Nat /\ Len(b) = l + 1 /\ Len(z) = n + 1
    BY <1>1
  <1>3. Len(d) = l /\ \A i \in 1 .. l : d[i] = b[i]
    <2>1. d = SubSeq(b, 1, l) /\ \A i \in 1 .. l : b[i] \in Printable
      BY <1>2, ElementOfSeq DEF Front
    <2> HIDE DEF l
    <2>2. /\ Len(SubSeq(b, 1, l)) = IF 1 <= l THEN l - 1 + 1 ELSE 0
          /\ \A i \in 1 .. l - 1 + 1 : SubSeq(b, 1, l)[i] = b[1 + i - 1]
      BY <1>2, <2>1, SubSeqProperties
    <2>3. l - 1 + 1 = l /\ \A i \in 1 .. l : 1 + i - 1 = i
      BY <1>2
    <2>4. \A i \in 1 .. l : d[i] = b[i]
      BY <2>1, <2>2, <2>3
    <2>5. Len(d) = l
      BY <1>2, <2>1, <2>2
    <2>6. QED BY <2>4, <2>5
  <1>4. ASSUME NEW i \in 1 .. l + 1
        PROVE  /\ at[i] \in 1 .. n /\ StaysIn(s, at[i]) /\ z[at[i]] = b[i]
               /\ Count(z, {"BS"}, at[i] + 1, n + 1) \in Nat
               /\ Count(z, Printable, at[i] + 1, n + 1)
                     = Count(z, {"BS"}, at[i] + 1, n + 1) + (l - i)
    <2>1. i \in 1 .. Len(b) /\ Len(b) - 1 - i = l - i
      BY <1>2
    <2>2. /\ at[i] \in 1 .. n /\ StaysIn(s, at[i]) /\ z[at[i]] = b[i]
          /\ Count(z, {"BS"}, at[i] + 1, n + 1) \in Nat
          /\ Count(z, Printable, at[i] + 1, n + 1)
                = Count(z, {"BS"}, at[i] + 1, n + 1) + (Len(b) - 1 - i)
      BY <1>1, <2>1, MatchedGrows
    <2>3. QED BY <2>1, <2>2
  <1>5. /\ \A p \in 1 .. n : StaysIn(z, p) <=>
              /\ StaysIn(s, p)
              /\ Count(z, {"BS"}, p + 1, n + 1) <= Count(z, Printable, p + 1, n + 1)
        /\ ~ StaysIn(z, n + 1)
    BY <1>1, StaysAppended
  <1>6. \A i \in 1 .. l : to[i] = at[i] /\ i \in 1 .. l + 1
    BY <1>2
  <1> HIDE DEF z, d, l
  <1>7. to \in [1 .. l -> 1 .. n + 1]
    <2>1. 1 .. n \subseteq 1 .. n + 1
      BY <1>2
    <2>2. \A i \in 1 .. l : at[i] \in 1 .. n + 1
      BY <1>4, <1>6, <2>1, Zenon
    <2>3. QED BY <2>2
  <1> HIDE DEF to
  <1>8. \A i, j \in 1 .. l : i < j => to[i] < to[j]
    <2>1. \A i, j \in 1 .. l + 1 : i < j => at[i] < at[j]
      BY <1>2 DEF Matched
    <2>2. QED BY <1>6, <2>1
  <1>9. \A p \in 1 .. n + 1 : StaysIn(z, p) <=> \E i \in 1 .. l : to[i] = p
    <2> SUFFICES ASSUME NEW p \in 1 .. n + 1
        PROVE  StaysIn(z, p) <=> \E i \in 1 .. l : to[i] = p
      OBVIOUS
    <2>1. CASE p = n + 1
      <3>1. ASSUME NEW i \in 1 .. l PROVE to[i] # n + 1
        <4>1. at[i] \in 1 .. n /\ to[i] = at[i]
          BY <1>4, <1>6, Zenon
        <4>2. QED BY <1>2, <4>1
      <3>2. QED BY <1>5, <2>1, <3>1, Zenon
    <2>2. CASE p \in 1 .. n
      <3>1. ASSUME StaysIn(z, p) PROVE \E i \in 1 .. l : to[i] = p
        <4>1. /\ StaysIn(s, p)
              /\ Count(z, {"BS"}, p + 1, n + 1) <= Count(z, Printable, p + 1, n + 1)
          BY <1>5, <2>2, <3>1, Zenon
        <4>2. PICK i \in 1 .. l + 1 : at[i] = p
          BY <1>2, <2>2, <4>1 DEF Matched
        <4>3. i # l + 1
          BY <1>2, <1>4, <4>1, <4>2
        <4>4. i \in 1 .. l
          BY <1>2, <4>3
        <4>5. QED BY <1>6, <4>2, <4>4, Zenon
      <3>2. ASSUME NEW i \in 1 .. l, to[i] = p PROVE StaysIn(z, p)
        <4>1. at[i] = p /\ i \in 1 .. l + 1 /\ i \in Int /\ i <= l
          BY <1>2, <1>6, <3>2
        <4>2. Count(z, {"BS"}, at[i] + 1, n + 1) <= Count(z, Printable, at[i] + 1, n + 1)
          <5>1. /\ Count(z, {"BS"}, at[i] + 1, n + 1) \in Nat
                /\ Count(z, Printable, at[i] + 1, n + 1)
                      = Count(z, {"BS"}, at[i] + 1, n + 1) + (l - i)
            BY <1>4, <4>1, Zenon
          <5>2. l - i \in Nat
            BY <1>2, <4>1
          <5>3. QED BY <5>1, <5>2
        <4>3. StaysIn(s, p)
          BY <1>4, <4>1, Zenon
        <4>4. QED BY <1>5, <2>2, <4>1, <4>2, <4>3
      <3>3. QED BY <3>1, <3>2
    <2>3. QED BY <1>2, <2>1, <2>2
  <1>10. \A i \in 1 .. l : d[i] = z[to[i]]
    BY <1>3, <1>4, <1>6, Zenon
  <1>11. \A i \in 1 .. l : Count(z, Printable, to[i] + 1, n + 1)
                = Count(z, {"BS"}, to[i] + 1, n + 1) + (l - i)
    BY <1>4, <1>6, Zenon
  <1>12. Matched(z, d, to)
    BY <1>2, <1>3, <1>7, <1>8, <1>9, <1>10, <1>11 DEF Matched
  <1>13. QED BY <1>12 DEF z, d

-----------------------------------------------------------------------------
(* A key that is not printable is in no count but that of the erasures.    *)
LEMMA FrontCounts ==
    ASSUME NEW T, NEW b \in Seq(T), Len(b) # 0, NEW S
    PROVE  Count(Front(b), S, 1, Len(Front(b))) <= Count(b, S, 1, Len(b))
  <1> DEFINE d == Front(b)
             l == Len(b) - 1
             A == {i \in 1 .. l : d[i] \in S}
             B == {i \in 1 .. Len(b) : b[i] \in S}
  <1>1. l \in Nat /\ 1 .. l \subseteq 1 .. Len(b) /\ Len(b) \in Int /\ 1 \in Int
    OBVIOUS
  <1>2. Len(d) = l /\ \A i \in 1 .. l : d[i] = b[i]
    <2>1. d = SubSeq(b, 1, l) /\ \A i \in 1 .. l : b[i] \in T
      BY <1>1, ElementOfSeq DEF Front
    <2> HIDE DEF l
    <2>2. /\ Len(SubSeq(b, 1, l)) = IF 1 <= l THEN l - 1 + 1 ELSE 0
          /\ \A i \in 1 .. l - 1 + 1 : SubSeq(b, 1, l)[i] = b[1 + i - 1]
      BY <1>1, <2>1, SubSeqProperties
    <2>3. l - 1 + 1 = l /\ \A i \in 1 .. l : 1 + i - 1 = i
      BY <1>1
    <2>4. \A i \in 1 .. l : d[i] = b[i]
      BY <2>1, <2>2, <2>3
    <2>5. Len(d) = l
      BY <1>1, <2>1, <2>2
    <2>6. QED BY <2>4, <2>5
  <1> HIDE DEF d, l
  <1>3. A \in SUBSET B
    BY <1>1, <1>2, Zenon
  <1>4. IsFiniteSet(B)
    BY <1>1, Counts
  <1> HIDE DEF A, B
  <1>5. Cardinality(A) <= Cardinality(B)
    BY <1>3, <1>4, FS_Subset
  <1>6. QED BY <1>2, <1>5 DEF Count, A, B, d

LEMMA MatchedEmpty ==
    ASSUME NEW s, s = <<>>
    PROVE  /\ Count(s, Printable, 1, Len(s)) = 0
           /\ \A S : Count(s, S, 1, Len(s)) = 0
           /\ \E at : Matched(s, s, at)
  <1>1. Len(s) = 0
    OBVIOUS
  <1>2. ASSUME NEW S PROVE Count(s, S, 1, Len(s)) = 0
    <2>1. Count(s, S, 1, 0) = 0
      <3>1. 1 \in Int /\ 0 \in Int /\ 0 < 1
        OBVIOUS
      <3>2. QED BY <3>1, Counts
    <2>2. QED BY <1>1, <2>1
  <1> DEFINE at == [i \in 1 .. 0 |-> i]
  <1>3. Matched(s, s, at)
    <2>1. at \in [1 .. 0 -> 1 .. 0] /\ 1 .. 0 = {}
      OBVIOUS
    <2> HIDE DEF at
    <2>2. QED BY <1>1, <2>1, Zenon DEF Matched
  <1>4. QED BY <1>2, <1>3

(* While the shell runs, buf holds no more of any character than was       *)
(* typed, and as long as less was typed than it takes, what stays of it.   *)
TypedInv ==
    /\ keys \in Seq(Key)
    /\ pc # "halt" =>
          /\ Len(buf) <= Count(keys, Printable, 1, Len(keys))
          /\ \A c \in Printable :
                Count(buf, {c}, 1, Len(buf)) <= Count(keys, {c}, 1, Len(keys))
          /\ Count(keys, Printable, 1, Len(keys)) < BUF_SIZE =>
                \E at : Matched(keys, buf, at)

LEMMA EmptyLineTyped ==
    ASSUME keys' = <<>>, pc' = "halt" \/ buf' = <<>>
    PROVE  TypedInv'
  <1>1. keys' \in Seq(Key)
    OBVIOUS
  <1>2. CASE pc' = "halt"
    BY <1>1, <1>2 DEF TypedInv
  <1>3. CASE buf' = <<>>
    <2>1. /\ Count(keys', Printable, 1, Len(keys')) = 0
          /\ \A S : Count(keys', S, 1, Len(keys')) = 0
          /\ \E at : Matched(keys', keys', at)
      BY MatchedEmpty
    <2>2. buf' = keys' /\ Len(buf') = 0
      BY <1>3
    <2>3. QED BY <1>1, <2>1, <2>2 DEF TypedInv
  <1>4. QED BY <1>2, <1>3

LEMMA TypedKept ==
    ASSUME TypedInv, UNCHANGED <<keys, buf>>, pc' # "halt" => pc # "halt"
    PROVE  TypedInv'
  BY DEF TypedInv

LEMMA LineCounted ==
    ASSUME NEW T, NEW s \in Seq(T), NEW S
    PROVE  Count(s, S, 1, Len(s)) \in Nat
  <1>1. 1 \in Int /\ Len(s) \in Int
    OBVIOUS
  <1>2. QED BY <1>1, Counts

(* What is counted of a line from its beginning when a key is read.        *)
LEMMA LineCounts ==
    ASSUME NEW T, NEW s \in Seq(T), NEW c \in T, NEW S
    PROVE  LET z == Append(s, c) IN
           /\ Count(s, S, 1, Len(s)) \in Nat /\ Len(z) = Len(s) + 1
           /\ c \in S => Count(z, S, 1, Len(z)) = Count(s, S, 1, Len(s)) + 1
           /\ c \notin S => Count(z, S, 1, Len(z)) = Count(s, S, 1, Len(s))
  <1> DEFINE z == Append(s, c)
             p == 1
  <1>1. /\ Len(s) \in Int /\ p \in Int /\ 1 <= p /\ p <= Len(s) + 1 /\ Len(s) <= Len(s)
        /\ Len(z) = Len(s) + 1
    OBVIOUS
  <1> HIDE DEF p
  <1>2. Count(s, S, p, Len(s)) \in Nat
    BY <1>1, Counts
  <1>3. /\ c \in S => Count(z, S, p, Len(s) + 1) = Count(s, S, p, Len(s)) + 1
        /\ c \notin S => Count(z, S, p, Len(s) + 1) = Count(s, S, p, Len(s))
    BY <1>1, CountsAppended
  <1> HIDE DEF z
  <1>4. QED BY <1>1, <1>2, <1>3, Zenon DEF z, p

LEMMA TypedPrintable ==
    ASSUME IInv, TypedInv, NEW c \in Printable, ReadPrintable(c)
    PROVE  TypedInv'
  <1>1. /\ keys \in Seq(Key) /\ buf \in Seq(Printable) /\ c \in Key
        /\ keys' = Append(keys, c) /\ pc = "poll" /\ Len(buf) \in Nat
    BY DEF TypedInv, IInv, LineInv, Key, ReadPrintable, Reads, Shell
  <1>2. /\ Count(keys, Printable, 1, Len(keys)) \in Nat
        /\ Count(keys', Printable, 1, Len(keys')) = Count(keys, Printable, 1, Len(keys)) + 1
    BY <1>1, LineCounts
  <1>3. ASSUME NEW x
        PROVE  /\ Count(keys, {x}, 1, Len(keys)) \in Nat
               /\ c = x => Count(keys', {x}, 1, Len(keys')) = Count(keys, {x}, 1, Len(keys)) + 1
               /\ c # x => Count(keys', {x}, 1, Len(keys')) = Count(keys, {x}, 1, Len(keys))
    <2>1. c \in {x} <=> c = x
      OBVIOUS
    <2>2. QED BY <1>1, <2>1, LineCounts
  <1>4. keys' \in Seq(Key)
    BY <1>1
  <1>5. CASE Fits
    <2>1. buf' = Append(buf, c)
      BY <1>5 DEF ReadPrintable
    <2>2. Len(buf') = Len(buf) + 1
      BY <1>1, <2>1
    <2>3. Len(buf') <= Count(keys', Printable, 1, Len(keys'))
      BY <1>1, <1>2, <2>2 DEF TypedInv
    <2>4. ASSUME NEW x \in Printable
          PROVE  Count(buf', {x}, 1, Len(buf')) <= Count(keys', {x}, 1, Len(keys'))
      <3>1. /\ Count(buf, {x}, 1, Len(buf)) \in Nat
            /\ c = x => Count(buf', {x}, 1, Len(buf')) = Count(buf, {x}, 1, Len(buf)) + 1
            /\ c # x => Count(buf', {x}, 1, Len(buf')) = Count(buf, {x}, 1, Len(buf))
        <4>1. c \in {x} <=> c = x
          OBVIOUS
        <4>2. QED BY <1>1, <2>1, <4>1, LineCounts
      <3>2. Count(buf, {x}, 1, Len(buf)) <= Count(keys, {x}, 1, Len(keys))
        BY <1>1 DEF TypedInv
      <3> DEFINE u == Count(buf, {x}, 1, Len(buf))
                 v == Count(buf', {x}, 1, Len(buf'))
                 f == Count(keys, {x}, 1, Len(keys))
                 g == Count(keys', {x}, 1, Len(keys'))
      <3>3. u \in Nat /\ f \in Nat /\ u <= f
        BY <1>3, <3>1, <3>2, Zenon
      <3>4. (v = u + 1 /\ g = f + 1) \/ (v = u /\ g = f)
        BY <1>3, <3>1, Zenon
      <3> HIDE DEF u, v, f, g
      <3>5. v <= g
        BY <3>3, <3>4
      <3>6. QED BY <3>5 DEF v, g
    <2>5. ASSUME Count(keys', Printable, 1, Len(keys')) < BUF_SIZE
          PROVE  \E at : Matched(keys', buf', at)
      <3>1. Count(keys, Printable, 1, Len(keys)) < BUF_SIZE
        BY <1>2, <2>5, Constants
      <3>2. PICK at : Matched(keys, buf, at)
        BY <1>1, <3>1 DEF TypedInv
      <3>3. QED BY <1>1, <2>1, <3>2, MatchedKept
    <2>6. QED BY <1>4, <2>3, <2>4, <2>5 DEF TypedInv
  <1>6. CASE ~ Fits
    <2>1. buf' = buf
      BY <1>6 DEF ReadPrintable
    <2>2. Len(buf) >= BUF_SIZE - 1 /\ Len(buf) <= Count(keys, Printable, 1, Len(keys))
      BY <1>1, <1>6, Constants DEF Fits, TypedInv
    <2>3. /\ ~ (Count(keys', Printable, 1, Len(keys')) < BUF_SIZE)
          /\ Len(buf') <= Count(keys', Printable, 1, Len(keys'))
      BY <1>1, <1>2, <2>1, <2>2, Constants
    <2>4. ASSUME NEW x \in Printable
          PROVE  Count(buf', {x}, 1, Len(buf')) <= Count(keys', {x}, 1, Len(keys'))
      <3>1. Count(buf, {x}, 1, Len(buf)) <= Count(keys, {x}, 1, Len(keys))
        BY <1>1 DEF TypedInv
      <3>2. Count(buf, {x}, 1, Len(buf)) \in Nat
        BY <1>1, LineCounted
      <3>3. QED BY <1>3, <2>1, <3>1, <3>2
    <2>5. QED BY <1>4, <2>3, <2>4 DEF TypedInv
  <1>7. QED BY <1>5, <1>6

(* A key that is not printable.                                            *)
LEMMA UnprintedCounts ==
    ASSUME TypedInv, NEW c \in Key, c \notin Printable, keys' = Append(keys, c)
    PROVE  /\ keys' \in Seq(Key)
           /\ Count(keys', Printable, 1, Len(keys')) = Count(keys, Printable, 1, Len(keys))
           /\ \A x \in Printable :
                 Count(keys', {x}, 1, Len(keys')) = Count(keys, {x}, 1, Len(keys))
  <1>1. keys \in Seq(Key)
    BY DEF TypedInv
  <1>2. \A x \in Printable : c \notin {x}
    OBVIOUS
  <1>3. QED BY <1>1, <1>2, LineCounts

LEMMA TypedErase ==
    ASSUME IInv, TypedInv, ReadErase
    PROVE  TypedInv'
  <1>1. /\ keys \in Seq(Key) /\ buf \in Seq(Printable) /\ "BS" \in Key /\ "BS" \notin Printable
        /\ keys' = Append(keys, "BS") /\ pc = "poll" /\ Len(buf) \in Nat
    BY Constants DEF TypedInv, IInv, LineInv, Key, ReadErase, Reads, Shell
  <1>2. /\ keys' \in Seq(Key)
        /\ Count(keys', Printable, 1, Len(keys')) = Count(keys, Printable, 1, Len(keys))
        /\ \A x \in Printable :
              Count(keys', {x}, 1, Len(keys')) = Count(keys, {x}, 1, Len(keys))
    BY <1>1, UnprintedCounts
  <1>3. /\ Len(buf) <= Count(keys, Printable, 1, Len(keys))
        /\ \A x \in Printable :
              Count(buf, {x}, 1, Len(buf)) <= Count(keys, {x}, 1, Len(keys))
        /\ Count(keys, Printable, 1, Len(keys)) < BUF_SIZE => \E at : Matched(keys, buf, at)
    BY <1>1 DEF TypedInv
  <1>4. CASE buf # <<>>
    <2>1. buf' = Front(buf) /\ Len(buf) # 0
      BY <1>1, <1>4 DEF ReadErase
    <2>2. Len(buf') = Len(buf) - 1
      BY <1>1, <1>4, <2>1, FrontProps
    <2>3. Len(buf') <= Count(keys', Printable, 1, Len(keys'))
      <3>1. Count(keys, Printable, 1, Len(keys)) \in Nat
        BY <1>1, LineCounted
      <3>2. QED BY <1>1, <1>2, <1>3, <2>2, <3>1
    <2>4. ASSUME NEW x \in Printable
          PROVE  Count(buf', {x}, 1, Len(buf')) <= Count(keys', {x}, 1, Len(keys'))
      <3>1. Count(buf', {x}, 1, Len(buf')) <= Count(buf, {x}, 1, Len(buf))
        BY <1>1, <2>1, FrontCounts
      <3>2. /\ Count(buf', {x}, 1, Len(buf')) \in Nat /\ Count(buf, {x}, 1, Len(buf)) \in Nat
            /\ Count(keys, {x}, 1, Len(keys)) \in Nat
        <4>1. Len(buf') \in Int /\ Len(buf) \in Int /\ Len(keys) \in Int /\ 1 \in Int
          BY <1>1, <2>2
        <4>2. QED BY <4>1, Counts
      <3>3. QED BY <1>2, <1>3, <3>1, <3>2
    <2>5. ASSUME Count(keys', Printable, 1, Len(keys')) < BUF_SIZE
          PROVE  \E at : Matched(keys', buf', at)
      <3>1. PICK at : Matched(keys, buf, at)
        BY <1>2, <1>3, <2>5
      <3>2. QED BY <1>1, <2>1, <3>1, MatchedErased
    <2>6. QED BY <1>2, <2>3, <2>4, <2>5 DEF TypedInv
  <1>5. CASE buf = <<>>
    <2>1. buf' = buf /\ Len(buf) = 0
      BY <1>5 DEF ReadErase
    <2>2. ASSUME Count(keys', Printable, 1, Len(keys')) < BUF_SIZE
          PROVE  \E at : Matched(keys', buf', at)
      <3>1. PICK at : Matched(keys, buf, at)
        BY <1>2, <1>3, <2>2
      <3>2. Matched(Append(keys, "BS"), buf, at)
        BY <1>1, <2>1, <3>1, MatchedIgnored
      <3>3. QED BY <1>1, <2>1, <3>2
    <2>3. QED BY <1>2, <1>3, <2>1, <2>2 DEF TypedInv
  <1>6. QED BY <1>4, <1>5

LEMMA TypedOther ==
    ASSUME IInv, TypedInv, ReadOther
    PROVE  TypedInv'
  <1>1. /\ keys \in Seq(Key) /\ buf \in Seq(Printable) /\ "Other" \in Key
        /\ "Other" \notin Printable /\ keys' = Append(keys, "Other") /\ pc = "poll"
        /\ buf' = buf
    BY Constants DEF TypedInv, IInv, LineInv, Key, ReadOther, Reads, Shell
  <1>2. /\ keys' \in Seq(Key)
        /\ Count(keys', Printable, 1, Len(keys')) = Count(keys, Printable, 1, Len(keys))
        /\ \A x \in Printable :
              Count(keys', {x}, 1, Len(keys')) = Count(keys, {x}, 1, Len(keys))
    BY <1>1, UnprintedCounts
  <1>3. /\ Len(buf) <= Count(keys, Printable, 1, Len(keys))
        /\ \A x \in Printable :
              Count(buf, {x}, 1, Len(buf)) <= Count(keys, {x}, 1, Len(keys))
        /\ Count(keys, Printable, 1, Len(keys)) < BUF_SIZE => \E at : Matched(keys, buf, at)
    BY <1>1 DEF TypedInv
  <1>4. ASSUME Count(keys', Printable, 1, Len(keys')) < BUF_SIZE
        PROVE  \E at : Matched(keys', buf', at)
    <2>1. PICK at : Matched(keys, buf, at)
      BY <1>2, <1>3, <1>4
    <2>2. Matched(Append(keys, "Other"), buf, at)
      BY <1>1, <2>1, MatchedIgnored
    <2>3. QED BY <1>1, <2>2
  <1>5. QED BY <1>1, <1>2, <1>3, <1>4 DEF TypedInv

LEMMA TypedInvariance == Spec => []TypedInv
  <1>1. Init => TypedInv
    <2> SUFFICES ASSUME Init PROVE TypedInv
      OBVIOUS
    <2>1. keys = <<>> /\ buf = keys
      BY DEF Init
    <2>2. /\ Count(keys, Printable, 1, Len(keys)) = 0
          /\ \A S : Count(keys, S, 1, Len(keys)) = 0
          /\ \E at : Matched(keys, keys, at)
      BY <2>1, MatchedEmpty
    <2>3. Len(buf) = 0 /\ keys \in Seq(Key)
      BY <2>1
    <2>4. QED BY <2>1, <2>2, <2>3 DEF TypedInv
  <1>2. IInv /\ TypedInv /\ [Next]_vars => TypedInv'
    <2> SUFFICES ASSUME IInv, TypedInv, [Next]_vars PROVE TypedInv'
      OBVIOUS
    <2>1. CASE (Expire \/ Irq) /\ UNCHANGED <<shVars, fifo>>
      BY <2>1, TypedKept DEF shVars
    <2>2. CASE \E k \in Key : Type(k)
      BY <2>2, TypedKept DEF Type, shVars
    <2>3. CASE Boot \/ CpuStops
      BY <2>3, TypedKept DEF Boot, CpuStops, shVars
    <2>4. CASE ShellStarts
      <3>1. pc # "halt"
        <4>1. Len(boot) # 0
          BY <2>4, BootWhere DEF ShellStarts, IInv
        <4>2. QED BY <4>1 DEF IInv, BootInv
      <3>2. QED BY <2>4, <3>1, TypedKept DEF ShellStarts
    <2>5. CASE PollEmpty \/ OthersRun
      BY <2>5, TypedKept DEF PollEmpty, OthersRun, Shell
    <2>6. CASE \E c \in Printable : ReadPrintable(c)
      BY <2>6, TypedPrintable
    <2>7. CASE ReadErase
      BY <2>7, TypedErase
    <2>8. CASE ReadOther
      BY <2>8, TypedOther
    <2>9. CASE ReadEnter
      BY <2>9, EmptyLineTyped DEF ReadEnter, AfterLine
    <2>10. CASE UNCHANGED vars
      BY <2>10, TypedKept DEF vars, shVars
    <2>11. QED BY <2>1, <2>2, <2>3, <2>4, <2>5, <2>6, <2>7, <2>8, <2>9, <2>10 DEF Next, Cpu
  <1>3. QED BY <1>1, <1>2, Invariance, PTL DEF Spec

-----------------------------------------------------------------------------
(* The variables have their types, and neither the line with its zero nor  *)
(* the FIFO outgrows its array, whatever is typed.                         *)
THEOREM TypeCorrect == Spec => []TypeOK
  <1>1. IInv => TypeOK
    <2> SUFFICES ASSUME IInv PROVE TypeOK
      OBVIOUS
    <2>1. wd \in 0 .. WdLimit + 1
      BY Constants DEF IInv, TestInv
    <2>2. IrqTypeOK
      BY <2>1 DEF IInv, TypeInv, TicksInv, IrqTypeOK
    <2>3. QED BY <2>2 DEF IInv, TypeInv, LineInv, TypeOK
  <1>2. QED BY Invariance, <1>1, PTL

(* With interrupts on, the self test begun and no reboot, only the timer   *)
(* and the handler touch what TicksAreExpiries compares.                   *)
LEMMA ServedStep ==
    ASSUME IInv, [Next]_vars
    PROVE  [Serving /\ Serving' => Ahead' = Ahead]_irqVars
  <1> SUFFICES ASSUME Serving, Serving' PROVE Ahead' = Ahead
    OBVIOUS
  <1>1. ~ masked /\ ~ masked' /\ Len(boot) # 3
    <2>1. ASSUME Len(boot) = 3 PROVE FALSE
      <3>1. 1 \in 1 .. Len(boot) /\ boot[1] = BootOrder[7 - 3 + 1] /\ 7 - 3 + 1 = 5
        BY <2>1 DEF IInv, BootInv
      <3>2. boot[1] = "bist" /\ 1 \in DOMAIN boot
        BY <3>1, BootPlaces DEF IInv, BootInv
      <3>3. QED BY <3>2 DEF Serving
    <2>2. QED BY <2>1 DEF Serving
  <1>2. CASE UNCHANGED <<g_ticks, irq_line, expired>>
    BY <1>2 DEF Ahead
  <1>3. CASE Expire
    BY <1>1, <1>3, ExpiryCounted
  <1>4. CASE Irq
    BY <1>4, TickCounted
  <1>5. CASE Boot
    <2>1. CASE CpuIrqEnable
      <3>1. Len(boot) = 4
        BY <2>1, BootWhere DEF CpuIrqEnable, IInv
      <3>2. QED BY <1>1, <3>1 DEF IInv, TicksInv
    <2>2. CASE VicInit \/ TimerInit \/ VicEnableIrq \/ Bist \/ BistSpin
      BY <1>2, <2>2 DEF VicInit, TimerInit, VicEnableIrq, Bist, BistSpin, devVars, tickVars
    <2>3. QED BY <1>5, <2>1, <2>2 DEF Boot, BootNext
  <1>6. CASE ReadEnter
    BY <1>1, <1>2, <1>6 DEF ReadEnter, Reads, SoftReset, kept, tickVars, devVars
  <1>7. CASE \/ ShellStarts \/ PollEmpty \/ OthersRun \/ ReadErase \/ ReadOther \/ CpuStops
             \/ \E c \in Printable : ReadPrintable(c)
             \/ \E k \in Key : Type(k)
             \/ UNCHANGED vars
    BY <1>2, <1>7 DEF ShellStarts, PollEmpty, OthersRun, ReadErase, ReadOther, CpuStops,
       ReadPrintable, Type, Reads, kept, vars, irqVars, tickVars, devVars
  <1>8. QED BY <1>3, <1>4, <1>5, <1>6, <1>7 DEF Next, Cpu

(* Whatever happened before the CPU takes interrupts counts for one tick   *)
(* at most, and from the self test to the next reboot g_ticks follows the  *)
(* timer expiry by expiry, over wraps of it.                               *)
THEOREM TicksAreTime == Spec => TicksAreExpiries
  <1>1. IInv => IF masked THEN g_ticks = 0 ELSE Ahead \in {0, 1}
    BY DEF IInv, TicksInv
  <1>2. IInv /\ [Next]_vars => [Serving /\ Serving' => Ahead' = Ahead]_irqVars
    BY ServedStep
  <1>3. QED BY Invariance, <1>1, <1>2, PTL DEF Spec, TicksAreExpiries

(* The line on the screen is the command Enter would execute, as long as   *)
(* no other task has printed into it: echo and buffer never part, at the   *)
(* ends of the buffer neither.                                             *)
THEOREM ScreenIsTrue == Spec => []ScreenShowsCommand
  <1>1. IInv => ScreenShowsCommand
    BY DEF IInv, LineInv, ScreenShowsCommand
  <1>2. QED BY Invariance, <1>1, PTL

(* The command Enter executes is what was typed and not erased, whatever   *)
(* came between the characters: the next line's keys in the FIFO, the      *)
(* other tasks, erasures of an empty line; of a line longer than the       *)
(* buffer it invents nothing.                                              *)
THEOREM CommandIsTyped == Spec => []CommandIsTypedLine
  <1>1. TypedInv /\ IInv => CommandIsTypedLine
    <2> SUFFICES ASSUME TypedInv, IInv, pc # "halt"
        PROVE  IF Count(keys, Printable, 1, Len(keys)) < BUF_SIZE
               THEN BufIsWhatStays
               ELSE \A c \in Printable :
                       Count(buf, {c}, 1, Len(buf)) <= Count(keys, {c}, 1, Len(keys))
      BY DEF CommandIsTypedLine
    <2>1. CASE Count(keys, Printable, 1, Len(keys)) < BUF_SIZE
      <3>1. PICK at : Matched(keys, buf, at)
        BY <2>1 DEF TypedInv
      <3>2. DOMAIN keys = 1 .. Len(keys) /\ DOMAIN buf = 1 .. Len(buf)
        BY DEF TypedInv, IInv, LineInv
      <3>3. \A p : Stays(p) <=> StaysIn(keys, p)
        BY DEF Stays, StaysIn
      <3>4. \A p : p \in Survivors <=> p \in 1 .. Len(keys) /\ \E i \in DOMAIN buf : at[i] = p
        BY <3>1, <3>2, <3>3, Zenon DEF Survivors, Matched
      <3>5. /\ at \in [DOMAIN buf -> 1 .. Len(keys)]
            /\ \A i, j \in DOMAIN buf : i < j => at[i] < at[j]
            /\ \A i \in DOMAIN buf : buf[i] = keys[at[i]]
        BY <3>1, <3>2, Zenon DEF Matched
      <3>6. at \in [DOMAIN buf -> Survivors]
        BY <3>4, <3>5
      <3>7. QED BY <2>1, <3>4, <3>5, <3>6, Zenon DEF BufIsWhatStays
    <2>2. CASE ~ (Count(keys, Printable, 1, Len(keys)) < BUF_SIZE)
      BY <2>2 DEF TypedInv
    <2>3. QED BY <2>1, <2>2
  <1>2. QED BY TypedInvariance, Invariance, <1>1, PTL

(* bist's iterations stay below the number at which it stops the satellite *)
(* for good, at power-up and after every reboot: main() reaches it with    *)
(* the tick enabled on its whole way.                                      *)
THEOREM SelfTestPasses == Spec => [](wd < WdLimit /\ boot # <<"failed">>)
  <1>1. IInv => wd < WdLimit /\ boot # <<"failed">>
    <2> SUFFICES ASSUME IInv PROVE wd < WdLimit /\ boot # <<"failed">>
      OBVIOUS
    <2>1. wd < WdLimit
      BY Constants DEF IInv, TestInv
    <2>2. boot # <<"failed">>
      <3> SUFFICES ASSUME boot = <<"failed">> PROVE FALSE
        OBVIOUS
      <3>1. boot \in Seq(BootSteps) /\ Len(boot) = 1 /\ boot[1] = "failed"
        BY DEF IInv, BootInv
      <3>2. boot[1] \in BootSteps
        BY <3>1
      <3>3. QED BY <3>1, <3>2 DEF BootSteps
    <2>3. QED BY <2>1, <2>2
  <1>2. QED BY Invariance, <1>1, PTL
=============================================================================
