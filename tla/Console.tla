------------------------------- MODULE Console -------------------------------
(***************************************************************************)
(* The shell's end of the serial line: the receive FIFO (src/uart.c), the  *)
(* line editor command_task (src/command.c), its echo on the operator's    *)
(* screen, and the CPU it shares with the other tasks, which print beacons *)
(* on the same screen.  It runs once the boot of module Interrupts is over.*)
(*                                                                         *)
(* What a command does is in module Mission; here it returns, stops the    *)
(* CPU (shutdown) or resets it (reboot).                                   *)
(***************************************************************************)
EXTENDS Interrupts, SequencesExt, FiniteSets

CONSTANTS
    Printable,     \* printable characters
    BUF_SIZE,      \* size of buf (72)
    FifoDepth,     \* characters the receive FIFO holds (16)
    MaxLineKeys    \* bound: keys the operator types before Enter

ASSUME ConsoleAssumption ==
    /\ BUF_SIZE \in Nat \ {0} /\ {FifoDepth, MaxLineKeys} \subseteq Nat
    /\ Printable \intersect {"BS", "Enter", "Other"} = {}

Key == Printable \union {"BS", "Enter", "Other"}   \* Enter: CR or LF, Other: ignored

VARIABLES
    pc,        \* "boot", "poll" (the shell), "others" (other tasks) or "halt"
    yields,    \* calls of scheduler_yield the shell has still to make
    fifo,      \* characters received and not yet read
    buf,       \* command_task: the characters buf[0 .. pos - 1]
    screen,    \* what stands on the screen behind the prompt
    mixed,     \* history: another task has printed since the prompt
    keys       \* history: the characters read since the last Enter

shVars == <<pc, yields, buf, screen, mixed, keys>>
vars   == <<irqVars, shVars, fifo>>

Init ==
    /\ Power
    /\ pc = "boot" /\ yields = 0 /\ fifo = <<>> /\ buf = <<>>
    /\ screen = <<>> /\ mixed = FALSE /\ keys = <<>>

-----------------------------------------------------------------------------
(* A character arrives; if the FIFO is full it is lost.                    *)
Type(k) ==
    /\ k = "Enter" \/ Len(keys) + Len(fifo) < MaxLineKeys
    /\ fifo' = IF Len(fifo) < FifoDepth THEN Append(fifo, k) ELSE fifo
    /\ UNCHANGED <<irqVars, shVars>>

Boot == BootNext /\ UNCHANGED <<shVars, fifo>>

Prompt == screen' = <<>> /\ mixed' = FALSE

(* The rest of main() and the first lines of command_task.                 *)
ShellStarts ==
    /\ BootStep("rest") /\ boot' = Tail(boot)
    /\ pc' = "poll"
    /\ Prompt
    /\ UNCHANGED <<devVars, tickVars, t0, wd, expired, yields, fifo, buf, keys>>

Stopped == pc = "halt" \/ boot = <<"failed">>

CpuStops == Stopped /\ Execute /\ UNCHANGED <<devVars, tickVars, boot, t0, wd, expired, shVars, fifo>>

-----------------------------------------------------------------------------
(* The shell's loop.                                                       *)
Shell == pc = "poll" /\ Execute

kept == <<devVars, boot, t0, wd, expired>>

(* Mutant of AfterEmptyPoll: uart_getc, which waits for a character.       *)
AfterEmptyPollWaits == UNCHANGED <<pc, yields, g_preempt_request>>

(* preempt_check, which yields if a request is pending, and                *)
(* scheduler_yield.                                                        *)
AfterEmptyPoll ==
    /\ pc' = "others"
    /\ yields' = 1 + g_preempt_request
    /\ g_preempt_request' = 0

PollEmpty ==
    /\ Shell /\ fifo = <<>>
    /\ AfterEmptyPoll
    /\ UNCHANGED <<kept, g_ticks, fifo, buf, screen, mixed, keys>>

(* The other tasks have the CPU, print or do not, and yield.               *)
OthersRun ==
    /\ pc = "others" /\ Execute
    /\ yields' = yields - 1
    /\ pc' = IF yields' = 0 THEN "poll" ELSE "others"
    /\ \/ UNCHANGED <<screen, mixed>>
       \/ screen' = <<>> /\ mixed' = TRUE
    /\ UNCHANGED <<kept, tickVars, fifo, buf, keys>>

(* uart_getc_nb returns c.                                                 *)
Reads(c) ==
    /\ Shell /\ fifo # <<>> /\ c = Head(fifo)
    /\ fifo' = Tail(fifo)
    /\ UNCHANGED <<timer_on, irq_line, vic_enabled, yields>>

(* Mutant of Fits: no room is left for the terminating zero.               *)
FitsOneMore == Len(buf) < BUF_SIZE

Fits == Len(buf) < BUF_SIZE - 1

(* Echoes go behind the prompt unless something else was printed there.    *)
Echo(line) == screen' = IF mixed THEN screen ELSE line

ReadPrintable(c) ==
    /\ Reads(c) /\ c \in Printable
    /\ IF Fits THEN buf' = Append(buf, c) /\ Echo(Append(screen, c))
               ELSE UNCHANGED <<buf, screen>>
    /\ keys' = Append(keys, c)
    /\ UNCHANGED <<kept, tickVars, pc, mixed>>

(* Mutant of Erased: the character stays on the screen.                    *)
ErasedInBufferOnly == screen

(* What "\b \b" leaves of the line.                                        *)
Erased == IF screen = <<>> THEN screen ELSE Front(screen)

ReadErase ==
    /\ Reads("BS")
    /\ IF buf # <<>> THEN buf' = Front(buf) /\ Echo(Erased) ELSE UNCHANGED <<buf, screen>>
    /\ keys' = Append(keys, "BS")
    /\ UNCHANGED <<kept, tickVars, pc, mixed>>

ReadOther ==
    /\ Reads("Other")
    /\ keys' = Append(keys, "Other")
    /\ UNCHANGED <<kept, tickVars, pc, buf, screen, mixed>>

(* Mutant of AfterLine: pos is not set back.                               *)
AfterLineKept == buf

AfterLine == <<>>

(* The line is executed, if it is not empty; the command may be the last.  *)
ReadEnter ==
    /\ Reads("Enter")
    /\ keys' = <<>>
    /\ Prompt
    /\ \/ /\ pc' = "poll" /\ buf' = AfterLine
          /\ UNCHANGED <<kept, tickVars>>
       \/ /\ buf # <<>>
          /\ pc' = "halt" /\ UNCHANGED <<buf, kept, tickVars>>
       \/ /\ buf # <<>>
          /\ SoftReset /\ pc' = "boot" /\ buf' = <<>>

-----------------------------------------------------------------------------
Cpu ==
    \/ Boot \/ ShellStarts \/ PollEmpty \/ OthersRun
    \/ \E c \in Printable : ReadPrintable(c)
    \/ ReadErase \/ ReadOther \/ ReadEnter \/ CpuStops

Next ==
    \/ (Expire \/ Irq) /\ UNCHANGED <<shVars, fifo>>
    \/ \E k \in Key : Type(k)
    \/ Cpu

(* The timer is periodic, interrupts are served, the CPU executes; the     *)
(* operator owes nothing.                                                  *)
Spec == Init /\ [][Next]_vars /\ WF_vars(Expire /\ UNCHANGED <<shVars, fifo>>)
             /\ WF_vars(Irq /\ UNCHANGED <<shVars, fifo>>) /\ WF_vars(Cpu)

-----------------------------------------------------------------------------
(* The types of the variables; the zero that ends a line fits into buf.    *)
TypeOK ==
    /\ IrqTypeOK
    /\ pc \in {"boot", "poll", "others", "halt"} /\ yields \in 0 .. 2
    /\ Len(fifo) <= FifoDepth /\ Len(buf) <= BUF_SIZE - 1
    /\ mixed \in BOOLEAN

(* How many of the characters of s from place p to place q are in S.       *)
Count(s, S, p, q) == Cardinality({i \in p .. q : s[i] \in S})

(* The character at place p of the line is there to stay: from it on there *)
(* were never more erasures than characters to erase.                      *)
Stays(p) ==
    /\ keys[p] \in Printable
    /\ \A q \in p + 1 .. Len(keys) :
          Count(keys, {"BS"}, p + 1, q) <= Count(keys, Printable, p + 1, q)

Survivors == {p \in DOMAIN keys : Stays(p)}

(* buf consists of the characters at those places, in their order.         *)
BufIsWhatStays ==
    \E at \in [DOMAIN buf -> Survivors] :
        /\ \A i, j \in DOMAIN buf : i < j => at[i] < at[j]
        /\ \A p \in Survivors : \E i \in DOMAIN buf : at[i] = p
        /\ \A i \in DOMAIN buf : buf[i] = keys[at[i]]

(* The command executed at Enter is what was read of that line: nothing of *)
(* an earlier line, nothing erased, nothing out of order or missing,       *)
(* however reading was interrupted; of a line longer than the buffer, only *)
(* the last characters can be missing.  (A character that met a full FIFO  *)
(* was never read: ScreenShowsCommand is what the operator has then.)      *)
CommandIsTypedLine == pc # "halt" =>
    IF Count(keys, Printable, 1, Len(keys)) < BUF_SIZE
    THEN BufIsWhatStays
    ELSE \A c \in Printable : Count(buf, {c}, 1, Len(buf)) <= Count(keys, {c}, 1, Len(keys))

(* What the operator sees behind the prompt is the command Enter would     *)
(* execute, characters that were lost on the way included, unless another  *)
(* task has printed into the line.                                         *)
ScreenShowsCommand == pc \in {"poll", "others"} /\ ~ mixed => screen = buf

(* The self test never fails and the boot always gets to the shell, after  *)
(* a reboot too.                                                           *)
BootReachesShell == (pc = "boot") ~> (pc = "poll")

(* When the operator stops typing and has not shut the satellite down, the *)
(* shell lets the other tasks run again and again: however full FIFO and   *)
(* line are, it does not wait for input.                                   *)
OthersAlwaysRun ==
    <>[][Len(fifo') <= Len(fifo)]_vars /\ [](pc # "halt") => []<>(pc = "others")
=============================================================================
