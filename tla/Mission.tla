------------------------------ MODULE Mission --------------------------------
(***************************************************************************)
(* One satellite from reset to reset: main()'s boot sequence, the key that *)
(* authenticates the operator (satkey.c), the session log (logger.c), the  *)
(* shell commands that use them (command.c) and the controlled reset of    *)
(* the watchdog (watchdog.c), over the file system that survives resets    *)
(* (module Sjfs).                                                          *)
(*                                                                         *)
(* A call in progress is the sequence `work' of the steps it still has to  *)
(* do, so that a reset can fall between any two of them.  Tasks never      *)
(* interleave inside a call, because only a call of the scheduler switches *)
(* tasks and none of these calls makes one.                                *)
(***************************************************************************)
EXTENDS Sjfs, FiniteSets

CONSTANTS
    Keys,          \* the keys satkey_init can generate
    Monitored,     \* TRUE: tasks have registered watchdog channels
    MaxPulls,      \* bound: how often the reset line (RAM kept) is pulled
    MaxBoots,      \* bound: resets of a behaviour, the first included
    MaxCommands,   \* bound: commands the shell executes in a session
    MaxMinute      \* bound: minutes a session lasts

ASSUME MissionAssumption ==
    /\ Monitored \in BOOLEAN
    /\ MaxBoots \in Nat \ {0} /\ {MaxPulls, MaxCommands, MaxMinute} \subseteq Nat

VARIABLES
    fs,               \* the store, kept over resets
    phase,            \* "boot", "run" or "halt"
    work,             \* the remaining steps of the call in progress
    plain,            \* the key satkey_init generated, or NoKey (its stack)
    key_idx,          \* the file satkey_init writes (its stack)
    s_log_idx,        \* logger: index of the log file; in .data, not cleared
    s_open,           \* logger: a session is open
    g_authenticated,  \* the operator has given the right key
    safe_mode,        \* g_eps.safe_mode
    minute,           \* minutes since boot (g_ticks / (60 * TICK_HZ))
    boots, commands,  \* counters for the bounds
    shown,            \* history: the keys the console ever showed
    presented,        \* history: the keys typed since the last reset
    pulled, cut,      \* history: pulls of the reset line; one hit satkey_init
    hist              \* history: all units handed to each file

ramVars  == <<s_log_idx, s_open, g_authenticated, safe_mode>>
cntVars  == <<minute, boots, commands>>
keyVars  == <<plain, key_idx>>
seenVars == <<shown, presented, pulled, cut>>
vars     == <<fs, phase, work, keyVars, ramVars, cntVars, seenVars, hist>>

NoKey   == "nokey"
KeyPath == <<"satkey", 0>>
LogPath == <<"log", 0>>               \* the same for every boot: the date is fixed
ClosedPath(m) == <<"closed", m>>      \* hh.mm_HH.MM: names the closing minute

(* A log line is one or two units, so that the last one can be cut.        *)
Line(tag) == IF tag \in {"boot", "cmd"} THEN <<<<tag, 1>>>> ELSE <<<<tag, 1>>, <<tag, 2>>>>

(* The key file: the magic number, then the (encrypted) key.               *)
Magic      == <<"magic", 0>>
KeyUnit(k) == <<k, 0>>

Step(op) == [op |-> op, tag |-> ""]
Log(tag) == [op |-> "logger_write", tag |-> tag]

(* main() up to scheduler_start.                                           *)
BootWork == <<Step("sjfs_init"), Step("satkey_init"), Step("logger_init"), Step("start")>>

-----------------------------------------------------------------------------
Init ==
    /\ fs = [valid |-> FALSE, entries |-> [f \in FileId |-> Unused]]
    /\ phase = "boot" /\ work = BootWork
    /\ plain = NoKey /\ key_idx = NoFile /\ s_log_idx = NoFile
    /\ s_open = FALSE /\ g_authenticated = FALSE /\ safe_mode = FALSE
    /\ minute = 0 /\ boots = 1 /\ commands = 0
    /\ shown = {} /\ presented = {} /\ pulled = 0 /\ cut = FALSE
    /\ hist = [f \in FileId |-> <<>>]

(* Mutant of BssCleared: the loop of the reset handler is missing.         *)
BssKept == UNCHANGED <<s_open, g_authenticated, safe_mode>>

(* .bss is cleared, .data and the store are not; eps_init clears safe_mode *)
(* before any task runs.                                                   *)
BssCleared == s_open' = FALSE /\ g_authenticated' = FALSE /\ safe_mode' = FALSE

ResetState ==
    /\ phase' = "boot" /\ work' = BootWork
    /\ plain' = NoKey /\ key_idx' = NoFile
    /\ BssCleared
    /\ minute' = 0 /\ commands' = 0 /\ boots' = boots + 1
    /\ presented' = {}
    /\ UNCHANGED <<fs, s_log_idx, shown, hist>>

-----------------------------------------------------------------------------
(* The steps of a call.  Continue(steps) replaces the first by others.     *)
Doing(op)       == work # <<>> /\ Head(work).op = op
Continue(steps) == work' = steps \o Tail(work) /\ UNCHANGED <<phase, cntVars>>
Done            == Continue(<<>>)

DoSjfsInit ==
    /\ Doing("sjfs_init") /\ Done
    /\ fs' = SjfsInit(fs)
    /\ UNCHANGED <<keyVars, ramVars, seenVars, hist>>

(* Mutant of KeyExists: a new key at every boot.                           *)
KeyExistsNever == FALSE

KeyExists == SjfsOpen(fs, KeyPath) # NoFile

(* Mutant of KeySteps: the key is written before the magic number.         *)
KeyStepsSwapped == <<Step("key_create"), Step("key_write"), Step("key_magic"), Step("key_show")>>

KeySteps == <<Step("key_create"), Step("key_magic"), Step("key_write"), Step("key_show")>>

(* satkey_init: a key file that exists is kept, whatever it contains.      *)
DoSatkeyInit ==
    /\ Doing("satkey_init")
    /\ \/ KeyExists /\ Done /\ UNCHANGED plain
       \/ ~ KeyExists /\ Continue(KeySteps) /\ plain' \in Keys
    /\ UNCHANGED <<fs, key_idx, ramVars, seenVars, hist>>

DoKeyCreate ==
    /\ Doing("key_create") /\ Done
    /\ key_idx' = SjfsFree(fs)
    /\ fs' = SjfsCreate(fs, KeyPath)
    /\ UNCHANGED <<plain, ramVars, seenVars, hist>>

(* One sjfs_write of units to file f, recorded in hist.                    *)
WriteFile(f, units) ==
    /\ fs' = SjfsWrite(fs, f, units)
    /\ hist' = IF f \in FileId THEN [hist EXCEPT ![f] = @ \o units] ELSE hist

DoKeyWrite ==
    /\ \/ Doing("key_magic") /\ WriteFile(key_idx, <<Magic>>)
       \/ Doing("key_write") /\ WriteFile(key_idx, <<KeyUnit(plain)>>)
    /\ Done
    /\ UNCHANGED <<keyVars, ramVars, seenVars>>

DoKeyShow ==
    /\ Doing("key_show") /\ Done
    /\ shown' = shown \union {plain}
    /\ UNCHANGED <<fs, keyVars, ramVars, presented, pulled, cut, hist>>

(* Mutant of LogFile: an index left in .data by the last boot is used.     *)
LogFileStale == IF s_log_idx # NoFile THEN s_log_idx ELSE SjfsOpenOrFree(fs, LogPath)

LogFile == SjfsOpenOrFree(fs, LogPath)

(* Mutant of SessionOpens: only an existing log is taken.                  *)
SessionOpensOld == SjfsOpen(fs, LogPath) # NoFile

SessionOpens == LogFile # NoFile

(* logger_init: reopen the log or create it, then write the first line.    *)
DoLoggerInit ==
    /\ Doing("logger_init") /\ Continue(<<Log("boot")>>)
    /\ s_log_idx' = LogFile
    /\ fs' = SjfsOpenOrCreate(fs, LogPath)
    /\ s_open' = SessionOpens
    /\ UNCHANGED <<keyVars, g_authenticated, safe_mode, seenVars, hist>>

(* logger_write: nothing unless a session is open.                         *)
DoLoggerWrite ==
    /\ Doing("logger_write") /\ Done
    /\ IF s_open /\ s_log_idx # NoFile
       THEN WriteFile(s_log_idx, Line(Head(work).tag))
       ELSE UNCHANGED <<fs, hist>>
    /\ UNCHANGED <<keyVars, ramVars, seenVars>>

(* Mutant of CloseSteps: the rename comes before the last line.            *)
CloseStepsSwapped == <<Step("rename"), Log("closing")>>

CloseSteps == <<Log("closing"), Step("rename")>>

(* logger_close_session: the early return, or the last line, the rename    *)
(* and the end of the session.                                             *)
DoLoggerClose ==
    /\ Doing("logger_close") /\ Continue(IF s_open THEN CloseSteps ELSE <<>>)
    /\ UNCHANGED <<fs, keyVars, ramVars, seenVars, hist>>

DoRename ==
    /\ Doing("rename") /\ Done
    /\ fs' = SjfsRename(fs, LogPath, ClosedPath(minute))
    /\ s_open' = FALSE
    /\ UNCHANGED <<keyVars, s_log_idx, g_authenticated, safe_mode, seenVars, hist>>

(* main's last step, scheduler_start, and the end of a shutdown command.   *)
DoPhase ==
    /\ \/ Doing("start") /\ phase' = "run"
       \/ Doing("halt") /\ phase' = "halt"
    /\ work' = <<>>
    /\ UNCHANGED <<fs, keyVars, ramVars, cntVars, seenVars, hist>>

DoReset == Doing("reset") /\ ResetState /\ UNCHANGED <<pulled, cut>>

-----------------------------------------------------------------------------
(* Between two lines of input: the shell polls and yields to other tasks.  *)
Shell == phase = "run" /\ work = <<>>

(* command_execute of one line, then the debug line about it.              *)
Command(steps) ==
    /\ Shell
    /\ commands < MaxCommands
    /\ commands' = commands + 1
    /\ work' = steps \o <<Log("cmd")>>
    /\ UNCHANGED <<fs, phase, keyVars, s_log_idx, s_open, minute, boots, shown, pulled, cut,
                   hist>>

(* satkey_verify: the key file must be complete and hold the key typed.    *)
SatkeyVerify(k) ==
    /\ SjfsOpen(fs, KeyPath) # NoFile
    /\ SjfsRead(fs, SjfsOpen(fs, KeyPath), 2) = <<Magic, KeyUnit(k)>>

(* auth <key>: any key may be typed, right or wrong.                       *)
CmdAuth(k) ==
    /\ Command(<<Log("event")>>)
    /\ g_authenticated' = (g_authenticated \/ SatkeyVerify(k))
    /\ presented' = presented \union {k}
    /\ UNCHANGED safe_mode

CmdLogout ==
    /\ Command(IF g_authenticated THEN <<Log("event")>> ELSE <<>>)
    /\ g_authenticated' = FALSE
    /\ UNCHANGED <<safe_mode, presented>>

CmdSafemode ==
    /\ Command(IF g_authenticated THEN <<Log("event")>> ELSE <<>>)
    /\ safe_mode' = (safe_mode # g_authenticated)
    /\ UNCHANGED <<g_authenticated, presented>>

(* downlink logs a line; the other public commands change nothing.         *)
CmdPublic ==
    /\ \E steps \in {<<Log("event")>>, <<>>} : Command(steps)
    /\ UNCHANGED <<g_authenticated, safe_mode, presented>>

(* shutdown and reboot; the reset is bounded by MaxBoots.                  *)
CmdStop(last) ==
    /\ last = "reset" => boots < MaxBoots
    /\ Command(IF g_authenticated
               THEN <<Log("event"), Step("logger_close"), Step(last)>>
               ELSE <<>>)
    /\ UNCHANGED <<g_authenticated, safe_mode, presented>>

(* wd_check finds a silent channel: it logs, closes the log and resets.    *)
WdTimeout ==
    /\ Monitored /\ Shell
    /\ boots < MaxBoots
    /\ work' = <<Log("timeout"), Step("logger_close"), Step("reset")>>
    /\ UNCHANGED <<fs, phase, keyVars, ramVars, cntVars, seenVars, hist>>

(* No input: the shell polls the UART and yields.                          *)
ShellIdle == Shell /\ UNCHANGED vars

(* while(1) after a shutdown.                                              *)
Halted == phase = "halt" /\ UNCHANGED vars

Minute ==
    /\ minute < MaxMinute
    /\ minute' = minute + 1
    /\ UNCHANGED <<fs, phase, work, keyVars, ramVars, boots, commands, seenVars, hist>>

(* The reset line, at any time; cut: between the creation of the key file  *)
(* and the end of satkey_init.                                             *)
PullReset ==
    /\ pulled < MaxPulls /\ boots < MaxBoots
    /\ ResetState
    /\ pulled' = pulled + 1
    /\ cut' = (cut \/ \E op \in {"key_magic", "key_write", "key_show"} : Doing(op))

-----------------------------------------------------------------------------
CallStep ==
    \/ DoSjfsInit \/ DoSatkeyInit \/ DoKeyCreate \/ DoKeyWrite \/ DoKeyShow
    \/ DoLoggerInit \/ DoLoggerWrite \/ DoLoggerClose \/ DoRename \/ DoPhase \/ DoReset

ShellStep ==
    \/ \E k \in Keys : CmdAuth(k)
    \/ CmdLogout \/ CmdSafemode \/ CmdPublic
    \/ \E last \in {"halt", "reset"} : CmdStop(last)
    \/ ShellIdle

Next == CallStep \/ ShellStep \/ WdTimeout \/ Halted \/ Minute \/ PullReset

Spec == Init /\ [][Next]_vars

-----------------------------------------------------------------------------
Unit == ({"magic", "boot", "event", "timeout", "cmd", "closing"} \X (0 .. 2))
            \union {KeyUnit(k) : k \in Keys}
Path == {NoPath, KeyPath, LogPath} \union {ClosedPath(m) : m \in 0 .. MaxMinute}

(* The types of the variables.                                             *)
TypeOK ==
    /\ fs.valid \in BOOLEAN
    /\ \A f \in FileId : /\ fs.entries[f].used \in BOOLEAN
                        /\ fs.entries[f].path \in Path
                        /\ fs.entries[f].data \in Seq(Unit)
                        /\ Len(fs.entries[f].data) <= SJFS_FILE_UNITS
    /\ phase \in {"boot", "run", "halt"}
    /\ plain \in Keys \union {NoKey}
    /\ {key_idx, s_log_idx} \subseteq FileId \union {NoFile}
    /\ {s_open, g_authenticated, safe_mode, cut} \subseteq BOOLEAN
    /\ minute \in 0 .. MaxMinute /\ boots \in 1 .. MaxBoots /\ commands \in 0 .. MaxCommands
    /\ shown \subseteq Keys /\ presented \subseteq Keys /\ pulled \in 0 .. MaxPulls
    /\ hist \in [FileId -> Seq(Unit)]

HasPath(f, p) == fs.entries[f].used /\ fs.entries[f].path = p
IsClosed(f)   == fs.entries[f].used /\ fs.entries[f].path[1] = "closed"

(* "authenticated" means that the operator typed the key the store holds,  *)
(* and did so since the last reset, whatever resets and writes came since. *)
AuthSound == g_authenticated => \E k \in presented : SatkeyVerify(k)

(* A key that can be verified stays the satellite's key for ever: neither  *)
(* the boot sequence nor the logger can replace, cut or hide it.           *)
KeyStable == [][\A k \in Keys : SatkeyVerify(k) => SatkeyVerify(k)']_vars

(* Whenever the shell accepts commands, the key that authenticates is one  *)
(* the console has shown ("The plaintext key is shown ONCE on the console  *)
(* - record it", satkey.h): the operator is never locked out.              *)
OperatorKnowsKey == phase = "run" => \E k \in shown : SatkeyVerify(k)

(* ... which holds unless a reset fell into those few steps of the first   *)
(* boot: pulled at any other time, before them too, it costs nothing.      *)
KeyKnownUnlessCut == ~ cut => OperatorKnowsKey

(* Sessions share a log file only where the reset line cut one off before  *)
(* its log was renamed, although each boot opens its log under one path.   *)
OneSessionPerLog ==
    \A f \in FileId :
        Cardinality({k \in DOMAIN hist[f] : hist[f][k] = <<"boot", 1>>}) <= 1 + pulled

(* A file holds, without gap or reordering, what was written to it, up to  *)
(* its capacity: only the end of a log can be missing, and only when the   *)
(* file is full.                                                           *)
FileIsPrefixOfHistory == \A f \in FileId : fs.entries[f].data = Take(hist[f], SJFS_FILE_UNITS)

(* A log under a closed path was handed its last lines: the reason (of the *)
(* operator or the watchdog) and then the closing line, with nothing after *)
(* them.                                                                   *)
ClosedMeansFinished ==
    \A f \in FileId : IsClosed(f) =>
        /\ Len(hist[f]) >= 4
        /\ SubSeq(hist[f], Len(hist[f]) - 3, Len(hist[f]))
               \in {Line(why) \o Line("closing") : why \in {"event", "timeout"}}

(* The two paths the code opens by name belong to one file at most, so the *)
(* first match sjfs_open returns is the right one.  (Closed sessions have  *)
(* no such guarantee: two that end in the same minute share their path.)   *)
OpenPathsUnambiguous ==
    \A p \in {KeyPath, LogPath} : \A f, g \in FileId : HasPath(f, p) /\ HasPath(g, p) => f = g

(* A session runs without a log only because the file table is full.       *)
LoggingStopsOnlyWhenFull == Shell /\ ~ s_open => \A f \in FileId : fs.entries[f].used

(* The log keeps the promise of SessionLog over resets, full files and     *)
(* stale indices: a session's text only grows, and a closed one is frozen. *)
Sessions == INSTANCE SessionLog WITH
    Slot   <- FileId,
    status <- [f \in FileId |-> IF ~ fs.entries[f].used THEN "free"
                                ELSE IF IsClosed(f) THEN "closed"
                                ELSE IF HasPath(f, LogPath) THEN "open" ELSE "other"],
    text   <- [f \in FileId |-> IF IsClosed(f) \/ HasPath(f, LogPath)
                                THEN fs.entries[f].data ELSE <<>>]

ImplementsSessionLog == Sessions!Spec
=============================================================================
