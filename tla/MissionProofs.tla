---------------------------- MODULE MissionProofs ----------------------------
(***************************************************************************)
(* Theorems about one satellite from reset to reset, for every number and  *)
(* size of files, every set of keys and every number of resets, commands   *)
(* and minutes.  The inductive invariant IInv says what each step of a     *)
(* call may rely on, as a reset can fall before any of them.               *)
(***************************************************************************)
EXTENDS Mission, SjfsProofs, FiniteSetTheorems

-----------------------------------------------------------------------------
(* The remaining steps of a call, by name: a line of the log by its tag.   *)
Ops  == {"sjfs_init", "satkey_init", "key_create", "key_magic", "key_write", "key_show",
         "logger_init", "start", "logger_close", "rename", "halt", "reset"}
Tags == {"boot", "event", "timeout", "cmd", "closing"}

StepSet      == {Step(op) : op \in Ops} \union {Log(tag) : tag \in Tags}
Name(s)      == IF s.op = "logger_write" THEN s.tag ELSE s.op
NameAt(w, k) == IF k \in 1 .. Len(w) THEN Name(w[k]) ELSE "none"

(* The step that is next, "none" between two calls.                        *)
Now == NameAt(work, 1)

(* b may come after a in a call.                                           *)
MayFollow(a, b) ==
    \/ a = "sjfs_init"   /\ b = "satkey_init"
    \/ a = "satkey_init" /\ b = "logger_init"
    \/ a = "key_create"  /\ b = "key_magic"
    \/ a = "key_magic"   /\ b = "key_write"
    \/ a = "key_write"   /\ b = "key_show"
    \/ a = "key_show"    /\ b = "logger_init"
    \/ a = "logger_init" /\ b = "start"
    \/ a = "boot"        /\ b = "start"
    \/ a = "start"       /\ b = "none"
    \/ a = "event"       /\ b \in {"cmd", "logger_close"}
    \/ a = "timeout"     /\ b = "logger_close"
    \/ a = "logger_close" /\ b \in {"halt", "reset"}
    \/ a = "closing"     /\ b = "rename"
    \/ a = "rename"      /\ b \in {"halt", "reset"}
    \/ a \in {"halt", "reset"} /\ b \in {"cmd", "none"}
    \/ a = "cmd"         /\ b = "none"

Chain(w) == /\ w \in Seq(StepSet)
            /\ \A k \in 1 .. Len(w) : MayFollow(NameAt(w, k), NameAt(w, k + 1))

(* ... and a reset that a call still has to do is within the bound.        *)
Sound(w) == /\ Chain(w)
            /\ \A k \in 1 .. Len(w) : NameAt(w, k) = "reset" => boots < MaxBoots

KeyWriting == {"key_magic", "key_write", "key_show"}
BeforeKey  == {"sjfs_init", "satkey_init", "key_create"}
BeforeLog  == BeforeKey \union KeyWriting \union {"logger_init"}
BootNames  == BeforeLog \union {"boot", "start"}
RunNames   == {"event", "timeout", "logger_close", "closing", "rename", "halt", "reset",
               "cmd", "none"}

WorkInv ==
    /\ Sound(work)
    /\ phase = "boot" => Now \in BootNames
    /\ phase = "run" => Now \in RunNames
    /\ phase = "halt" => Now = "none"

(* The types, as one set each.                                             *)
TypeInv ==
    /\ fs \in Store(Path, Unit)
    /\ phase \in {"boot", "run", "halt"}
    /\ plain \in Keys \union {NoKey}
    /\ key_idx \in FileId \union {NoFile} /\ s_log_idx \in FileId \union {NoFile}
    /\ s_open \in BOOLEAN /\ g_authenticated \in BOOLEAN /\ safe_mode \in BOOLEAN
    /\ cut \in BOOLEAN
    /\ minute \in 0 .. MaxMinute /\ boots \in 1 .. MaxBoots /\ commands \in 0 .. MaxCommands
    /\ shown \in SUBSET Keys /\ presented \in SUBSET Keys /\ pulled \in 0 .. MaxPulls
    /\ hist \in [FileId -> Seq(Unit)]

(* The store: it is empty until it is formatted, an entry that is not in   *)
(* use is blank, and a file holds what fits of what it was handed.         *)
StoreInv ==
    /\ ~ fs.valid => Now = "sjfs_init" /\ \A f \in FileId : ~ fs.entries[f].used
    /\ \A f \in FileId : ~ fs.entries[f].used => fs.entries[f] = Unused /\ hist[f] = <<>>
    /\ FileIsPrefixOfHistory

(* The key file is the first entry, made before every other.               *)
KeyPlaceInv ==
    /\ fs.entries[0].used => fs.entries[0].path = KeyPath
    /\ \A f \in FileId \ {0} : fs.entries[f].used =>
          /\ fs.entries[0].used
          /\ fs.entries[f].path = LogPath \/ fs.entries[f].path[1] = "closed"
    /\ Now = "key_create" => ~ fs.entries[0].used
    /\ Now \notin BeforeKey => fs.entries[0].used
    /\ Now \in {"key_magic", "key_write"} => key_idx = 0
    /\ Now \in KeyWriting \union {"key_create"} => plain \in Keys

(* What the key file was handed, at each step that writes it.              *)
KeyTextInv ==
    /\ hist[0] \in {<<>>, <<Magic>>} \union {<<Magic, KeyUnit(k)>> : k \in Keys}
    /\ Now = "key_magic" => hist[0] = <<>>
    /\ Now = "key_write" => hist[0] = <<Magic>>
    /\ Now = "key_show" => hist[0] = <<Magic, KeyUnit(plain)>>
    /\ ~ cut /\ fs.entries[0].used /\ Now \notin KeyWriting =>
          \E k \in shown : hist[0] = <<Magic, KeyUnit(k)>>

(* At most one file has the path of the open log, the one the logger has   *)
(* the index of while a session is open.                                   *)
NoLog    == \A f \in FileId : ~ HasPath(f, LogPath)
AllInUse == \A f \in FileId : fs.entries[f].used

LogInv ==
    /\ \A f, g \in FileId : HasPath(f, LogPath) /\ HasPath(g, LogPath) => f = g
    /\ s_open => s_log_idx \in FileId /\ HasPath(s_log_idx, LogPath)
    /\ Now \in BeforeLog \union {"halt", "reset"} => ~ s_open
    /\ Now \in {"closing", "rename"} => s_open
    /\ ~ s_open /\ Now \notin BeforeLog => NoLog
    /\ ~ s_open /\ Now \notin BeforeLog \union {"halt", "reset"} /\ phase # "halt" => AllInUse

(* The reason of a close is the last line before the closing line, which   *)
(* is the last line before the rename.                                     *)
EndsWith(h, u) == Len(h) >= Len(u) /\ SubSeq(h, Len(h) - Len(u) + 1, Len(h)) = u
Reasons        == {"event", "timeout"}

EndInv ==
    /\ s_open /\ Now \in {"logger_close", "closing"} =>
          \E why \in Reasons : EndsWith(hist[s_log_idx], Line(why))
    /\ s_open /\ Now = "rename" =>
          \E why \in Reasons : EndsWith(hist[s_log_idx], Line(why) \o Line("closing"))
    /\ ClosedMeansFinished

(* First lines of a session: this boot has not written its own yet, and    *)
(* every other one in the open log is owed to a pull of the reset line.    *)
BootUnit == <<"boot", 1>>
Count(h) == Cardinality({k \in DOMAIN h : h[k] = BootUnit})

CountInv ==
    /\ \A f \in FileId : Count(hist[f]) <= 1 + pulled
    /\ Now \in BeforeLog \union {"boot"} =>
          \A f \in FileId : HasPath(f, LogPath) => Count(hist[f]) <= pulled

IInv == /\ TypeInv /\ WorkInv /\ StoreInv /\ KeyPlaceInv /\ KeyTextInv /\ LogInv
        /\ EndInv /\ CountInv /\ AuthSound

-----------------------------------------------------------------------------
(* The bounds are natural numbers.                                         *)
LEMMA BoundTypes ==
    /\ MaxPulls \in Nat /\ MaxCommands \in Nat /\ MaxMinute \in Nat
    /\ MaxBoots \in Nat /\ MaxBoots >= 1
    /\ SJFS_FILE_UNITS \in Nat
BY MissionAssumption, SjfsAssumption

(* What is left of a chain after its first step is a chain.                *)
LEMMA ChainTail ==
    ASSUME NEW w, Chain(w), w # <<>>
    PROVE  /\ Chain(Tail(w))
           /\ \A k \in Nat \ {0} : NameAt(Tail(w), k) = NameAt(w, k + 1)
           /\ Head(w) = w[1] /\ w[1] \in StepSet /\ NameAt(w, 1) = Name(w[1])
           /\ MayFollow(NameAt(w, 1), NameAt(Tail(w), 1))
<1> USE DEF Chain
<1>1. w \in Seq(StepSet) /\ Len(w) \in Nat /\ Len(w) >= 1
  BY EmptySeq
<1>2. /\ Tail(w) \in Seq(StepSet) /\ Len(Tail(w)) = Len(w) - 1
      /\ \A k \in 1 .. Len(Tail(w)) : Tail(w)[k] = w[k + 1]
  BY <1>1, HeadTailProperties
<1>3. \A k \in Nat \ {0} : NameAt(Tail(w), k) = NameAt(w, k + 1)
  BY <1>1, <1>2 DEF NameAt
<1>4. ASSUME NEW k \in 1 .. Len(Tail(w))
      PROVE  MayFollow(NameAt(Tail(w), k), NameAt(Tail(w), k + 1))
  <2>1. NameAt(Tail(w), k) = NameAt(w, k + 1) /\ NameAt(Tail(w), k + 1) = NameAt(w, (k + 1) + 1)
    BY <1>3
  <2>2. k + 1 \in 1 .. Len(w)
    BY <1>1, <1>2
  <2> QED
    BY <2>1, <2>2
<1>5. MayFollow(NameAt(w, 1), NameAt(Tail(w), 1))
  <2>1. NameAt(Tail(w), 1) = NameAt(w, 1 + 1)
    BY <1>3
  <2>2. 1 \in 1 .. Len(w)
    BY <1>1
  <2> QED
    BY <2>1, <2>2
<1>6. Head(w) = w[1] /\ w[1] \in StepSet /\ NameAt(w, 1) = Name(w[1])
  BY <1>1 DEF NameAt
<1> QED
  BY <1>2, <1>3, <1>4, <1>5, <1>6

(* The same with the bound on resets, which is what calls are made of.     *)
LEMMA SoundEmpty == Sound(<<>>) /\ NameAt(<<>>, 1) = "none"
BY DEF Sound, Chain, NameAt

LEMMA SoundTail ==
    ASSUME NEW w, Sound(w), w # <<>>
    PROVE  /\ Sound(Tail(w))
           /\ Head(w) = w[1] /\ Head(w) \in StepSet /\ NameAt(w, 1) = Name(Head(w))
           /\ MayFollow(NameAt(w, 1), NameAt(Tail(w), 1))
           /\ NameAt(w, 1) = "reset" => boots < MaxBoots
<1>1. Chain(w)
  BY DEF Sound
<1>2. Len(w) \in Nat /\ Len(w) >= 1 /\ Len(Tail(w)) = Len(w) - 1
  BY <1>1, EmptySeq, HeadTailProperties DEF Chain
<1>3. ASSUME NEW k \in 1 .. Len(Tail(w)), NameAt(Tail(w), k) = "reset"
      PROVE  boots < MaxBoots
  <2> k \in Nat \ {0} /\ k + 1 \in 1 .. Len(w)
    BY <1>2
  <2> QED
    BY <1>1, <1>3, ChainTail DEF Sound
<1>4. 1 \in 1 .. Len(w)
  BY <1>2
<1> QED
  BY <1>1, <1>3, <1>4, ChainTail DEF Sound

(* Steps that follow each other, put in front of what may follow them.     *)
Joins(u, w) ==
    /\ u \in Seq(StepSet) /\ Len(u) >= 1
    /\ \A k \in 1 .. Len(u) - 1 : MayFollow(Name(u[k]), Name(u[k + 1]))
    /\ MayFollow(Name(u[Len(u)]), NameAt(w, 1))
    /\ \A k \in 1 .. Len(u) : Name(u[k]) = "reset" => boots < MaxBoots

LEMMA SoundJoin ==
    ASSUME NEW w, Sound(w), NEW u, Joins(u, w)
    PROVE  Sound(u \o w) /\ NameAt(u \o w, 1) = Name(u[1])
<1> DEFINE v == u \o w
<1>0. /\ \A k \in 1 .. Len(u) - 1 : MayFollow(Name(u[k]), Name(u[k + 1]))
      /\ MayFollow(Name(u[Len(u)]), NameAt(w, 1))
      /\ \A k \in 1 .. Len(u) : Name(u[k]) = "reset" => boots < MaxBoots
  BY DEF Joins
<1>1. /\ w \in Seq(StepSet) /\ u \in Seq(StepSet)
      /\ Len(w) \in Nat /\ Len(u) \in Nat /\ Len(u) >= 1
  BY DEF Sound, Chain, Joins
<1>2. /\ v \in Seq(StepSet) /\ Len(v) = Len(u) + Len(w)
      /\ \A k \in 1 .. Len(u) + Len(w) : v[k] = IF k <= Len(u) THEN u[k] ELSE w[k - Len(u)]
  BY <1>1, ConcatProperties
<1> HIDE DEF v
<1>3. \A k \in 1 .. Len(u) : NameAt(v, k) = Name(u[k])
  BY <1>1, <1>2 DEF NameAt
<1>4. ASSUME NEW k \in Nat \ {0} PROVE NameAt(v, Len(u) + k) = NameAt(w, k)
  <2>1. CASE k \in 1 .. Len(w)
    <3>1. Len(u) + k \in 1 .. Len(u) + Len(w) /\ ~ (Len(u) + k <= Len(u)) /\ Len(u) + k - Len(u) = k
      BY <1>1, <2>1
    <3> Len(u) + k \in 1 .. Len(v) /\ v[Len(u) + k] = w[k]
      BY <1>2, <3>1
    <3> QED
      BY <2>1 DEF NameAt
  <2>2. CASE k \notin 1 .. Len(w)
    <3> Len(u) + k \notin 1 .. Len(v)
      BY <1>1, <1>2, <2>2
    <3> QED
      BY <2>2 DEF NameAt
  <2> QED
    BY <2>1, <2>2
<1>5. ASSUME NEW k \in 1 .. Len(v)
      PROVE  /\ MayFollow(NameAt(v, k), NameAt(v, k + 1))
             /\ NameAt(v, k) = "reset" => boots < MaxBoots
  <2>1. CASE k < Len(u)
    <3> k \in 1 .. Len(u) - 1 /\ k + 1 \in 1 .. Len(u) /\ k \in 1 .. Len(u)
      BY <1>1, <2>1
    <3> QED
      BY <1>0, <1>3
  <2>2. CASE k = Len(u)
    <3> k \in 1 .. Len(u) /\ NameAt(v, k + 1) = NameAt(w, 1)
      BY <1>1, <1>4, <2>2
    <3> QED
      BY <1>0, <1>3, <2>2
  <2>3. CASE k > Len(u)
    <3> DEFINE j == k - Len(u)
    <3>0. k \in Nat /\ k <= Len(u) + Len(w)
      BY <1>1, <1>2
    <3>1. j \in Nat \ {0} /\ j \in 1 .. Len(w) /\ k = Len(u) + j /\ k + 1 = Len(u) + (j + 1)
      BY <1>1, <2>3, <3>0
    <3> HIDE DEF j
    <3>2. NameAt(v, k) = NameAt(w, j) /\ NameAt(v, k + 1) = NameAt(w, j + 1)
      BY <1>4, <3>1
    <3> QED
      BY <3>1, <3>2 DEF Sound, Chain
  <2> QED
    BY <1>1, <2>1, <2>2, <2>3
<1>6. Sound(v)
  BY <1>2, <1>5 DEF Sound, Chain
<1> QED
  BY <1>1, <1>3, <1>6 DEF v

(* Every step of a call is one of the set, with the name it is asked by.   *)
LEMMA StepNames ==
    /\ \A op \in Ops : Step(op) \in StepSet /\ Name(Step(op)) = op
    /\ \A tag \in Tags : Log(tag) \in StepSet /\ Name(Log(tag)) = tag
BY DEF StepSet, Name, Step, Log, Ops

-----------------------------------------------------------------------------
(* How each step moves through its call, in names.                         *)
LEMMA DoingNamed ==
    ASSUME WorkInv, NEW op \in Ops, Doing(op)
    PROVE  Now = op /\ work # <<>> /\ Head(work) = Step(op)
<1>1. work # <<>> /\ Sound(work) /\ Head(work).op = op
  BY DEF WorkInv, Doing
<1>2. Head(work) \in StepSet /\ Now = Name(Head(work))
  BY <1>1, SoundTail DEF Now
<1>3. op # "logger_write"
  BY DEF Ops
<1>4. Head(work) = Step(op)
  <2>1. ASSUME NEW tag \in Tags, Head(work) = Log(tag) PROVE FALSE
    BY <1>1, <1>3, <2>1 DEF Log
  <2>2. ASSUME NEW o \in Ops, Head(work) = Step(o) PROVE Head(work) = Step(op)
    <3>1. Step(o).op = o
      BY DEF Step
    <3> o = op
      BY <1>1, <2>2, <3>1
    <3> QED
      BY <2>2
  <2> QED
    BY <1>2, <2>1, <2>2 DEF StepSet
<1> QED
  BY <1>1, <1>2, <1>4, StepNames

LEMMA DoneMoves ==
    ASSUME WorkInv, work # <<>>, Done
    PROVE  Sound(work)' /\ MayFollow(Now, Now') /\ UNCHANGED <<phase, cntVars>>
<1>1. Sound(work) /\ boots' = boots /\ UNCHANGED <<phase, cntVars>> /\ work' = <<>> \o Tail(work)
  BY DEF WorkInv, Done, Continue, cntVars
<1>2. Sound(Tail(work)) /\ MayFollow(NameAt(work, 1), NameAt(Tail(work), 1))
  BY <1>1, SoundTail
<1>3. work' = Tail(work)
  BY <1>1, <1>2, ConcatEmptySeq DEF Sound, Chain
<1>4. Sound(work)' <=> Sound(work')
  BY <1>1 DEF Sound
<1> QED
  BY <1>1, <1>2, <1>3, <1>4 DEF Now

LEMMA ContinueMoves ==
    ASSUME WorkInv, work # <<>>, NEW steps, Continue(steps), Joins(steps, Tail(work))
    PROVE  Sound(work)' /\ Now' = Name(steps[1]) /\ UNCHANGED <<phase, cntVars>>
<1>1. /\ Sound(work) /\ boots' = boots /\ UNCHANGED <<phase, cntVars>>
      /\ work' = steps \o Tail(work)
  BY DEF WorkInv, Continue, cntVars
<1>2. Sound(Tail(work))
  BY <1>1, SoundTail
<1>3. Sound(work)' <=> Sound(work')
  BY <1>1 DEF Sound
<1> QED
  BY <1>1, <1>2, <1>3, SoundJoin DEF Now
(* The steps satkey_init, logger_init and logger_close_session are made of *)
(* come before what follows these calls.                                   *)
LEMMA KeyStepsJoin ==
    ASSUME NEW w, NameAt(w, 1) = "logger_init"
    PROVE  Joins(KeySteps, w) /\ Name(KeySteps[1]) = "key_create"
<1>1. /\ Step("key_create") \in StepSet /\ Name(Step("key_create")) = "key_create"
      /\ Step("key_magic") \in StepSet  /\ Name(Step("key_magic")) = "key_magic"
      /\ Step("key_write") \in StepSet  /\ Name(Step("key_write")) = "key_write"
      /\ Step("key_show") \in StepSet   /\ Name(Step("key_show")) = "key_show"
  BY StepNames DEF Ops
<1>2. /\ Len(KeySteps) = 4 /\ KeySteps \in Seq(StepSet)
      /\ KeySteps[1] = Step("key_create") /\ KeySteps[2] = Step("key_magic")
      /\ KeySteps[3] = Step("key_write") /\ KeySteps[4] = Step("key_show")
  BY <1>1 DEF KeySteps
<1>3. ASSUME NEW k \in 1 .. Len(KeySteps) - 1
      PROVE  MayFollow(Name(KeySteps[k]), Name(KeySteps[k + 1]))
  <2> k \in 1 .. 3 /\ (k = 1 \/ k = 2 \/ k = 3)
    BY <1>2
  <2> QED
    BY <1>1, <1>2 DEF MayFollow
<1>4. MayFollow(Name(KeySteps[Len(KeySteps)]), NameAt(w, 1))
  BY <1>1, <1>2 DEF MayFollow
<1>5. ASSUME NEW k \in 1 .. Len(KeySteps) PROVE Name(KeySteps[k]) # "reset"
  <2> k = 1 \/ k = 2 \/ k = 3 \/ k = 4
    BY <1>2
  <2> QED
    BY <1>1, <1>2
<1> QED
  BY <1>1, <1>2, <1>3, <1>4, <1>5 DEF Joins

LEMMA CloseStepsJoin ==
    ASSUME NEW w, NameAt(w, 1) \in {"halt", "reset"}
    PROVE  Joins(CloseSteps, w) /\ Name(CloseSteps[1]) = "closing"
<1>1. /\ Log("closing") \in StepSet /\ Name(Log("closing")) = "closing"
      /\ Step("rename") \in StepSet /\ Name(Step("rename")) = "rename"
  BY StepNames DEF Ops, Tags
<1>2. /\ Len(CloseSteps) = 2 /\ CloseSteps \in Seq(StepSet)
      /\ CloseSteps[1] = Log("closing") /\ CloseSteps[2] = Step("rename")
  BY <1>1 DEF CloseSteps
<1>3. \A k \in 1 .. Len(CloseSteps) - 1 : MayFollow(Name(CloseSteps[k]), Name(CloseSteps[k + 1]))
  <2> \A k \in 1 .. Len(CloseSteps) - 1 : k = 1
    BY <1>2
  <2> QED
    BY <1>1, <1>2 DEF MayFollow
<1>4. MayFollow(Name(CloseSteps[Len(CloseSteps)]), NameAt(w, 1))
  BY <1>1, <1>2 DEF MayFollow
<1>5. \A k \in 1 .. Len(CloseSteps) : Name(CloseSteps[k]) # "reset"
  <2> \A k \in 1 .. Len(CloseSteps) : k = 1 \/ k = 2
    BY <1>2
  <2> QED
    BY <1>1, <1>2
<1> QED
  BY <1>1, <1>2, <1>3, <1>4, <1>5 DEF Joins

LEMMA BootLineJoins ==
    ASSUME NEW w, NameAt(w, 1) = "start"
    PROVE  Joins(<<Log("boot")>>, w) /\ Name(<<Log("boot")>>[1]) = "boot"
<1> DEFINE u == <<Log("boot")>>
<1>1. Log("boot") \in StepSet /\ Name(Log("boot")) = "boot"
  BY StepNames DEF Tags
<1>2. Len(u) = 1 /\ u \in Seq(StepSet) /\ u[1] = Log("boot")
  BY <1>1
<1> HIDE DEF u
<1>3. /\ \A k \in 1 .. Len(u) - 1 : MayFollow(Name(u[k]), Name(u[k + 1]))
      /\ \A k \in 1 .. Len(u) : Name(u[k]) # "reset"
  <2> \A k \in 1 .. Len(u) : k = 1
    BY <1>2
  <2> QED
    BY <1>1, <1>2
<1>4. MayFollow(Name(u[Len(u)]), NameAt(w, 1))
  BY <1>1, <1>2 DEF MayFollow
<1>5. Joins(u, w)
  BY <1>2, <1>3, <1>4 DEF Joins
<1> QED
  BY <1>1, <1>2, <1>5 DEF u

(* A boot starts with the first step of main().                            *)
LEMMA BootWorkSound ==
    /\ Chain(BootWork) /\ NameAt(BootWork, 1) = "sjfs_init"
    /\ \A k \in 1 .. Len(BootWork) : NameAt(BootWork, k) # "reset"
<1>1. /\ Step("sjfs_init") \in StepSet   /\ Name(Step("sjfs_init")) = "sjfs_init"
      /\ Step("satkey_init") \in StepSet /\ Name(Step("satkey_init")) = "satkey_init"
      /\ Step("logger_init") \in StepSet /\ Name(Step("logger_init")) = "logger_init"
      /\ Step("start") \in StepSet       /\ Name(Step("start")) = "start"
  BY StepNames DEF Ops
<1>2. /\ Len(BootWork) = 4 /\ BootWork \in Seq(StepSet)
      /\ BootWork[1] = Step("sjfs_init") /\ BootWork[2] = Step("satkey_init")
      /\ BootWork[3] = Step("logger_init") /\ BootWork[4] = Step("start")
  BY <1>1 DEF BootWork
<1>3. /\ NameAt(BootWork, 1) = "sjfs_init" /\ NameAt(BootWork, 2) = "satkey_init"
      /\ NameAt(BootWork, 3) = "logger_init" /\ NameAt(BootWork, 4) = "start"
      /\ NameAt(BootWork, 5) = "none"
  BY <1>1, <1>2 DEF NameAt
<1>4. ASSUME NEW k \in 1 .. Len(BootWork)
      PROVE  /\ MayFollow(NameAt(BootWork, k), NameAt(BootWork, k + 1))
             /\ NameAt(BootWork, k) # "reset"
  <2> k = 1 \/ k = 2 \/ k = 3 \/ k = 4
    BY <1>2
  <2> QED
    BY <1>3 DEF MayFollow
<1> QED
  BY <1>2, <1>3, <1>4 DEF Sound, Chain
(* The lines that end a session and what comes after them.                 *)
LEMMA CloseCallJoins ==
    ASSUME NEW w, NameAt(w, 1) \in {"cmd", "none"}, NEW why \in Reasons,
           NEW last \in {"halt", "reset"}, last = "reset" => boots < MaxBoots
    PROVE  /\ Joins(<<Log(why), Step("logger_close"), Step(last)>>, w)
           /\ Name(<<Log(why), Step("logger_close"), Step(last)>>[1]) = why
<1> DEFINE u == <<Log(why), Step("logger_close"), Step(last)>>
<1>1. /\ Log(why) \in StepSet /\ Name(Log(why)) = why
      /\ Step("logger_close") \in StepSet /\ Name(Step("logger_close")) = "logger_close"
      /\ Step(last) \in StepSet /\ Name(Step(last)) = last
  BY StepNames DEF Ops, Tags, Reasons
<1>2. /\ Len(u) = 3 /\ u \in Seq(StepSet)
      /\ u[1] = Log(why) /\ u[2] = Step("logger_close") /\ u[3] = Step(last)
  BY <1>1
<1> HIDE DEF u
<1>3. ASSUME NEW k \in 1 .. Len(u) - 1 PROVE MayFollow(Name(u[k]), Name(u[k + 1]))
  <2> k = 1 \/ k = 2
    BY <1>2
  <2> QED
    BY <1>1, <1>2 DEF MayFollow, Reasons
<1>4. MayFollow(Name(u[Len(u)]), NameAt(w, 1))
  BY <1>1, <1>2 DEF MayFollow
<1>5. ASSUME NEW k \in 1 .. Len(u), Name(u[k]) = "reset" PROVE boots < MaxBoots
  <2> k = 1 \/ k = 2 \/ k = 3
    BY <1>2
  <2> why # "reset"
    BY DEF Reasons
  <2> QED
    BY <1>1, <1>2, <1>5
<1>6. Joins(u, w)
  BY <1>2, <1>3, <1>4, <1>5 DEF Joins
<1> QED
  BY <1>1, <1>2, <1>6 DEF u

LEMMA OneLine ==
    ASSUME NEW tag \in {"event", "cmd"}, NEW w, Sound(w),
           MayFollow(tag, NameAt(w, 1))
    PROVE  Sound(<<Log(tag)>> \o w) /\ NameAt(<<Log(tag)>> \o w, 1) = tag
<1> DEFINE u == <<Log(tag)>>
<1>1. Log(tag) \in StepSet /\ Name(Log(tag)) = tag
  BY StepNames DEF Tags
<1>2. Len(u) = 1 /\ u \in Seq(StepSet) /\ u[1] = Log(tag)
  BY <1>1
<1> HIDE DEF u
<1>3. /\ \A k \in 1 .. Len(u) - 1 : MayFollow(Name(u[k]), Name(u[k + 1]))
      /\ \A k \in 1 .. Len(u) : Name(u[k]) # "reset"
  <2> \A k \in 1 .. Len(u) : k = 1
    BY <1>2
  <2> QED
    BY <1>1, <1>2
<1>4. MayFollow(Name(u[Len(u)]), NameAt(w, 1))
  BY <1>1, <1>2
<1>5. Joins(u, w)
  BY <1>2, <1>3, <1>4 DEF Joins
<1>6. Sound(u \o w) /\ NameAt(u \o w, 1) = Name(u[1])
  BY <1>5, SoundJoin
<1> QED
  BY <1>1, <1>2, <1>6 DEF u

(* The line about the command itself.                                      *)
LEMMA CommandLine == Sound(<<Log("cmd")>>) /\ NameAt(<<Log("cmd")>>, 1) = "cmd"
<1>1. Sound(<<Log("cmd")>> \o <<>>) /\ NameAt(<<Log("cmd")>> \o <<>>, 1) = "cmd"
  BY SoundEmpty, OneLine DEF MayFollow
<1>2. <<Log("cmd")>> \in Seq(StepSet)
  BY StepNames DEF Tags
<1>3. <<Log("cmd")>> \o <<>> = <<Log("cmd")>>
  BY <1>2, ConcatEmptySeq
<1> QED
  BY <1>1, <1>3

(* The shell between two commands is at no step, and every command starts  *)
(* with a line: its own or the one about it.                               *)
LEMMA ShellNow == ASSUME Shell PROVE Now = "none" /\ phase = "run"
BY DEF Shell, Now, NameAt

LEMMA CommandMoves ==
    ASSUME WorkInv, NEW steps, Command(steps),
           \/ steps = <<>>
           \/ steps = <<Log("event")>>
           \/ \E last \in {"halt", "reset"} :
                 /\ steps = <<Log("event"), Step("logger_close"), Step(last)>>
                 /\ last = "reset" => boots < MaxBoots
    PROVE  Sound(work)' /\ Now' \in {"event", "cmd"}
<1>1. work' = steps \o <<Log("cmd")>> /\ boots' = boots
  BY DEF Command
<1>2. Sound(work') /\ NameAt(work', 1) \in {"event", "cmd"}
  <2>1. CASE steps = <<>>
    <3>1. <<Log("cmd")>> \in Seq(StepSet)
      BY StepNames DEF Tags
    <3>2. <<>> \o <<Log("cmd")>> = <<Log("cmd")>>
      BY <3>1, ConcatEmptySeq
    <3> QED
      BY <1>1, <2>1, <3>2, CommandLine
  <2>2. CASE steps = <<Log("event")>>
    BY <1>1, <2>2, CommandLine, OneLine DEF MayFollow
  <2>3. ASSUME NEW last \in {"halt", "reset"},
               steps = <<Log("event"), Step("logger_close"), Step(last)>>,
               last = "reset" => boots < MaxBoots
        PROVE  Sound(work') /\ NameAt(work', 1) \in {"event", "cmd"}
    <3>1. Joins(steps, <<Log("cmd")>>) /\ Name(steps[1]) = "event"
      BY <2>3, CommandLine, CloseCallJoins DEF Reasons
    <3> QED
      BY <1>1, <3>1, CommandLine, SoundJoin
  <2> QED
    BY <2>1, <2>2, <2>3
<1>3. Sound(work)' <=> Sound(work')
  BY <1>1 DEF Sound
<1> QED
  BY <1>2, <1>3 DEF Now

LEMMA TimeoutMoves ==
    ASSUME WorkInv, WdTimeout
    PROVE  Sound(work)' /\ Now' = "timeout"
<1> DEFINE u == <<Log("timeout"), Step("logger_close"), Step("reset")>>
<1>1. work' = u /\ boots' = boots /\ boots < MaxBoots
  BY DEF WdTimeout, cntVars
<1>2. Joins(u, <<>>) /\ Name(u[1]) = "timeout"
  BY <1>1, SoundEmpty, CloseCallJoins DEF Reasons
<1> HIDE DEF u
<1>3. Sound(u \o <<>>) /\ NameAt(u \o <<>>, 1) = "timeout"
  BY <1>2, SoundEmpty, SoundJoin
<1>4. u \o <<>> = u
  BY <1>2, ConcatEmptySeq DEF Joins
<1>5. Sound(work)' <=> Sound(work')
  BY <1>1 DEF Sound
<1> QED
  BY <1>1, <1>3, <1>4, <1>5 DEF Now
LEMMA ResetMoves ==
    ASSUME ResetState
    PROVE  Sound(work)' /\ Now' = "sjfs_init" /\ phase' = "boot"
<1>1. work' = BootWork /\ phase' = "boot"
  BY DEF ResetState
<1> HIDE DEF BootWork
<1> QED
  BY <1>1, BootWorkSound DEF Sound, Now

-----------------------------------------------------------------------------
(* Each step of a call, in the names of what is next before and after it.  *)
LEMMA SjfsInitMoves ==
    ASSUME WorkInv, DoSjfsInit
    PROVE  /\ Now = "sjfs_init" /\ Now' = "satkey_init" /\ Sound(work)'
           /\ UNCHANGED <<phase, cntVars>>
<1>1. Now = "sjfs_init" /\ work # <<>> /\ Done
  BY DoingNamed DEF DoSjfsInit, Ops
<1> QED
  BY <1>1, DoneMoves DEF MayFollow

LEMMA SatkeyInitMoves ==
    ASSUME WorkInv, DoSatkeyInit
    PROVE  /\ Now = "satkey_init" /\ Sound(work)' /\ UNCHANGED <<phase, cntVars>>
           /\ \/ KeyExists /\ plain' = plain /\ Now' = "logger_init"
              \/ ~ KeyExists /\ plain' \in Keys /\ Now' = "key_create"
<1>1. Now = "satkey_init" /\ work # <<>>
  BY DoingNamed DEF DoSatkeyInit, Ops
<1>2. CASE KeyExists /\ Done /\ UNCHANGED plain
  BY <1>1, <1>2, DoneMoves DEF MayFollow
<1>3. CASE ~ KeyExists /\ Continue(KeySteps) /\ plain' \in Keys
  <2>1. NameAt(Tail(work), 1) = "logger_init"
    BY <1>1, SoundTail DEF WorkInv, Now, MayFollow
  <2> QED
    BY <1>1, <1>3, <2>1, KeyStepsJoin, ContinueMoves
<1> QED
  BY <1>2, <1>3 DEF DoSatkeyInit

LEMMA KeyCreateMoves ==
    ASSUME WorkInv, DoKeyCreate
    PROVE  /\ Now = "key_create" /\ Now' = "key_magic" /\ Sound(work)'
           /\ UNCHANGED <<phase, cntVars>>
<1>1. Now = "key_create" /\ work # <<>> /\ Done
  BY DoingNamed DEF DoKeyCreate, Ops
<1> QED
  BY <1>1, DoneMoves DEF MayFollow

LEMMA KeyWriteMoves ==
    ASSUME WorkInv, DoKeyWrite
    PROVE  /\ Sound(work)' /\ UNCHANGED <<phase, cntVars>>
           /\ \/ Now = "key_magic" /\ Now' = "key_write" /\ WriteFile(key_idx, <<Magic>>)
              \/ Now = "key_write" /\ Now' = "key_show" /\ WriteFile(key_idx, <<KeyUnit(plain)>>)
<1>1. \/ Now = "key_magic" /\ work # <<>> /\ WriteFile(key_idx, <<Magic>>)
      \/ Now = "key_write" /\ work # <<>> /\ WriteFile(key_idx, <<KeyUnit(plain)>>)
  BY DoingNamed DEF DoKeyWrite, Ops
<1>2. Done
  BY DEF DoKeyWrite
<1> QED
  BY <1>1, <1>2, DoneMoves DEF MayFollow

LEMMA KeyShowMoves ==
    ASSUME WorkInv, DoKeyShow
    PROVE  /\ Now = "key_show" /\ Now' = "logger_init" /\ Sound(work)'
           /\ UNCHANGED <<phase, cntVars>>
<1>1. Now = "key_show" /\ work # <<>> /\ Done
  BY DoingNamed DEF DoKeyShow, Ops
<1> QED
  BY <1>1, DoneMoves DEF MayFollow

LEMMA LoggerInitMoves ==
    ASSUME WorkInv, DoLoggerInit
    PROVE  /\ Now = "logger_init" /\ Now' = "boot" /\ Sound(work)'
           /\ UNCHANGED <<phase, cntVars>>
<1>1. Now = "logger_init" /\ work # <<>> /\ Continue(<<Log("boot")>>)
  BY DoingNamed DEF DoLoggerInit, Ops
<1>2. NameAt(Tail(work), 1) = "start"
  BY <1>1, SoundTail DEF WorkInv, Now, MayFollow
<1> QED
  BY <1>1, <1>2, BootLineJoins, ContinueMoves

LEMMA LoggerWriteMoves ==
    ASSUME WorkInv, DoLoggerWrite
    PROVE  /\ Now \in Tags /\ Head(work).tag = Now
           /\ MayFollow(Now, Now') /\ Sound(work)'
           /\ UNCHANGED <<phase, cntVars>>
<1>1. work # <<>> /\ Head(work).op = "logger_write" /\ Done /\ Sound(work)
  BY DEF DoLoggerWrite, Doing, WorkInv
<1>2. Head(work) \in StepSet /\ Now = Name(Head(work))
  BY <1>1, SoundTail DEF Now
<1>3. Now = Head(work).tag
  BY <1>1, <1>2 DEF Name
<1>4. Head(work).tag \in Tags
  <2>1. ASSUME NEW o \in Ops, Head(work) = Step(o) PROVE FALSE
    <3>1. Step(o).op = o
      BY DEF Step
    <3> QED
      BY <1>1, <2>1, <3>1 DEF Ops
  <2>2. ASSUME NEW t \in Tags, Head(work) = Log(t) PROVE Head(work).tag \in Tags
    <3>1. Log(t).tag = t
      BY DEF Log
    <3> QED
      BY <2>2, <3>1
  <2> QED
    BY <1>2, <2>1, <2>2 DEF StepSet
<1> QED
  BY <1>1, <1>3, <1>4, DoneMoves

LEMMA LoggerCloseMoves ==
    ASSUME WorkInv, DoLoggerClose
    PROVE  /\ Now = "logger_close" /\ Sound(work)' /\ UNCHANGED <<phase, cntVars>>
           /\ s_open => Now' = "closing"
           /\ ~ s_open => Now' \in {"halt", "reset"}
<1>1. Now = "logger_close" /\ work # <<>>
  BY DoingNamed DEF DoLoggerClose, Ops
<1>2. CASE s_open
  <2>1. NameAt(Tail(work), 1) \in {"halt", "reset"}
    BY <1>1, SoundTail DEF WorkInv, Now, MayFollow
  <2>2. Continue(CloseSteps)
    BY <1>2 DEF DoLoggerClose
  <2> QED
    BY <1>1, <1>2, <2>1, <2>2, CloseStepsJoin, ContinueMoves
<1>3. CASE ~ s_open
  <2>1. Done
    BY <1>3 DEF DoLoggerClose, Done
  <2> QED
    BY <1>1, <1>3, <2>1, DoneMoves DEF MayFollow
<1> QED
  BY <1>2, <1>3

LEMMA RenameMoves ==
    ASSUME WorkInv, DoRename
    PROVE  /\ Now = "rename" /\ Now' \in {"halt", "reset"} /\ Sound(work)'
           /\ UNCHANGED <<phase, cntVars>>
<1>1. Now = "rename" /\ work # <<>> /\ Done
  BY DoingNamed DEF DoRename, Ops
<1> QED
  BY <1>1, DoneMoves DEF MayFollow

LEMMA PhaseMoves ==
    ASSUME WorkInv, DoPhase
    PROVE  /\ Sound(work)' /\ Now' = "none" /\ UNCHANGED cntVars
           /\ \/ Now = "start" /\ phase' = "run"
              \/ Now = "halt" /\ phase' = "halt"
<1>1. \/ Now = "start" /\ phase' = "run"
      \/ Now = "halt" /\ phase' = "halt"
  BY DoingNamed DEF DoPhase, Ops
<1>2. work' = <<>> /\ UNCHANGED cntVars
  BY DEF DoPhase
<1>3. Sound(work)' /\ Now' = "none"
  BY <1>2 DEF Sound, Chain, Now, NameAt
<1> QED
  BY <1>1, <1>2, <1>3

LEMMA ResetStepMoves ==
    ASSUME WorkInv, DoReset
    PROVE  Now = "reset" /\ boots < MaxBoots
<1>1. Now = "reset" /\ work # <<>>
  BY DoingNamed DEF DoReset, Ops
<1> QED
  BY <1>1, SoundTail DEF WorkInv, Now
-----------------------------------------------------------------------------
(* The other steps: those that only let time pass, those that begin a      *)
(* call, and resets.                                                       *)
StillStep ==
    /\ UNCHANGED <<fs, phase, work, keyVars, ramVars, boots, commands, seenVars, hist>>
    /\ minute' \in 0 .. MaxMinute

BeginStep ==
    /\ Now = "none" /\ phase = "run" /\ phase' = "run"
    /\ Sound(work)' /\ Now' \in {"event", "cmd", "timeout"}
    /\ \/ g_authenticated' => g_authenticated /\ presented' = presented
       \/ \E k \in Keys : /\ presented' = presented \union {k}
                          /\ g_authenticated' => g_authenticated \/ SatkeyVerify(k)
    /\ g_authenticated' \in BOOLEAN /\ safe_mode' \in BOOLEAN
    /\ presented' \in SUBSET Keys /\ commands' \in 0 .. MaxCommands
    /\ UNCHANGED <<fs, keyVars, s_log_idx, s_open, minute, boots, shown, pulled, cut, hist>>

ResetStep ==
    /\ ResetState
    /\ boots < MaxBoots
    /\ \/ Now = "reset" /\ UNCHANGED <<pulled, cut>>
       \/ /\ pulled < MaxPulls /\ pulled' = pulled + 1
          /\ cut' \in BOOLEAN /\ (Now \in KeyWriting => cut') /\ (cut => cut')

LEMMA CommandBegins ==
    ASSUME TypeInv, WorkInv, ShellStep
    PROVE  StillStep \/ BeginStep
<1> USE BoundTypes
<1>1. ASSUME NEW steps, Command(steps)
      PROVE  /\ Now = "none" /\ phase = "run" /\ phase' = "run" /\ commands' \in 0 .. MaxCommands
             /\ UNCHANGED <<fs, keyVars, s_log_idx, s_open, minute, boots, shown, pulled, cut, hist>>
  BY <1>1, ShellNow DEF Command, Shell, TypeInv
<1>2. ASSUME NEW k \in Keys, CmdAuth(k) PROVE BeginStep
  <2>1. Command(<<Log("event")>>)
    BY <1>2 DEF CmdAuth
  <2>2. Sound(work)' /\ Now' \in {"event", "cmd"}
    BY <2>1, CommandMoves
  <2>3. /\ presented' = presented \union {k} /\ presented' \in SUBSET Keys
        /\ g_authenticated' = (g_authenticated \/ SatkeyVerify(k))
        /\ g_authenticated' \in BOOLEAN /\ safe_mode' \in BOOLEAN
    BY <1>2 DEF CmdAuth, TypeInv
  <2> QED
    BY <1>1, <2>1, <2>2, <2>3 DEF BeginStep
<1>3. CASE CmdLogout \/ CmdSafemode
  <2>1. PICK steps \in {<<Log("event")>>, <<>>} : Command(steps)
    BY <1>3 DEF CmdLogout, CmdSafemode
  <2>2. Sound(work)' /\ Now' \in {"event", "cmd"}
    BY <2>1, CommandMoves
  <2>3. /\ presented' = presented /\ presented' \in SUBSET Keys
        /\ g_authenticated' => g_authenticated
        /\ g_authenticated' \in BOOLEAN /\ safe_mode' \in BOOLEAN
    <3>1. CASE CmdLogout
      BY <3>1 DEF CmdLogout, TypeInv
    <3>2. CASE CmdSafemode
      <4>1. presented' = presented /\ g_authenticated' = g_authenticated
        BY <3>2 DEF CmdSafemode
      <4>2. safe_mode' \in BOOLEAN
        BY <3>2 DEF CmdSafemode
      <4> QED
        BY <4>1, <4>2 DEF TypeInv
    <3> QED
      BY <1>3, <3>1, <3>2
  <2> QED
    BY <1>1, <2>1, <2>2, <2>3 DEF BeginStep
<1>4. CASE CmdPublic
  <2>1. PICK steps \in {<<Log("event")>>, <<>>} : Command(steps)
    BY <1>4 DEF CmdPublic
  <2>2. Sound(work)' /\ Now' \in {"event", "cmd"}
    BY <2>1, CommandMoves
  <2>3. /\ presented' = presented /\ presented' \in SUBSET Keys
        /\ g_authenticated' => g_authenticated
        /\ g_authenticated' \in BOOLEAN /\ safe_mode' \in BOOLEAN
    BY <1>4 DEF CmdPublic, TypeInv
  <2> QED
    BY <1>1, <2>1, <2>2, <2>3 DEF BeginStep
<1>5. ASSUME NEW last \in {"halt", "reset"}, CmdStop(last) PROVE BeginStep
  <2>1. last = "reset" => boots < MaxBoots
    BY <1>5 DEF CmdStop
  <2>2. PICK steps : /\ Command(steps)
                     /\ \/ steps = <<>>
                        \/ steps = <<Log("event"), Step("logger_close"), Step(last)>>
    BY <1>5 DEF CmdStop
  <2>3. Sound(work)' /\ Now' \in {"event", "cmd"}
    BY <2>1, <2>2, CommandMoves
  <2>4. /\ presented' = presented /\ presented' \in SUBSET Keys
        /\ g_authenticated' => g_authenticated
        /\ g_authenticated' \in BOOLEAN /\ safe_mode' \in BOOLEAN
    BY <1>5 DEF CmdStop, TypeInv
  <2> QED
    BY <1>1, <2>2, <2>3, <2>4 DEF BeginStep
<1>6. CASE ShellIdle
  BY <1>6 DEF ShellIdle, StillStep, vars, ramVars, keyVars, cntVars, seenVars, TypeInv
<1> QED
  BY <1>2, <1>3, <1>4, <1>5, <1>6 DEF ShellStep

(* Every step is one of these, or one of the steps of a call.              *)
LEMMA NextKinds ==
    ASSUME TypeInv, WorkInv, [Next]_vars
    PROVE  \/ StillStep \/ BeginStep \/ ResetStep
           \/ DoSjfsInit \/ DoSatkeyInit \/ DoKeyCreate \/ DoKeyWrite \/ DoKeyShow
           \/ DoLoggerInit \/ DoLoggerWrite \/ DoLoggerClose \/ DoRename \/ DoPhase
<1> USE BoundTypes
<1>1. CASE WdTimeout
  <2>1. Sound(work)' /\ Now' = "timeout"
    BY <1>1, TimeoutMoves
  <2>2. Now = "none" /\ phase = "run"
    BY <1>1, ShellNow DEF WdTimeout
  <2>3. UNCHANGED <<fs, phase, keyVars, ramVars, cntVars, seenVars, hist>>
    BY <1>1 DEF WdTimeout
  <2> QED
    BY <2>1, <2>2, <2>3 DEF BeginStep, TypeInv, ramVars, cntVars, seenVars
<1>2. CASE Halted \/ Minute \/ UNCHANGED vars
  BY <1>2 DEF Halted, Minute, StillStep, vars, ramVars, keyVars, cntVars, seenVars, TypeInv
<1>3. CASE PullReset
  <2>1. ASSUME NEW op \in KeyWriting, Now = op PROVE Doing(op)
    <3>1. work # <<>> /\ Sound(work)
      BY <2>1 DEF WorkInv, Now, NameAt, KeyWriting
    <3>2. Head(work) \in StepSet /\ Name(Head(work)) = op
      BY <2>1, <3>1, SoundTail DEF Now
    <3>3. Head(work).op = op
      <4>1. op \notin Tags
        BY DEF KeyWriting, Tags
      <4>2. ASSUME NEW t \in Tags, Head(work) = Log(t) PROVE FALSE
        BY <3>2, <4>1, <4>2, StepNames
      <4>3. ASSUME NEW o \in Ops, Head(work) = Step(o) PROVE Head(work).op = op
        <5>1. Step(o).op = o /\ Name(Step(o)) = o
          BY StepNames DEF Step
        <5> QED
          BY <3>2, <4>3, <5>1
      <4> QED
        BY <3>2, <4>2, <4>3 DEF StepSet
    <3> QED
      BY <3>1, <3>3 DEF Doing
  <2>2. /\ ResetState /\ boots < MaxBoots /\ pulled < MaxPulls /\ pulled' = pulled + 1
        /\ cut' = (cut \/ \E op \in KeyWriting : Doing(op))
    BY <1>3 DEF PullReset, KeyWriting
  <2>3. Now \in KeyWriting => cut'
    BY <2>1, <2>2
  <2>4. cut' \in BOOLEAN /\ (cut => cut')
    BY <2>2 DEF TypeInv
  <2> QED
    BY <2>2, <2>3, <2>4 DEF ResetStep
<1>4. CASE DoReset
  BY <1>4, ResetStepMoves DEF ResetStep, DoReset
<1> QED
  BY <1>1, <1>2, <1>3, <1>4, CommandBegins DEF Next, CallStep

(* The steps of a call stay chained and belong to the phase.               *)
LEMMA WorkStep ==
    ASSUME TypeInv, WorkInv, [Next]_vars
    PROVE  WorkInv'
<1>1. CASE StillStep
  BY <1>1 DEF StillStep, WorkInv, Sound, Now
<1>2. CASE BeginStep
  BY <1>2 DEF BeginStep, WorkInv, RunNames
<1>3. CASE ResetStep
  BY <1>3, ResetMoves DEF ResetStep, WorkInv, BootNames, BeforeLog, BeforeKey
<1> DEFINE Boot == phase = "boot" /\ Now \in BootNames
           Run  == phase = "run" /\ Now \in RunNames
<1>4. (Boot \/ Run \/ Now = "none") /\ phase \in {"boot", "run", "halt"}
      /\ ~ ("none" \in BootNames)
  BY DEF WorkInv, TypeInv, BootNames, BeforeLog, BeforeKey, KeyWriting
<1>5. CASE DoSjfsInit \/ DoSatkeyInit \/ DoKeyCreate \/ DoKeyWrite \/ DoKeyShow \/ DoLoggerInit
  <2>1. /\ Now \in BeforeLog /\ Now' \in BootNames /\ Sound(work)' /\ phase' = phase
    BY <1>5, SjfsInitMoves, SatkeyInitMoves, KeyCreateMoves, KeyWriteMoves, KeyShowMoves,
       LoggerInitMoves DEF BeforeLog, BeforeKey, KeyWriting, BootNames
  <2>2. phase = "boot"
    BY <2>1 DEF WorkInv, TypeInv, RunNames, BeforeLog, BeforeKey, KeyWriting
  <2> QED
    BY <2>1, <2>2 DEF WorkInv
<1>6. CASE DoLoggerWrite
  <2>1. /\ Now \in Tags /\ MayFollow(Now, Now') /\ Sound(work)' /\ phase' = phase
    BY <1>6, LoggerWriteMoves
  <2>2. phase = "boot" => Now = "boot" /\ Now' = "start"
    BY <2>1 DEF WorkInv, BootNames, BeforeLog, BeforeKey, KeyWriting, Tags, MayFollow
  <2>3. phase = "run" => Now' \in RunNames
    BY <2>1 DEF WorkInv, RunNames, Tags, MayFollow
  <2>4. phase # "halt"
    BY <2>1 DEF WorkInv, Tags
  <2> QED
    BY <2>1, <2>2, <2>3, <2>4 DEF WorkInv, BootNames
<1>7. CASE DoLoggerClose \/ DoRename
  <2>1. /\ Now \in {"logger_close", "rename"} /\ Now' \in {"closing", "halt", "reset"}
        /\ Sound(work)' /\ phase' = phase
    BY <1>7, LoggerCloseMoves, RenameMoves
  <2>2. phase = "run"
    BY <2>1 DEF WorkInv, TypeInv, BootNames, BeforeLog, BeforeKey, KeyWriting
  <2> QED
    BY <2>1, <2>2 DEF WorkInv, RunNames
<1>8. CASE DoPhase
  BY <1>8, PhaseMoves DEF WorkInv, RunNames
<1> QED
  BY <1>1, <1>2, <1>3, <1>5, <1>6, <1>7, <1>8, NextKinds
-----------------------------------------------------------------------------
(* What the steps that touch the store do to it, given the invariant.      *)
LEMMA PathTypes ==
    /\ NoPath \in Path /\ KeyPath \in Path /\ LogPath \in Path
    /\ \A m \in 0 .. MaxMinute : /\ ClosedPath(m) \in Path /\ ClosedPath(m)[1] = "closed"
                                 /\ ClosedPath(m) # LogPath /\ ClosedPath(m) # KeyPath
    /\ KeyPath # LogPath /\ KeyPath[1] # "closed" /\ LogPath[1] # "closed"
    /\ NoPath # LogPath /\ NoPath # KeyPath
BY DEF Path, NoPath, KeyPath, LogPath, ClosedPath

LEMMA UnitTypes ==
    /\ Magic \in Unit /\ \A k \in Keys : KeyUnit(k) \in Unit
    /\ \A tag \in Tags : Line(tag) \in Seq(Unit)
<1>1. Magic \in Unit /\ \A k \in Keys : KeyUnit(k) \in Unit
  BY DEF Unit, Magic
<1>2. ASSUME NEW tag \in Tags PROVE <<tag, 1>> \in Unit /\ <<tag, 2>> \in Unit
  BY DEF Unit, Tags
<1>3. ASSUME NEW tag \in Tags PROVE Line(tag) \in Seq(Unit)
  <2> DEFINE a == <<tag, 1>>
             b == <<tag, 2>>
  <2>1. a \in Unit /\ b \in Unit
    BY <1>2
  <2>2. Line(tag) = <<a>> \/ Line(tag) = <<a, b>>
    BY DEF Line
  <2> HIDE DEF a, b, Unit
  <2>3. <<a>> \in Seq(Unit) /\ <<a, b>> \in Seq(Unit)
    BY <2>1
  <2> QED
    BY <2>2, <2>3
<1> QED
  BY <1>1, <1>3

LEMMA SjfsInitEffect ==
    ASSUME TypeInv, StoreInv, DoSjfsInit
    PROVE  /\ fs' \in Store(Path, Unit) /\ fs'.valid
           /\ \A f \in FileId : fs'.entries[f] = fs.entries[f]
<1> fs' = SjfsInit(fs)
  BY DEF DoSjfsInit
<1>1. CASE fs.valid
  BY <1>1 DEF SjfsInit, TypeInv
<1>2. CASE ~ fs.valid
  <2>1. \A f \in FileId : fs.entries[f] = Unused
    BY <1>2 DEF StoreInv
  <2>2. fs' = Formatted
    BY <1>2 DEF SjfsInit
  <2>3. Unused \in Entry(Path, Unit)
    BY PathTypes DEF Unused, Entry
  <2> QED
    BY <2>1, <2>2, <2>3 DEF Formatted, Store
<1> QED
  BY <1>1, <1>2

(* The key file takes the first entry.                                     *)
LEMMA KeyCreateEffect ==
    ASSUME TypeInv, StoreInv, KeyPlaceInv, Now = "key_create", DoKeyCreate
    PROVE  /\ key_idx' = 0
           /\ fs' \in Store(Path, Unit) /\ fs'.valid = fs.valid
           /\ fs'.entries[0] = [used |-> TRUE, path |-> KeyPath, data |-> <<>>]
           /\ \A f \in FileId \ {0} : fs'.entries[f] = fs.entries[f]
<1>1. ~ fs.entries[0].used
  BY DEF KeyPlaceInv
<1>2. SjfsFree(fs) = 0
  BY <1>1, FileIds, FreeFinds
<1>3. key_idx' = 0 /\ fs' = SjfsCreate(fs, KeyPath)
  BY <1>2 DEF DoKeyCreate
<1>4. fs \in Store(Path, Unit) /\ SjfsFree(fs) \in FileId
  BY <1>2, FileIds DEF TypeInv
<1> QED
  BY <1>2, <1>3, <1>4, FileIds, PathTypes, CreateEffect

(* A write is seen in one file, as an append to what it was handed.        *)
LEMMA WriteFileEffect ==
    ASSUME TypeInv, StoreInv, NEW i \in FileId, NEW u \in Seq(Unit), WriteFile(i, u)
    PROVE  /\ fs' \in Store(Path, Unit) /\ fs'.valid = fs.valid
           /\ \A f \in FileId : /\ fs'.entries[f].used = fs.entries[f].used
                                /\ fs'.entries[f].path = fs.entries[f].path
           /\ \A f \in FileId \ {i} : fs'.entries[f] = fs.entries[f] /\ hist'[f] = hist[f]
           /\ hist' \in [FileId -> Seq(Unit)]
           /\ hist'[i] = hist[i] \o u
           /\ fs'.entries[i].data = Take(hist'[i], SJFS_FILE_UNITS)
           /\ fs'.entries[i].data = fs.entries[i].data \o
                 Take(u, SJFS_FILE_UNITS - Len(fs.entries[i].data))
<1> DEFINE d == fs.entries[i].data \o Take(u, SJFS_FILE_UNITS - Len(fs.entries[i].data))
<1>1. /\ fs' = SjfsWrite(fs, i, u) /\ hist' = [hist EXCEPT ![i] = hist[i] \o u]
      /\ hist \in [FileId -> Seq(Unit)] /\ fs \in Store(Path, Unit)
      /\ fs.entries[i].data = Take(hist[i], SJFS_FILE_UNITS)
  BY DEF WriteFile, TypeInv, StoreInv, FileIsPrefixOfHistory
<1>2. hist[i] \in Seq(Unit) /\ hist[i] \o u \in Seq(Unit)
  BY <1>1
<1>3. /\ hist' \in [FileId -> Seq(Unit)] /\ hist'[i] = hist[i] \o u
      /\ \A f \in FileId \ {i} : hist'[f] = hist[f]
  BY <1>1, <1>2
<1>4. d = Take(hist[i] \o u, SJFS_FILE_UNITS)
  BY <1>1, <1>2, BoundTypes, TakeOfAppend
<1>5. d \in Seq(Unit)
  BY <1>2, <1>4, BoundTypes, TakeIsPrefix
<1>6. /\ SjfsWrite(fs, i, u) \in Store(Path, Unit)
      /\ SjfsWrite(fs, i, u).valid = fs.valid
      /\ \A f \in FileId : SjfsWrite(fs, i, u).entries[f] =
            IF f = i
            THEN [used |-> fs.entries[i].used, path |-> fs.entries[i].path, data |-> d]
            ELSE fs.entries[f]
  <2>1. /\ SjfsWrite(fs, i, u).valid = fs.valid
        /\ \A f \in FileId : SjfsWrite(fs, i, u).entries[f] =
              IF f = i
              THEN [used |-> fs.entries[i].used, path |-> fs.entries[i].path, data |-> d]
              ELSE fs.entries[f]
        /\ d \in Seq(Unit) => SjfsWrite(fs, i, u) \in Store(Path, Unit)
    <3>1. fs \in Store(Path, Unit)
      BY <1>1
    <3> HIDE DEF Store
    <3> QED
      BY <3>1, WriteEffect
  <2> HIDE DEF d
  <2> QED
    BY <1>5, <2>1
<1> HIDE DEF d
<1>7. /\ \A f \in FileId \ {i} : fs'.entries[f] = fs.entries[f]
      /\ fs'.entries[i].data = d
      /\ \A f \in FileId : /\ fs'.entries[f].used = fs.entries[f].used
                           /\ fs'.entries[f].path = fs.entries[f].path
  <2>1. \A f \in FileId : fs'.entries[f] =
           IF f = i
           THEN [used |-> fs.entries[i].used, path |-> fs.entries[i].path, data |-> d]
           ELSE fs.entries[f]
    BY <1>1, <1>6
  <2>2. fs'.entries[i] = [used |-> fs.entries[i].used, path |-> fs.entries[i].path, data |-> d]
    BY <2>1
  <2>3. \A f \in FileId \ {i} : fs'.entries[f] = fs.entries[f]
    BY <2>1
  <2> QED
    BY <2>2, <2>3
<1>8. fs'.entries[i].data = Take(hist'[i], SJFS_FILE_UNITS)
  BY <1>3, <1>4, <1>7
<1> QED
  BY <1>1, <1>3, <1>6, <1>7, <1>8 DEF d

(* The key file is written at its index, with a known unit.                *)
LEMMA KeyWriteEffect ==
    ASSUME TypeInv, WorkInv, KeyPlaceInv, DoKeyWrite
    PROVE  \/ /\ Now = "key_magic" /\ Now' = "key_write"
              /\ <<Magic>> \in Seq(Unit) /\ WriteFile(0, <<Magic>>)
           \/ /\ Now = "key_write" /\ Now' = "key_show"
              /\ <<KeyUnit(plain)>> \in Seq(Unit) /\ WriteFile(0, <<KeyUnit(plain)>>)
<1>1. \/ Now = "key_magic" /\ Now' = "key_write" /\ WriteFile(key_idx, <<Magic>>)
      \/ Now = "key_write" /\ Now' = "key_show" /\ WriteFile(key_idx, <<KeyUnit(plain)>>)
  BY KeyWriteMoves
<1>2. key_idx = 0 /\ plain \in Keys
  BY <1>1 DEF KeyPlaceInv, KeyWriting
<1>3. Magic \in Unit /\ KeyUnit(plain) \in Unit
  BY <1>2, UnitTypes
<1>4. <<Magic>> \in Seq(Unit) /\ <<KeyUnit(plain)>> \in Seq(Unit)
  <2> DEFINE a == Magic
             b == KeyUnit(plain)
  <2>1. a \in Unit /\ b \in Unit
    BY <1>3
  <2> HIDE DEF a, b, Unit
  <2>2. <<a>> \in Seq(Unit) /\ <<b>> \in Seq(Unit)
    BY <2>1
  <2> QED
    BY <2>2 DEF a, b
<1> QED
  BY <1>1, <1>2, <1>4

(* logger_init finds the log, creates it in a free entry, or goes without. *)
LEMMA LoggerInitEffect ==
    ASSUME TypeInv, DoLoggerInit
    PROVE  /\ hist' = hist
           /\ \/ /\ fs' = fs /\ s_open' = TRUE
                 /\ s_log_idx' \in FileId /\ HasPath(s_log_idx', LogPath)
              \/ /\ NoLog /\ s_open' = TRUE /\ s_log_idx' \in FileId
                 /\ ~ fs.entries[s_log_idx'].used
                 /\ fs' \in Store(Path, Unit) /\ fs'.valid = fs.valid
                 /\ fs'.entries[s_log_idx'] = [used |-> TRUE, path |-> LogPath, data |-> <<>>]
                 /\ \A f \in FileId \ {s_log_idx'} : fs'.entries[f] = fs.entries[f]
              \/ fs' = fs /\ s_open' = FALSE /\ s_log_idx' = NoFile /\ NoLog /\ AllInUse
<1>1. /\ hist' = hist /\ s_log_idx' = SjfsOpenOrFree(fs, LogPath)
      /\ fs' = SjfsOpenOrCreate(fs, LogPath)
      /\ s_open' = (SjfsOpenOrFree(fs, LogPath) # NoFile)
  BY DEF DoLoggerInit, LogFile, SessionOpens
<1>2. CASE SjfsOpen(fs, LogPath) # NoFile
  <2>1. SjfsOpen(fs, LogPath) \in FileId /\ HasPath(SjfsOpen(fs, LogPath), LogPath)
    BY <1>2, OpenFinds DEF HasPath
  <2> QED
    BY <1>1, <1>2, <2>1 DEF SjfsOpenOrFree, SjfsOpenOrCreate
<1>3. CASE SjfsOpen(fs, LogPath) = NoFile
  <2>1. NoLog
    BY <1>3, OpenFinds, FileIds DEF NoLog, HasPath
  <2>2. s_log_idx' = SjfsFree(fs) /\ fs' = SjfsCreate(fs, LogPath)
        /\ s_open' = (SjfsFree(fs) # NoFile)
    BY <1>1, <1>3 DEF SjfsOpenOrFree, SjfsOpenOrCreate
  <2>3. CASE SjfsFree(fs) = NoFile
    <3>1. AllInUse
      BY <2>3, FreeFinds, FileIds DEF AllInUse
    <3>2. fs' = fs
      BY <2>2, <2>3 DEF SjfsCreate
    <3> QED
      BY <1>1, <2>1, <2>2, <2>3, <3>1, <3>2
  <2>4. CASE SjfsFree(fs) # NoFile
    <3>1. SjfsFree(fs) \in FileId /\ ~ fs.entries[SjfsFree(fs)].used
      BY <2>4, FreeFinds
    <3>2. /\ SjfsCreate(fs, LogPath) \in Store(Path, Unit)
          /\ SjfsCreate(fs, LogPath).valid = fs.valid
          /\ \A f \in FileId : SjfsCreate(fs, LogPath).entries[f] =
                IF f = SjfsFree(fs) THEN [used |-> TRUE, path |-> LogPath, data |-> <<>>]
                ELSE fs.entries[f]
      BY <3>1, PathTypes, CreateEffect DEF TypeInv
    <3> QED
      BY <1>1, <2>1, <2>2, <2>4, <3>1, <3>2
  <2> QED
    BY <2>3, <2>4
<1> QED
  BY <1>2, <1>3

(* A line is written to the open log, or nowhere.                          *)
LEMMA LoggerWriteEffect ==
    ASSUME TypeInv, WorkInv, LogInv, DoLoggerWrite
    PROVE  \/ /\ s_open /\ s_log_idx \in FileId /\ HasPath(s_log_idx, LogPath)
              /\ Line(Now) \in Seq(Unit) /\ WriteFile(s_log_idx, Line(Now))
           \/ ~ s_open /\ fs' = fs /\ hist' = hist
<1>1. Now \in Tags /\ Head(work).tag = Now
  BY LoggerWriteMoves
<1>2. s_open => s_log_idx \in FileId /\ s_log_idx # NoFile /\ HasPath(s_log_idx, LogPath)
  BY FileIds DEF LogInv
<1> QED
  BY <1>1, <1>2, UnitTypes DEF DoLoggerWrite

(* The session is never logged in the key file.                            *)
LEMMA LoggerWriteSparesKey ==
    ASSUME TypeInv, WorkInv, StoreInv, KeyPlaceInv, LogInv, DoLoggerWrite
    PROVE  fs'.entries[0] = fs.entries[0] /\ hist'[0] = hist[0]
<1> DEFINE i == s_log_idx
           u == Line(Now)
<1>1. ~ HasPath(0, LogPath)
  BY PathTypes DEF KeyPlaceInv, HasPath
<1>2. \/ i \in FileId /\ HasPath(i, LogPath) /\ u \in Seq(Unit) /\ WriteFile(i, u)
      \/ fs' = fs /\ hist' = hist
  BY LoggerWriteEffect
<1> HIDE DEF i, u
<1>3. CASE i \in FileId /\ HasPath(i, LogPath) /\ u \in Seq(Unit) /\ WriteFile(i, u)
  <2>1. i # 0
    BY <1>1, <1>3
  <2>2. \A f \in FileId \ {i} : fs'.entries[f] = fs.entries[f] /\ hist'[f] = hist[f]
    BY <1>3, WriteFileEffect
  <2> QED
    BY <2>1, <2>2, FileIds
<1> QED
  BY <1>2, <1>3

(* The rename gives the open log its closed path.                          *)
LEMMA CloseEffect ==
    ASSUME TypeInv, LogInv, Now = "rename", DoRename
    PROVE  /\ s_open /\ s_open' = FALSE /\ hist' = hist /\ s_log_idx' = s_log_idx
           /\ s_log_idx \in FileId /\ HasPath(s_log_idx, LogPath)
           /\ fs' \in Store(Path, Unit) /\ fs'.valid = fs.valid
           /\ fs'.entries[s_log_idx] =
                 [used |-> TRUE, path |-> ClosedPath(minute), data |-> fs.entries[s_log_idx].data]
           /\ \A f \in FileId \ {s_log_idx} : fs'.entries[f] = fs.entries[f]
<1>1. s_open /\ s_log_idx \in FileId /\ HasPath(s_log_idx, LogPath)
  BY DEF LogInv
<1>2. SjfsOpen(fs, LogPath) = s_log_idx
  <2>1. SjfsOpen(fs, LogPath) \in FileId /\ HasPath(SjfsOpen(fs, LogPath), LogPath)
    BY <1>1, OpenFinds DEF HasPath
  <2> QED
    BY <1>1, <2>1 DEF LogInv
<1>3. /\ fs' = SjfsRename(fs, LogPath, ClosedPath(minute)) /\ s_open' = FALSE
      /\ hist' = hist /\ s_log_idx' = s_log_idx
  BY DEF DoRename
<1>4. ClosedPath(minute) \in Path /\ fs \in Store(Path, Unit)
  BY PathTypes DEF TypeInv
<1>5. /\ SjfsRename(fs, LogPath, ClosedPath(minute)) \in Store(Path, Unit)
      /\ SjfsRename(fs, LogPath, ClosedPath(minute)).valid = fs.valid
      /\ \A f \in FileId : SjfsRename(fs, LogPath, ClosedPath(minute)).entries[f] =
            IF f = SjfsOpen(fs, LogPath)
            THEN [used |-> fs.entries[f].used, path |-> ClosedPath(minute),
                  data |-> fs.entries[f].data]
            ELSE fs.entries[f]
  BY <1>1, <1>2, <1>4, RenameEffect
<1>6. fs.entries[s_log_idx].used = TRUE
  BY <1>1, <1>4 DEF HasPath, Store, Entry
<1> QED
  BY <1>1, <1>2, <1>3, <1>5, <1>6
-----------------------------------------------------------------------------
(* Each conjunct of the invariant over a step.                             *)
LEMMA TypeStep ==
    ASSUME TypeInv, WorkInv, StoreInv, KeyPlaceInv, LogInv, [Next]_vars
    PROVE  TypeInv'
<1> USE BoundTypes
<1>1. CASE StillStep
  BY <1>1 DEF StillStep, TypeInv, keyVars, ramVars, seenVars
<1>2. CASE BeginStep
  BY <1>2 DEF BeginStep, TypeInv, keyVars
<1>3. CASE ResetStep
  <2>1. /\ phase' = "boot" /\ plain' = NoKey /\ key_idx' = NoFile
        /\ s_open' = FALSE /\ g_authenticated' = FALSE /\ safe_mode' = FALSE
        /\ minute' = 0 /\ commands' = 0 /\ boots' = boots + 1 /\ presented' = {}
        /\ UNCHANGED <<fs, s_log_idx, shown, hist>>
    BY <1>3 DEF ResetStep, ResetState, BssCleared
  <2>2. boots' \in 1 .. MaxBoots
    BY <1>3, <2>1 DEF ResetStep, TypeInv
  <2>3. pulled' \in 0 .. MaxPulls /\ cut' \in BOOLEAN
    BY <1>3 DEF ResetStep, TypeInv
  <2>4. /\ minute' \in 0 .. MaxMinute /\ commands' \in 0 .. MaxCommands
        /\ presented' \in SUBSET Keys
    BY <2>1
  <2>5. s_open' \in BOOLEAN /\ g_authenticated' \in BOOLEAN /\ safe_mode' \in BOOLEAN
    BY <2>1
  <2>6. /\ phase' \in {"boot", "run", "halt"} /\ plain' \in Keys \union {NoKey}
        /\ key_idx' \in FileId \union {NoFile}
        /\ UNCHANGED <<fs, s_log_idx, shown, hist>>
    BY <2>1
  <2> QED
    BY <2>2, <2>3, <2>4, <2>5, <2>6 DEF TypeInv
<1>4. CASE DoSjfsInit
  BY <1>4, SjfsInitEffect, SjfsInitMoves
     DEF DoSjfsInit, TypeInv, keyVars, ramVars, seenVars, cntVars
<1>5. CASE DoSatkeyInit
  <2>1. plain' \in Keys \union {NoKey} /\ UNCHANGED <<phase, cntVars>>
    BY <1>5, SatkeyInitMoves DEF TypeInv
  <2>2. UNCHANGED <<fs, key_idx, ramVars, seenVars, hist>>
    BY <1>5 DEF DoSatkeyInit
  <2> QED
    BY <2>1, <2>2 DEF TypeInv, ramVars, seenVars, cntVars
<1>6. CASE DoKeyCreate
  <2>1. Now = "key_create" /\ UNCHANGED <<phase, cntVars>>
    BY <1>6, KeyCreateMoves
  <2>2. key_idx' \in FileId /\ fs' \in Store(Path, Unit)
    BY <1>6, <2>1, KeyCreateEffect, FileIds
  <2>3. UNCHANGED <<plain, ramVars, seenVars, hist>>
    BY <1>6 DEF DoKeyCreate
  <2> QED
    BY <2>1, <2>2, <2>3 DEF TypeInv, ramVars, seenVars, cntVars
<1>7. CASE DoKeyWrite
  <2>1. fs' \in Store(Path, Unit) /\ hist' \in [FileId -> Seq(Unit)]
    BY <1>7, KeyWriteEffect, WriteFileEffect, FileIds
  <2>2. UNCHANGED <<phase, cntVars>>
    BY <1>7, KeyWriteMoves
  <2>3. UNCHANGED <<keyVars, ramVars, seenVars>>
    BY <1>7 DEF DoKeyWrite
  <2> QED
    BY <2>1, <2>2, <2>3 DEF TypeInv, keyVars, ramVars, seenVars, cntVars
<1>8. CASE DoKeyShow
  <2>1. Now = "key_show" /\ UNCHANGED <<phase, cntVars>>
    BY <1>8, KeyShowMoves
  <2>2. shown' \in SUBSET Keys
    BY <1>8, <2>1 DEF DoKeyShow, TypeInv, KeyPlaceInv, KeyWriting
  <2>3. UNCHANGED <<fs, keyVars, ramVars, presented, pulled, cut, hist>>
    BY <1>8 DEF DoKeyShow
  <2> QED
    BY <2>1, <2>2, <2>3 DEF TypeInv, keyVars, ramVars, cntVars
<1>9. CASE DoLoggerInit
  <2>1. /\ s_log_idx' \in FileId \union {NoFile} /\ s_open' \in BOOLEAN
        /\ fs' \in Store(Path, Unit) /\ hist' = hist
    BY <1>9, LoggerInitEffect DEF TypeInv
  <2>2. UNCHANGED <<phase, cntVars>>
    BY <1>9, LoggerInitMoves
  <2>3. UNCHANGED <<keyVars, g_authenticated, safe_mode, seenVars>>
    BY <1>9 DEF DoLoggerInit
  <2> QED
    BY <2>1, <2>2, <2>3 DEF TypeInv, keyVars, seenVars, cntVars
<1>10. CASE DoLoggerWrite
  <2>1. fs' \in Store(Path, Unit) /\ hist' \in [FileId -> Seq(Unit)]
    BY <1>10, LoggerWriteEffect, WriteFileEffect DEF TypeInv
  <2>2. UNCHANGED <<phase, cntVars>>
    BY <1>10, LoggerWriteMoves
  <2>3. UNCHANGED <<keyVars, ramVars, seenVars>>
    BY <1>10 DEF DoLoggerWrite
  <2> QED
    BY <2>1, <2>2, <2>3 DEF TypeInv, keyVars, ramVars, seenVars, cntVars
<1>11. CASE DoLoggerClose
  <2>1. UNCHANGED <<phase, cntVars>> /\ UNCHANGED <<fs, keyVars, ramVars, seenVars, hist>>
    BY <1>11, LoggerCloseMoves DEF DoLoggerClose
  <2> QED
    BY <2>1 DEF TypeInv, keyVars, ramVars, seenVars, cntVars
<1>12. CASE DoRename
  <2>1. Now = "rename" /\ UNCHANGED <<phase, cntVars>>
    BY <1>12, RenameMoves
  <2>2. fs' \in Store(Path, Unit) /\ s_open' = FALSE
    BY <1>12, <2>1, CloseEffect
  <2>3. UNCHANGED <<keyVars, s_log_idx, g_authenticated, safe_mode, seenVars, hist>>
    BY <1>12 DEF DoRename
  <2> QED
    BY <2>1, <2>2, <2>3 DEF TypeInv, keyVars, seenVars, cntVars
<1>13. CASE DoPhase
  <2>1. /\ phase' \in {"run", "halt"}
        /\ UNCHANGED <<fs, keyVars, ramVars, cntVars, seenVars, hist>>
    BY <1>13 DEF DoPhase
  <2> QED
    BY <2>1 DEF TypeInv, keyVars, ramVars, seenVars, cntVars
<1> QED
  BY <1>1, <1>2, <1>3, <1>4, <1>5, <1>6, <1>7, <1>8, <1>9, <1>10, <1>11, <1>12, <1>13, NextKinds

(* Steps that leave the store as it is.                                    *)
StoreKept == fs' = fs /\ hist' = hist

LEMMA KeptSteps ==
    ASSUME StillStep \/ BeginStep \/ ResetStep \/ DoSatkeyInit \/ DoKeyShow \/ DoLoggerClose
              \/ DoPhase
    PROVE  StoreKept
BY DEF StillStep, BeginStep, ResetStep, ResetState, DoSatkeyInit, DoKeyShow, DoLoggerClose,
       DoPhase, StoreKept

(* A file that is written is in use.                                       *)
LEMMA StoreStep ==
    ASSUME TypeInv, WorkInv, StoreInv, KeyPlaceInv, LogInv, [Next]_vars
    PROVE  StoreInv'
<1> USE DEF StoreInv, FileIsPrefixOfHistory
<1>1. CASE StillStep
  BY <1>1, KeptSteps DEF StillStep, StoreKept, Now
<1>2. CASE ResetStep
  <2>1. StoreKept /\ Now' = "sjfs_init"
    BY <1>2, KeptSteps, ResetMoves DEF ResetStep
  <2> QED
    BY <2>1 DEF StoreKept
<1>3. CASE BeginStep \/ DoSatkeyInit \/ DoKeyShow \/ DoLoggerClose \/ DoPhase
  <2>1. StoreKept /\ Now # "sjfs_init"
    BY <1>3, KeptSteps, SatkeyInitMoves, KeyShowMoves, LoggerCloseMoves, PhaseMoves
       DEF BeginStep
  <2> QED
    BY <2>1 DEF StoreKept
<1>4. CASE DoSjfsInit
  <2>1. fs'.valid /\ (\A f \in FileId : fs'.entries[f] = fs.entries[f]) /\ hist' = hist
    BY <1>4, SjfsInitEffect DEF DoSjfsInit
  <2> QED
    BY <2>1
<1>5. CASE DoKeyCreate
  <2>1. /\ Now = "key_create"
        /\ fs'.valid = fs.valid
        /\ fs'.entries[0] = [used |-> TRUE, path |-> KeyPath, data |-> <<>>]
        /\ \A f \in FileId \ {0} : fs'.entries[f] = fs.entries[f]
        /\ hist' = hist
    BY <1>5, KeyCreateMoves, KeyCreateEffect DEF DoKeyCreate
  <2>2. hist[0] = <<>>
    BY <2>1, FileIds DEF KeyPlaceInv
  <2>3. Take(<<>>, SJFS_FILE_UNITS) = <<>>
    BY BoundTypes DEF Take
  <2> QED
    BY <2>1, <2>2, <2>3
<1>6. CASE DoLoggerInit
  <2>1. Now = "logger_init" /\ fs.valid
    BY <1>6, LoggerInitMoves
  <2>2. CASE fs' = fs /\ hist' = hist
    BY <2>1, <2>2
  <2>3. CASE ~ (fs' = fs /\ hist' = hist)
    <3>1. /\ hist' = hist /\ s_log_idx' \in FileId
          /\ ~ fs.entries[s_log_idx'].used
          /\ fs'.valid = fs.valid
          /\ fs'.entries[s_log_idx'] = [used |-> TRUE, path |-> LogPath, data |-> <<>>]
          /\ \A f \in FileId \ {s_log_idx'} : fs'.entries[f] = fs.entries[f]
      BY <1>6, <2>3, LoggerInitEffect
    <3>2. hist[s_log_idx'] = <<>>
      BY <3>1
    <3>3. Take(<<>>, SJFS_FILE_UNITS) = <<>>
      BY BoundTypes DEF Take
    <3> QED
      BY <2>1, <3>1, <3>2, <3>3
  <2> QED
    BY <2>2, <2>3
<1>7. ASSUME NEW i \in FileId, NEW u \in Seq(Unit), WriteFile(i, u), fs.entries[i].used,
             Now # "sjfs_init"
      PROVE  StoreInv'
  <2>1. /\ fs'.valid = fs.valid
        /\ \A f \in FileId : fs'.entries[f].used = fs.entries[f].used
        /\ \A f \in FileId \ {i} : fs'.entries[f] = fs.entries[f] /\ hist'[f] = hist[f]
        /\ fs'.entries[i].data = Take(hist'[i], SJFS_FILE_UNITS)
    BY <1>7, WriteFileEffect
  <2> QED
    BY <1>7, <2>1
<1>8. CASE DoKeyWrite
  <2>1. fs.entries[0].used
    BY <1>8, KeyWriteEffect DEF KeyPlaceInv, BeforeKey
  <2> QED
    BY <1>7, <1>8, <2>1, KeyWriteEffect, FileIds
<1>9. CASE DoLoggerWrite
  <2>1. Now # "sjfs_init"
    BY <1>9, LoggerWriteMoves DEF Tags
  <2>2. CASE fs' = fs /\ hist' = hist
    BY <2>1, <2>2
  <2>3. CASE ~ (fs' = fs /\ hist' = hist)
    BY <1>7, <1>9, <2>1, <2>3, LoggerWriteEffect DEF HasPath
  <2> QED
    BY <2>2, <2>3
<1>10. CASE DoRename
  <2>1. Now = "rename"
    BY <1>10, RenameMoves
  <2>2. /\ hist' = hist /\ s_log_idx \in FileId /\ fs'.valid = fs.valid
        /\ fs'.entries[s_log_idx] =
              [used |-> TRUE, path |-> ClosedPath(minute), data |-> fs.entries[s_log_idx].data]
        /\ \A f \in FileId \ {s_log_idx} : fs'.entries[f] = fs.entries[f]
    BY <1>10, <2>1, CloseEffect
  <2> QED
    BY <2>1, <2>2
<1> QED
  BY <1>1, <1>2, <1>3, <1>4, <1>5, <1>6, <1>8, <1>9, <1>10, NextKinds
(* Which entries are in use, and under which paths, only changes when a    *)
(* file is created or renamed.                                             *)
PathsKept == \A f \in FileId : /\ fs'.entries[f].used = fs.entries[f].used
                               /\ fs'.entries[f].path = fs.entries[f].path

LEMMA PathsKeptSteps ==
    ASSUME TypeInv, WorkInv, StoreInv, KeyPlaceInv, LogInv,
           \/ StillStep \/ BeginStep \/ ResetStep \/ DoSatkeyInit \/ DoKeyShow \/ DoLoggerClose
           \/ DoPhase \/ DoSjfsInit \/ DoKeyWrite \/ DoLoggerWrite
    PROVE  PathsKept
<1>1. CASE \/ StillStep \/ BeginStep \/ ResetStep \/ DoSatkeyInit \/ DoKeyShow \/ DoLoggerClose
           \/ DoPhase
  BY <1>1, KeptSteps DEF StoreKept, PathsKept
<1>2. CASE DoSjfsInit
  BY <1>2, SjfsInitEffect DEF PathsKept
<1>3. CASE DoKeyWrite
  BY <1>3, KeyWriteEffect, WriteFileEffect, FileIds DEF PathsKept
<1>4. CASE DoLoggerWrite
  BY <1>4, LoggerWriteEffect, WriteFileEffect DEF PathsKept
<1> QED
  BY <1>1, <1>2, <1>3, <1>4

(* satkey_init finds a key file exactly when the first entry is in use.    *)
LEMMA KeyExistsAtZero ==
    ASSUME KeyPlaceInv
    PROVE  /\ KeyExists <=> fs.entries[0].used
           /\ fs.entries[0].used => SjfsOpen(fs, KeyPath) = 0
<1>1. CASE ~ KeyExists
  BY <1>1, OpenFinds, FileIds DEF KeyExists, KeyPlaceInv
<1>2. CASE KeyExists
  <2> DEFINE i == SjfsOpen(fs, KeyPath)
  <2>1. i \in FileId /\ fs.entries[i].used /\ fs.entries[i].path = KeyPath
    BY <1>2, OpenFinds DEF KeyExists
  <2>2. i = 0
    BY <2>1, PathTypes DEF KeyPlaceInv
  <2> QED
    BY <1>2, <2>1, <2>2
<1> QED
  BY <1>1, <1>2

LEMMA KeyPlaceStep ==
    ASSUME TypeInv, WorkInv, StoreInv, KeyPlaceInv, LogInv, [Next]_vars
    PROVE  KeyPlaceInv'
<1> USE FileIds DEF KeyPlaceInv, BeforeKey, KeyWriting
<1>1. CASE StillStep
  BY <1>1 DEF StillStep, Now, keyVars
<1>2. CASE BeginStep
  BY <1>2 DEF BeginStep, keyVars
<1>3. CASE ResetStep
  BY <1>3, ResetMoves DEF ResetStep, ResetState
<1>4. CASE DoSjfsInit
  <2>1. PathsKept /\ Now' = "satkey_init"
    BY <1>4, PathsKeptSteps, SjfsInitMoves
  <2> QED
    BY <2>1 DEF PathsKept
<1>5. CASE DoSatkeyInit
  BY <1>5, SatkeyInitMoves, KeyExistsAtZero DEF DoSatkeyInit
<1>6. CASE DoKeyCreate
  <2>1. /\ Now = "key_create" /\ Now' = "key_magic" /\ key_idx' = 0 /\ plain' = plain
        /\ fs'.entries[0] = [used |-> TRUE, path |-> KeyPath, data |-> <<>>]
        /\ \A f \in FileId \ {0} : fs'.entries[f] = fs.entries[f]
    BY <1>6, KeyCreateMoves, KeyCreateEffect DEF DoKeyCreate
  <2> QED
    BY <2>1
<1>7. CASE DoKeyWrite
  <2>1. PathsKept /\ UNCHANGED keyVars /\ Now \in {"key_magic", "key_write"}
        /\ Now' \in {"key_write", "key_show"}
    BY <1>7, PathsKeptSteps, KeyWriteMoves DEF DoKeyWrite
  <2> QED
    BY <2>1 DEF PathsKept, keyVars
<1>8. CASE DoKeyShow
  BY <1>8, KeyShowMoves DEF DoKeyShow
<1>9. CASE DoLoggerInit
  <2>1. Now = "logger_init" /\ Now' = "boot" /\ fs.entries[0].used
    BY <1>9, LoggerInitMoves
  <2>2. CASE fs' = fs
    BY <2>1, <2>2
  <2>3. CASE fs' # fs
    <3>1. /\ s_log_idx' \in FileId /\ ~ fs.entries[s_log_idx'].used
          /\ fs'.entries[s_log_idx'] = [used |-> TRUE, path |-> LogPath, data |-> <<>>]
          /\ \A f \in FileId \ {s_log_idx'} : fs'.entries[f] = fs.entries[f]
      BY <1>9, <2>3, LoggerInitEffect
    <3>2. s_log_idx' # 0 /\ fs'.entries[0] = fs.entries[0]
      BY <2>1, <3>1
    <3> QED
      BY <2>1, <3>1, <3>2
  <2> QED
    BY <2>2, <2>3
<1>10. CASE DoLoggerWrite
  <2>1. PathsKept /\ Now \in Tags /\ MayFollow(Now, Now')
    BY <1>10, PathsKeptSteps, LoggerWriteMoves
  <2>2. Now' \notin BeforeKey \union KeyWriting /\ Now \notin BeforeKey
    BY <2>1 DEF Tags, MayFollow
  <2> QED
    BY <2>1, <2>2 DEF PathsKept
<1>11. CASE DoLoggerClose \/ DoPhase
  <2>1. PathsKept /\ Now' \in {"closing", "halt", "reset", "none"} /\ Now \notin BeforeKey
    BY <1>11, PathsKeptSteps, LoggerCloseMoves, PhaseMoves
  <2> QED
    BY <2>1 DEF PathsKept
<1>12. CASE DoRename
  <2>1. Now = "rename" /\ Now' \in {"halt", "reset"} /\ fs.entries[0].used
    BY <1>12, RenameMoves
  <2>2. /\ s_log_idx \in FileId /\ HasPath(s_log_idx, LogPath)
        /\ fs'.entries[s_log_idx] =
              [used |-> TRUE, path |-> ClosedPath(minute), data |-> fs.entries[s_log_idx].data]
        /\ \A f \in FileId \ {s_log_idx} : fs'.entries[f] = fs.entries[f]
    BY <1>12, <2>1, CloseEffect
  <2>3. s_log_idx # 0 /\ fs'.entries[0] = fs.entries[0] /\ ClosedPath(minute)[1] = "closed"
    BY <2>1, <2>2, PathTypes DEF HasPath, TypeInv
  <2> QED
    BY <2>1, <2>2, <2>3
<1> QED
  BY <1>1, <1>2, <1>3, <1>4, <1>5, <1>6, <1>7, <1>8, <1>9, <1>10, <1>11, <1>12, NextKinds

(* One more unit in the key file.                                          *)
LEMMA KeyTextStep ==
    ASSUME TypeInv, WorkInv, StoreInv, KeyPlaceInv, KeyTextInv, LogInv, [Next]_vars
    PROVE  KeyTextInv'
<1> USE DEF KeyTextInv, KeyWriting
<1> DEFINE Shown == \E k \in shown : hist[0] = <<Magic, KeyUnit(k)>>
<1>1. CASE StillStep
  BY <1>1 DEF StillStep, Now, keyVars, seenVars
<1>2. CASE BeginStep
  BY <1>2 DEF BeginStep, keyVars
<1>3. CASE ResetStep
  <2>1. fs' = fs /\ hist' = hist /\ shown' = shown /\ Now' = "sjfs_init"
    BY <1>3, ResetMoves DEF ResetStep, ResetState
  <2>2. ~ cut' => ~ cut /\ Now \notin KeyWriting
    BY <1>3 DEF ResetStep
  <2> QED
    BY <2>1, <2>2
<1>4. CASE DoSjfsInit
  <2>1. /\ PathsKept /\ Now = "sjfs_init" /\ Now' = "satkey_init"
        /\ UNCHANGED <<keyVars, seenVars, hist>>
    BY <1>4, PathsKeptSteps, SjfsInitMoves DEF DoSjfsInit
  <2> QED
    BY <2>1, FileIds DEF PathsKept, seenVars
<1>5. CASE DoSatkeyInit
  <2>1. UNCHANGED <<fs, seenVars, hist>> /\ Now = "satkey_init"
        /\ Now' \in {"logger_init", "key_create"}
    BY <1>5, SatkeyInitMoves DEF DoSatkeyInit
  <2> QED
    BY <2>1 DEF seenVars
<1>6. CASE DoKeyCreate
  <2>1. /\ Now = "key_create" /\ Now' = "key_magic"
        /\ UNCHANGED <<plain, seenVars, hist>>
    BY <1>6, KeyCreateMoves DEF DoKeyCreate
  <2>2. hist[0] = <<>>
    BY <2>1, FileIds DEF KeyPlaceInv, StoreInv
  <2> QED
    BY <2>1, <2>2
<1>7. CASE DoKeyWrite
  <2>1. \/ /\ Now = "key_magic" /\ Now' = "key_write"
           /\ <<Magic>> \in Seq(Unit) /\ WriteFile(0, <<Magic>>)
        \/ /\ Now = "key_write" /\ Now' = "key_show"
           /\ <<KeyUnit(plain)>> \in Seq(Unit) /\ WriteFile(0, <<KeyUnit(plain)>>)
    BY <1>7, KeyWriteEffect
  <2>2. CASE Now = "key_magic"
    <3>1. hist[0] = <<>> /\ Now' = "key_write" /\ hist'[0] = hist[0] \o <<Magic>>
      BY <2>1, <2>2, WriteFileEffect, FileIds
    <3>2. <<>> \o <<Magic>> = <<Magic>>
      OBVIOUS
    <3> QED
      BY <3>1, <3>2
  <2>3. CASE Now = "key_write"
    <3>1. Now' = "key_show" /\ hist'[0] = hist[0] \o <<KeyUnit(plain)>>
      BY <2>1, <2>3, WriteFileEffect, FileIds
    <3>2. hist[0] = <<Magic>> /\ plain' = plain /\ plain \in Keys
      BY <1>7, <2>3 DEF DoKeyWrite, keyVars, KeyPlaceInv
    <3>3. <<Magic>> \o <<KeyUnit(plain)>> = <<Magic, KeyUnit(plain)>>
      BY TwoUnits
    <3> QED
      BY <3>1, <3>2, <3>3
  <2> QED
    BY <2>1, <2>2, <2>3
<1>8. CASE DoKeyShow
  BY <1>8, KeyShowMoves DEF DoKeyShow
<1>9. ASSUME UNCHANGED <<shown, cut>>, hist'[0] = hist[0],
             Now \notin KeyWriting \union BeforeKey, Now' \notin KeyWriting
      PROVE  KeyTextInv'
  <2>1. fs.entries[0].used
    BY <1>9 DEF KeyPlaceInv
  <2> QED
    BY <1>9, <2>1
<1>10. CASE DoLoggerInit
  BY <1>9, <1>10, LoggerInitMoves, LoggerInitEffect DEF DoLoggerInit, BeforeKey, seenVars
<1>11. CASE DoLoggerWrite
  <2>1. UNCHANGED <<shown, cut>>
    BY <1>11 DEF DoLoggerWrite, seenVars
  <2>2. Now \notin KeyWriting \union BeforeKey /\ Now' \notin KeyWriting
    BY <1>11, LoggerWriteMoves DEF Tags, MayFollow, BeforeKey
  <2>4. hist'[0] = hist[0]
    BY <1>11, LoggerWriteSparesKey
  <2> QED
    BY <1>9, <2>1, <2>2, <2>4
<1>12. CASE DoLoggerClose \/ DoPhase
  <2>1. UNCHANGED <<shown, cut, hist>>
    BY <1>12 DEF DoLoggerClose, DoPhase, seenVars
  <2>2. Now \notin KeyWriting \union BeforeKey /\ Now' \notin KeyWriting
    BY <1>12, LoggerCloseMoves, PhaseMoves DEF BeforeKey
  <2> QED
    BY <1>9, <2>1, <2>2
<1>13. CASE DoRename
  <2>1. UNCHANGED <<shown, cut, hist>>
    BY <1>13 DEF DoRename, seenVars
  <2>2. Now \notin KeyWriting \union BeforeKey /\ Now' \notin KeyWriting
    BY <1>13, RenameMoves DEF BeforeKey
  <2> QED
    BY <1>9, <2>1, <2>2
<1> QED
  BY <1>1, <1>2, <1>3, <1>4, <1>5, <1>6, <1>7, <1>8, <1>10, <1>11, <1>12, <1>13, NextKinds
LEMMA PathsKeptFacts ==
    ASSUME PathsKept
    PROVE  /\ \A f \in FileId, p \in Path : HasPath(f, p)' <=> HasPath(f, p)
           /\ \A f \in FileId : IsClosed(f)' <=> IsClosed(f)
           /\ NoLog' <=> NoLog
           /\ AllInUse' <=> AllInUse
BY PathTypes DEF PathsKept, HasPath, IsClosed, NoLog, AllInUse

LEMMA LogStep ==
    ASSUME TypeInv, WorkInv, StoreInv, KeyPlaceInv, LogInv, [Next]_vars
    PROVE  LogInv'
<1> USE DEF LogInv, BeforeLog, BeforeKey, KeyWriting
<1>1. ASSUME PathsKept, UNCHANGED <<s_open, s_log_idx>>,
             Now \in BeforeLog <=> Now' \in BeforeLog,
             Now' \in {"halt", "reset"} => Now \in {"halt", "reset"} \/ ~ s_open,
             Now' \in {"closing", "rename"} => s_open,
             Now' \notin {"halt", "reset"} /\ phase' # "halt" =>
                Now \notin {"halt", "reset"} /\ phase # "halt"
      PROVE  LogInv'
  <2>1. /\ \A f \in FileId : HasPath(f, LogPath)' <=> HasPath(f, LogPath)
        /\ NoLog' <=> NoLog
        /\ AllInUse' <=> AllInUse
    BY <1>1, PathsKeptFacts, PathTypes
  <2>2. \A f, g \in FileId : HasPath(f, LogPath)' /\ HasPath(g, LogPath)' => f = g
    BY <2>1
  <2>3. s_open' => s_log_idx' \in FileId /\ HasPath(s_log_idx, LogPath)'
    BY <1>1, <2>1
  <2>4. /\ Now' \in BeforeLog \union {"halt", "reset"} => ~ s_open'
        /\ Now' \in {"closing", "rename"} => s_open'
        /\ ~ s_open' /\ Now' \notin BeforeLog => NoLog'
        /\ ~ s_open' /\ Now' \notin BeforeLog \union {"halt", "reset"} /\ phase' # "halt" =>
              AllInUse'
    <3> HIDE DEF BeforeLog
    <3> QED
      BY <1>1, <2>1
  <2> QED
    BY <2>2, <2>3, <2>4
<1>2. CASE StillStep
  <2>1. PathsKept /\ UNCHANGED <<s_open, s_log_idx, phase>> /\ Now' = Now
    BY <1>2, PathsKeptSteps DEF StillStep, ramVars, Now
  <2> HIDE DEF BeforeLog
  <2> QED
    BY <1>1, <2>1
<1>3. CASE BeginStep
  <2>1. /\ PathsKept /\ UNCHANGED <<s_open, s_log_idx>> /\ Now = "none" /\ phase # "halt"
        /\ Now' \in {"event", "cmd", "timeout"}
    BY <1>3, PathsKeptSteps DEF BeginStep
  <2> QED
    BY <1>1, <2>1
<1>4. CASE ResetStep
  <2>1. /\ PathsKept /\ s_open' = FALSE /\ Now' = "sjfs_init"
    BY <1>4, PathsKeptSteps, ResetMoves DEF ResetStep, ResetState, BssCleared
  <2> QED
    BY <2>1, PathsKeptFacts, PathTypes
<1>5. CASE DoSjfsInit \/ DoSatkeyInit \/ DoKeyCreate \/ DoKeyWrite \/ DoKeyShow
  <2>1. UNCHANGED <<s_open, s_log_idx>>
    BY <1>5 DEF DoSjfsInit, DoSatkeyInit, DoKeyCreate, DoKeyWrite, DoKeyShow, ramVars
  <2>2. Now \in BeforeLog /\ Now' \in BeforeLog
    BY <1>5, SjfsInitMoves, SatkeyInitMoves, KeyCreateMoves, KeyWriteMoves, KeyShowMoves
  <2>3. \A f \in FileId : HasPath(f, LogPath)' => HasPath(f, LogPath)
    <3>1. CASE DoKeyCreate
      <4>1. /\ fs'.entries[0] = [used |-> TRUE, path |-> KeyPath, data |-> <<>>]
            /\ \A f \in FileId \ {0} : fs'.entries[f] = fs.entries[f]
        BY <3>1, KeyCreateMoves, KeyCreateEffect
      <4>2. KeyPath # LogPath
        BY PathTypes
      <4> QED
        BY <4>1, <4>2 DEF HasPath
    <3>2. CASE DoSjfsInit \/ DoSatkeyInit \/ DoKeyWrite \/ DoKeyShow
      BY <3>2, PathsKeptSteps, PathsKeptFacts, PathTypes
    <3> QED
      BY <1>5, <3>1, <3>2
  <2> QED
    BY <2>1, <2>2, <2>3
<1>6. CASE DoLoggerInit
  <2>1. Now' = "boot"
    BY <1>6, LoggerInitMoves
  <2>2. CASE /\ fs' = fs /\ s_open' = TRUE
             /\ s_log_idx' \in FileId /\ HasPath(s_log_idx', LogPath)
    BY <2>1, <2>2 DEF HasPath
  <2>3. CASE /\ NoLog /\ s_open' = TRUE /\ s_log_idx' \in FileId
             /\ fs'.entries[s_log_idx'] = [used |-> TRUE, path |-> LogPath, data |-> <<>>]
             /\ \A f \in FileId \ {s_log_idx'} : fs'.entries[f] = fs.entries[f]
    <3>1. \A f \in FileId : HasPath(f, LogPath)' <=> f = s_log_idx'
      BY <2>3 DEF HasPath, NoLog
    <3>2. \A f, g \in FileId : HasPath(f, LogPath)' /\ HasPath(g, LogPath)' => f = g
      BY <3>1
    <3>3. HasPath(s_log_idx, LogPath)'
      BY <2>3 DEF HasPath
    <3> QED
      BY <2>1, <2>3, <3>2, <3>3
  <2>4. CASE fs' = fs /\ s_open' = FALSE /\ s_log_idx' = NoFile /\ NoLog /\ AllInUse
    BY <2>1, <2>4 DEF HasPath, NoLog, AllInUse
  <2> QED
    BY <1>6, <2>2, <2>3, <2>4, LoggerInitEffect
<1>7. CASE DoLoggerWrite
  <2>1. /\ PathsKept /\ UNCHANGED <<s_open, s_log_idx>>
        /\ Now \in Tags /\ MayFollow(Now, Now') /\ phase' = phase
    BY <1>7, PathsKeptSteps, LoggerWriteMoves DEF DoLoggerWrite, ramVars
  <2>2. Now \notin BeforeLog \union {"halt", "reset"} /\ Now' \notin BeforeLog \union {"halt", "reset"}
    BY <2>1 DEF Tags, MayFollow
  <2>3. Now' \in {"closing", "rename"} => s_open
    BY <2>1 DEF Tags, MayFollow
  <2>4. phase # "halt"
    BY <2>1 DEF WorkInv, Tags
  <2> QED
    BY <1>1, <2>1, <2>2, <2>3, <2>4
<1>8. CASE DoLoggerClose
  <2>1. /\ PathsKept /\ UNCHANGED <<s_open, s_log_idx, phase>>
        /\ Now = "logger_close" /\ (s_open => Now' = "closing")
        /\ (~ s_open => Now' \in {"halt", "reset"})
    BY <1>8, PathsKeptSteps, LoggerCloseMoves DEF DoLoggerClose, ramVars
  <2>2. phase # "halt"
    BY <2>1 DEF WorkInv
  <2> QED
    BY <1>1, <2>1, <2>2
<1>9. CASE DoRename
  <2>1. Now = "rename" /\ Now' \in {"halt", "reset"}
    BY <1>9, RenameMoves
  <2>2. /\ s_open' = FALSE /\ s_log_idx \in FileId /\ HasPath(s_log_idx, LogPath)
        /\ fs'.entries[s_log_idx] =
              [used |-> TRUE, path |-> ClosedPath(minute), data |-> fs.entries[s_log_idx].data]
        /\ \A f \in FileId \ {s_log_idx} : fs'.entries[f] = fs.entries[f]
    BY <1>9, <2>1, CloseEffect
  <2>3. ClosedPath(minute) # LogPath
    BY PathTypes DEF TypeInv
  <2>4. \A f \in FileId : ~ HasPath(f, LogPath)'
    BY <2>2, <2>3 DEF HasPath
  <2> QED
    BY <2>1, <2>2, <2>4 DEF NoLog
<1>10. CASE DoPhase
  <2>1. /\ PathsKept /\ UNCHANGED <<s_open, s_log_idx>> /\ Now' = "none"
        /\ (Now = "start" /\ phase' = "run") \/ (Now = "halt" /\ phase' = "halt")
    BY <1>10, PathsKeptSteps, PhaseMoves DEF DoPhase, ramVars
  <2>2. Now = "start" => phase # "halt"
    BY DEF WorkInv
  <2> QED
    BY <1>1, <2>1, <2>2
<1> QED
  BY <1>2, <1>3, <1>4, <1>5, <1>6, <1>7, <1>8, <1>9, <1>10, NextKinds

-----------------------------------------------------------------------------
(* The end of a file, and what is appended to it.                          *)
LEMMA EndsWithElements ==
    ASSUME NEW h \in Seq(Unit), NEW u \in Seq(Unit)
    PROVE  EndsWith(h, u) <=> /\ Len(h) >= Len(u)
                              /\ \A k \in 1 .. Len(u) : h[Len(h) - Len(u) + k] = u[k]
<1> DEFINE n == Len(h)
           l == Len(u)
           s == SubSeq(h, n - l + 1, n)
<1>1. n \in Nat /\ l \in Nat
  OBVIOUS
<1> SUFFICES ASSUME n >= l
             PROVE  s = u <=> \A k \in 1 .. l : h[n - l + k] = u[k]
  BY DEF EndsWith
<1>2. \A k \in (n - l + 1) .. n : h[k] \in Unit
  <2> \A k \in (n - l + 1) .. n : k \in 1 .. Len(h)
    BY <1>1
  <2> QED
    BY ElementOfSeq
<1>3. /\ s \in Seq(Unit)
      /\ Len(s) = (IF n - l + 1 <= n THEN n - (n - l + 1) + 1 ELSE 0)
      /\ \A k \in 1 .. n - (n - l + 1) + 1 : s[k] = h[(n - l + 1) + k - 1]
  <2> n - l + 1 \in Int /\ n \in Int
    BY <1>1
  <2> HIDE DEF n, l
  <2> QED
    BY <1>2, SubSeqProperties
<1> HIDE DEF n, l, s
<1>4. Len(s) = l
  BY <1>1, <1>3
<1>5. \A k \in 1 .. l : s[k] = h[n - l + k]
  <2> SUFFICES ASSUME NEW k \in 1 .. l PROVE s[k] = h[n - l + k]
    OBVIOUS
  <2> k \in 1 .. n - (n - l + 1) + 1 /\ (n - l + 1) + k - 1 = n - l + k
    BY <1>1
  <2> QED
    BY <1>3
<1>6. ASSUME \A k \in 1 .. l : h[n - l + k] = u[k] PROVE s = u
  <2> l = Len(u)
    BY DEF l
  <2> QED
    BY <1>3, <1>4, <1>5, <1>6, SeqEqual
<1>7. ASSUME s = u PROVE \A k \in 1 .. l : h[n - l + k] = u[k]
  BY <1>5, <1>7
<1> QED
  BY <1>6, <1>7

LEMMA AppendEnds ==
    ASSUME NEW h \in Seq(Unit), NEW v \in Seq(Unit), NEW u \in Seq(Unit), EndsWith(h, v)
    PROVE  EndsWith(h \o u, v \o u)
<1> DEFINE n == Len(h)
           l == Len(u)
           m == Len(v)
<1>1. /\ n \in Nat /\ l \in Nat /\ m \in Nat /\ n >= m
      /\ \A k \in 1 .. m : h[n - m + k] = v[k]
  BY EndsWithElements
<1>2. /\ h \o u \in Seq(Unit) /\ Len(h \o u) = n + l
      /\ \A k \in 1 .. n + l : (h \o u)[k] = IF k <= n THEN h[k] ELSE u[k - n]
  BY ConcatProperties
<1>3. /\ v \o u \in Seq(Unit) /\ Len(v \o u) = m + l
      /\ \A k \in 1 .. m + l : (v \o u)[k] = IF k <= m THEN v[k] ELSE u[k - m]
  BY ConcatProperties
<1> HIDE DEF n, l, m
<1>4. ASSUME NEW k \in 1 .. m + l PROVE (h \o u)[(n + l) - (m + l) + k] = (v \o u)[k]
  <2> DEFINE j == n - m + k
  <2>1. (n + l) - (m + l) + k = j /\ j \in 1 .. n + l
    BY <1>1
  <2>2. CASE k <= m
    <3>1. j <= n /\ k \in 1 .. m
      BY <1>1, <2>2
    <3>2. h[j] = v[k]
      BY <1>1, <3>1
    <3> HIDE DEF j
    <3> QED
      BY <1>2, <1>3, <2>1, <2>2, <3>1, <3>2
  <2>3. CASE ~ (k <= m)
    <3>1. ~ (j <= n) /\ j - n = k - m
      BY <1>1, <2>3
    <3> HIDE DEF j
    <3> QED
      BY <1>2, <1>3, <2>1, <2>3, <3>1
  <2> QED
    BY <2>2, <2>3
<1>5. n + l >= m + l
  BY <1>1
<1> QED
  BY <1>2, <1>3, <1>4, <1>5, EndsWithElements

LEMMA EmptyEnds ==
    ASSUME NEW h \in Seq(Unit), NEW u \in Seq(Unit)
    PROVE  EndsWith(h \o u, u)
<1> DEFINE e == <<>>
<1>1. e \in Seq(Unit) /\ Len(e) = 0 /\ Len(h) \in Nat /\ e \o u = u
  BY ConcatEmptySeq
<1> HIDE DEF e
<1>2. EndsWith(h, e)
  <2>1. EndsWith(h, e) <=> /\ Len(h) >= Len(e)
                           /\ \A k \in 1 .. Len(e) : h[Len(h) - Len(e) + k] = e[k]
    BY <1>1, EndsWithElements
  <2>2. Len(h) >= Len(e) /\ \A k \in 1 .. Len(e) : FALSE
    BY <1>1
  <2> QED
    BY <2>1, <2>2
<1>3. EndsWith(h \o u, e \o u)
  BY <1>1, <1>2, AppendEnds
<1> QED
  BY <1>1, <1>3
(* What the logger writes last before the rename is at the end of the file *)
(* and stays there.                                                        *)
LEMMA ReasonLines ==
    /\ \A why \in Reasons : Line(why) \in Seq(Unit) /\ Len(Line(why)) = 2
    /\ Line("closing") \in Seq(Unit) /\ Len(Line("closing")) = 2
    /\ \A why \in Reasons : /\ Line(why) \o Line("closing") \in Seq(Unit)
                            /\ Len(Line(why) \o Line("closing")) = 4
<1>1. /\ \A why \in Reasons : Line(why) \in Seq(Unit) /\ Len(Line(why)) = 2
      /\ Line("closing") \in Seq(Unit) /\ Len(Line("closing")) = 2
  <2>1. \A why \in Reasons : why \in Tags /\ why \notin {"boot", "cmd"}
    BY DEF Reasons, Tags
  <2>2. \A tag \in Tags : tag \notin {"boot", "cmd"} => Len(Line(tag)) = 2
    BY DEF Line
  <2> QED
    BY <2>1, <2>2, UnitTypes DEF Tags
<1>2. ASSUME NEW why \in Reasons
      PROVE  /\ Line(why) \o Line("closing") \in Seq(Unit)
             /\ Len(Line(why) \o Line("closing")) = 4
  <2> DEFINE a == Line(why)
             b == Line("closing")
  <2>1. a \in Seq(Unit) /\ b \in Seq(Unit) /\ Len(a) = 2 /\ Len(b) = 2
    BY <1>1
  <2> HIDE DEF a, b
  <2>2. a \o b \in Seq(Unit) /\ Len(a \o b) = Len(a) + Len(b)
    BY <2>1, ConcatProperties
  <2>3. Len(a \o b) = 4
    BY <2>1, <2>2
  <2> QED
    BY <2>2, <2>3 DEF a, b
<1> QED
  BY <1>1, <1>2

LEMMA ClosedKept ==
    ASSUME ClosedMeansFinished,
           \A f \in FileId : IsClosed(f)' => IsClosed(f) /\ hist'[f] = hist[f]
    PROVE  ClosedMeansFinished'
BY DEF ClosedMeansFinished

LEMMA EndStep ==
    ASSUME TypeInv, WorkInv, StoreInv, KeyPlaceInv, LogInv, EndInv, [Next]_vars
    PROVE  EndInv'
<1> USE DEF EndInv
<1> DEFINE Ends   == \E why \in Reasons : EndsWith(hist[s_log_idx], Line(why))
           Closes == \E why \in Reasons : EndsWith(hist[s_log_idx], Line(why) \o Line("closing"))
<1>1. ASSUME ClosedMeansFinished', ~ s_open' \/ Now' \notin {"logger_close", "closing", "rename"}
      PROVE  EndInv'
  BY <1>1
<1>2. ASSUME PathsKept, hist' = hist PROVE ClosedMeansFinished'
  BY <1>2, PathsKeptFacts, ClosedKept
<1>3. CASE StillStep
  <2>1. PathsKept /\ hist' = hist /\ UNCHANGED <<s_open, s_log_idx>> /\ Now' = Now
    BY <1>3, PathsKeptSteps DEF StillStep, ramVars, Now
  <2> QED
    BY <1>2, <2>1
<1>4. CASE BeginStep \/ ResetStep \/ DoSjfsInit \/ DoSatkeyInit \/ DoKeyShow \/ DoPhase
  <2>1. PathsKept /\ hist' = hist
    BY <1>4, PathsKeptSteps, KeptSteps DEF StoreKept, DoSjfsInit
  <2>2. Now' \notin {"logger_close", "closing", "rename"}
    BY <1>4, ResetMoves, SjfsInitMoves, SatkeyInitMoves, KeyShowMoves, PhaseMoves
       DEF BeginStep, ResetStep
  <2> QED
    BY <1>1, <1>2, <2>1, <2>2
<1>5. CASE DoKeyCreate
  <2>1. /\ Now' = "key_magic" /\ hist' = hist
        /\ fs'.entries[0] = [used |-> TRUE, path |-> KeyPath, data |-> <<>>]
        /\ \A f \in FileId \ {0} : fs'.entries[f] = fs.entries[f]
    BY <1>5, KeyCreateMoves, KeyCreateEffect DEF DoKeyCreate
  <2>2. \A f \in FileId : IsClosed(f)' => IsClosed(f)
    BY <2>1, PathTypes DEF IsClosed
  <2> QED
    BY <1>1, <2>1, <2>2, ClosedKept
<1>6. CASE DoKeyWrite
  <2>1. PathsKept /\ Now' \in {"key_write", "key_show"}
    BY <1>6, PathsKeptSteps, KeyWriteMoves
  <2>2. \A f \in FileId \ {0} : hist'[f] = hist[f]
    BY <1>6, KeyWriteEffect, WriteFileEffect, FileIds
  <2>3. ~ IsClosed(0)
    BY PathTypes DEF IsClosed, KeyPlaceInv
  <2>4. ClosedMeansFinished'
    BY <2>1, <2>2, <2>3, PathsKeptFacts, ClosedKept
  <2> QED
    BY <1>1, <2>1, <2>4
<1>7. CASE DoLoggerInit
  <2>1. Now' = "boot" /\ hist' = hist
    BY <1>7, LoggerInitMoves, LoggerInitEffect
  <2>2. \A f \in FileId : IsClosed(f)' => IsClosed(f)
    <3>1. CASE fs' = fs
      BY <3>1 DEF IsClosed
    <3>2. CASE fs' # fs
      <4>1. /\ s_log_idx' \in FileId
            /\ fs'.entries[s_log_idx'] = [used |-> TRUE, path |-> LogPath, data |-> <<>>]
            /\ \A f \in FileId \ {s_log_idx'} : fs'.entries[f] = fs.entries[f]
        BY <1>7, <3>2, LoggerInitEffect
      <4> QED
        BY <4>1, PathTypes DEF IsClosed
    <3> QED
      BY <3>1, <3>2
  <2> QED
    BY <1>1, <2>1, <2>2, ClosedKept
<1>8. CASE DoLoggerWrite
  <2>1. /\ PathsKept /\ UNCHANGED <<s_open, s_log_idx>>
        /\ Now \in Tags /\ MayFollow(Now, Now')
    BY <1>8, PathsKeptSteps, LoggerWriteMoves DEF DoLoggerWrite, ramVars
  <2>2. CASE ~ s_open /\ fs' = fs /\ hist' = hist
    BY <1>1, <1>2, <2>1, <2>2
  <2>3. CASE /\ s_open /\ s_log_idx \in FileId /\ HasPath(s_log_idx, LogPath)
             /\ Line(Now) \in Seq(Unit) /\ WriteFile(s_log_idx, Line(Now))
    <3>1. /\ hist'[s_log_idx] = hist[s_log_idx] \o Line(Now)
          /\ \A f \in FileId \ {s_log_idx} : hist'[f] = hist[f]
          /\ hist[s_log_idx] \in Seq(Unit)
      BY <2>3, WriteFileEffect DEF TypeInv
    <3>2. ~ IsClosed(s_log_idx)
      BY <2>3, PathTypes DEF IsClosed, HasPath
    <3>3. ClosedMeansFinished'
      BY <2>1, <3>1, <3>2, PathsKeptFacts, ClosedKept
    <3>4. Now' \in {"logger_close", "closing"} => Ends'
      <4>1. Now' \in {"logger_close", "closing"} => Now \in Reasons
        BY <2>1 DEF Tags, MayFollow, Reasons
      <4>2. EndsWith(hist[s_log_idx] \o Line(Now), Line(Now))
        BY <2>3, <3>1, EmptyEnds
      <4> QED
        BY <2>1, <3>1, <4>1, <4>2
    <3>5. Now' = "rename" => Closes'
      <4>1. Now' = "rename" => Now = "closing"
        BY <2>1 DEF Tags, MayFollow
      <4> SUFFICES ASSUME Now = "closing" PROVE Closes'
        BY <4>1
      <4>2. PICK why \in Reasons : EndsWith(hist[s_log_idx], Line(why))
        BY <2>3
      <4>3. EndsWith(hist[s_log_idx] \o Line("closing"), Line(why) \o Line("closing"))
        BY <3>1, <4>2, ReasonLines, AppendEnds
      <4> QED
        BY <2>1, <3>1, <4>3
    <3> QED
      BY <3>3, <3>4, <3>5
  <2> QED
    BY <1>8, <2>2, <2>3, LoggerWriteEffect
<1>9. CASE DoLoggerClose
  <2>1. /\ PathsKept /\ hist' = hist /\ UNCHANGED <<s_open, s_log_idx>>
        /\ Now = "logger_close" /\ Now' \in {"closing", "halt", "reset"}
    BY <1>9, PathsKeptSteps, LoggerCloseMoves DEF DoLoggerClose, ramVars
  <2> QED
    BY <1>2, <2>1
<1>10. CASE DoRename
  <2>1. Now = "rename" /\ Now' \in {"halt", "reset"}
    BY <1>10, RenameMoves
  <2>2. /\ s_open /\ s_open' = FALSE /\ hist' = hist
        /\ s_log_idx \in FileId /\ HasPath(s_log_idx, LogPath)
        /\ \A f \in FileId \ {s_log_idx} : fs'.entries[f] = fs.entries[f]
    BY <1>10, <2>1, CloseEffect
  <2>3. PICK why \in Reasons : EndsWith(hist[s_log_idx], Line(why) \o Line("closing"))
    BY <2>1, <2>2
  <2>4. /\ Len(hist[s_log_idx]) >= 4
        /\ SubSeq(hist[s_log_idx], Len(hist[s_log_idx]) - 3, Len(hist[s_log_idx]))
              = Line(why) \o Line("closing")
    <3> DEFINE h == hist[s_log_idx]
               u == Line(why) \o Line("closing")
    <3>1. Len(h) \in Nat /\ Len(u) = 4 /\ EndsWith(h, u)
      BY <2>2, <2>3, ReasonLines DEF TypeInv
    <3> HIDE DEF h, u
    <3>2. Len(h) - Len(u) + 1 = Len(h) - 3
      BY <3>1
    <3>3. Len(h) >= 4 /\ SubSeq(h, Len(h) - 3, Len(h)) = u
      BY <3>1, <3>2 DEF EndsWith
    <3> QED
      BY <3>3 DEF h, u
  <2>5. ASSUME NEW f \in FileId, IsClosed(f)'
        PROVE  /\ Len(hist'[f]) >= 4
               /\ SubSeq(hist'[f], Len(hist'[f]) - 3, Len(hist'[f]))
                     \in {Line(w) \o Line("closing") : w \in {"event", "timeout"}}
    <3>1. CASE f = s_log_idx
      BY <2>2, <2>4, <3>1 DEF Reasons
    <3>2. CASE f # s_log_idx
      <4>1. IsClosed(f)
        BY <2>2, <2>5, <3>2 DEF IsClosed
      <4> QED
        BY <2>2, <4>1 DEF ClosedMeansFinished
    <3> QED
      BY <3>1, <3>2
  <2>6. ClosedMeansFinished'
    BY <2>5 DEF ClosedMeansFinished
  <2> QED
    BY <1>1, <2>1, <2>6
<1> QED
  BY <1>3, <1>4, <1>5, <1>6, <1>7, <1>8, <1>9, <1>10, NextKinds
-----------------------------------------------------------------------------
(* How many sessions began in a file.                                      *)
LEMMA CountNat ==
    ASSUME NEW h \in Seq(Unit)
    PROVE  Count(h) \in Nat /\ IsFiniteSet({k \in DOMAIN h : h[k] = BootUnit})
<1> DEFINE P == {k \in DOMAIN h : h[k] = BootUnit}
<1>1. P \subseteq 1 .. Len(h) /\ Len(h) \in Nat
  OBVIOUS
<1>2. IsFiniteSet(1 .. Len(h))
  BY <1>1, FS_Interval
<1>3. IsFiniteSet(P)
  BY <1>1, <1>2, FS_Subset
<1> QED
  BY <1>3, FS_CardinalityType DEF Count

LEMMA CountAppend ==
    ASSUME NEW h \in Seq(Unit), NEW u \in Seq(Unit),
           \A k \in 1 .. Len(u) : u[k] # BootUnit
    PROVE  Count(h \o u) = Count(h)
<1>1. /\ h \o u \in Seq(Unit) /\ Len(h \o u) = Len(h) + Len(u)
      /\ \A k \in 1 .. Len(h) + Len(u) :
            (h \o u)[k] = IF k <= Len(h) THEN h[k] ELSE u[k - Len(h)]
  BY ConcatProperties
<1>2. DOMAIN h = 1 .. Len(h) /\ DOMAIN (h \o u) = 1 .. Len(h) + Len(u)
      /\ Len(h) \in Nat /\ Len(u) \in Nat
  BY <1>1, LenProperties
<1>3. ASSUME NEW k \in 1 .. Len(h) + Len(u)
      PROVE  (h \o u)[k] = BootUnit <=> k \in 1 .. Len(h) /\ h[k] = BootUnit
  <2>1. CASE k <= Len(h)
    BY <1>1, <1>2, <2>1
  <2>2. CASE ~ (k <= Len(h))
    <3> k - Len(h) \in 1 .. Len(u)
      BY <1>2, <2>2
    <3> QED
      BY <1>1, <1>2, <2>2
  <2> QED
    BY <2>1, <2>2
<1>4. \A k \in 1 .. Len(h) : k \in 1 .. Len(h) + Len(u)
  BY <1>2
<1>5. {k \in DOMAIN (h \o u) : (h \o u)[k] = BootUnit} = {k \in DOMAIN h : h[k] = BootUnit}
  BY <1>2, <1>3, <1>4
<1> QED
  BY <1>5 DEF Count

LEMMA CountBoot ==
    ASSUME NEW h \in Seq(Unit)
    PROVE  Count(h \o <<BootUnit>>) = Count(h) + 1
<1> DEFINE u == <<BootUnit>>
           n == Len(h)
           P == {k \in DOMAIN h : h[k] = BootUnit}
           Q == {k \in DOMAIN (h \o u) : (h \o u)[k] = BootUnit}
<1>1. u \in Seq(Unit) /\ Len(u) = 1 /\ u[1] = BootUnit
  <2> BootUnit \in Unit
    BY DEF BootUnit, Unit
  <2> HIDE DEF BootUnit, Unit
  <2> QED
    OBVIOUS
<1> HIDE DEF u
<1>2. /\ h \o u \in Seq(Unit) /\ Len(h \o u) = n + 1
      /\ \A k \in 1 .. n + 1 : (h \o u)[k] = IF k <= n THEN h[k] ELSE u[k - n]
  BY <1>1, ConcatProperties
<1>3. DOMAIN h = 1 .. n /\ DOMAIN (h \o u) = 1 .. n + 1 /\ n \in Nat
  BY <1>2, LenProperties
<1> HIDE DEF n
<1>4. \A k \in 1 .. n + 1 : (h \o u)[k] = BootUnit <=> k = n + 1 \/ (k \in 1 .. n /\ h[k] = BootUnit)
  <2> SUFFICES ASSUME NEW k \in 1 .. n + 1
               PROVE  (h \o u)[k] = BootUnit <=> k = n + 1 \/ (k \in 1 .. n /\ h[k] = BootUnit)
    OBVIOUS
  <2>1. CASE k <= n
    <3> k \in 1 .. n /\ k # n + 1
      BY <1>3, <2>1
    <3> QED
      BY <1>2, <2>1
  <2>2. CASE ~ (k <= n)
    <3> k = n + 1 /\ k - n = 1
      BY <1>3, <2>2
    <3> QED
      BY <1>1, <1>2, <2>2
  <2> QED
    BY <2>1, <2>2
<1>5. \A k \in 1 .. n : k \in 1 .. n + 1
  BY <1>3
<1>6. n + 1 \in 1 .. n + 1 /\ n + 1 \notin 1 .. n
  BY <1>3
<1>7. Q = P \union {n + 1} /\ n + 1 \notin P
  BY <1>3, <1>4, <1>5, <1>6
<1>8. IsFiniteSet(P) /\ Count(h) = Cardinality(P) /\ Count(h \o u) = Cardinality(Q)
  BY CountNat DEF Count
<1> HIDE DEF P, Q
<1>9. Cardinality(Q) = Cardinality(P) + 1
  BY <1>7, <1>8, FS_AddElement
<1> QED
  BY <1>8, <1>9 DEF u

LEMMA CountEmpty == Count(<<>>) = 0
<1> {k \in DOMAIN <<>> : <<>>[k] = BootUnit} = {}
  OBVIOUS
<1> QED
  BY FS_EmptySet DEF Count

(* Only the first line of a session begins with its unit.                  *)
LEMMA OtherLines ==
    ASSUME NEW tag \in Tags, tag # "boot"
    PROVE  \A k \in 1 .. Len(Line(tag)) : Line(tag)[k] # BootUnit
<1> DEFINE a == <<tag, 1>>
           b == <<tag, 2>>
<1>1. a # BootUnit /\ b # BootUnit
  BY DEF BootUnit
<1>2. Line(tag) = <<a>> \/ Line(tag) = <<a, b>>
  BY DEF Line
<1> HIDE DEF a, b, BootUnit
<1>3. CASE Line(tag) = <<a>>
  <2> DEFINE l == <<a>>
  <2>1. Len(l) = 1 /\ l[1] = a
    OBVIOUS
  <2> HIDE DEF l
  <2>2. \A k \in 1 .. Len(l) : k = 1
    BY <2>1
  <2> QED
    BY <1>1, <1>3, <2>1, <2>2 DEF l
<1>4. CASE Line(tag) = <<a, b>>
  <2> DEFINE l == <<a, b>>
  <2>1. Len(l) = 2 /\ l[1] = a /\ l[2] = b
    OBVIOUS
  <2> HIDE DEF l
  <2>2. \A k \in 1 .. Len(l) : k = 1 \/ k = 2
    BY <2>1
  <2> QED
    BY <1>1, <1>4, <2>1, <2>2 DEF l
<1> QED
  BY <1>2, <1>3, <1>4
LEMMA CountStep ==
    ASSUME TypeInv, WorkInv, StoreInv, KeyPlaceInv, LogInv, CountInv, [Next]_vars
    PROVE  CountInv'
<1> USE DEF CountInv
<1> DEFINE Early == BeforeLog \union {"boot"}
<1>1. pulled \in Nat /\ \A f \in FileId : hist[f] \in Seq(Unit) /\ Count(hist[f]) \in Nat
  <2>1. pulled \in Nat
    BY BoundTypes DEF TypeInv
  <2>2. \A f \in FileId : hist[f] \in Seq(Unit)
    BY DEF TypeInv
  <2> QED
    BY <2>1, <2>2, CountNat
<1>2. ASSUME PathsKept, \A f \in FileId : Count(hist'[f]) = Count(hist[f]), pulled' = pulled,
             Now' \in Early => Now \in Early
      PROVE  CountInv'
  BY <1>2, PathsKeptFacts, PathTypes
<1>3. CASE StillStep
  <2>1. PathsKept /\ hist' = hist /\ pulled' = pulled /\ Now' = Now
    BY <1>3, PathsKeptSteps DEF StillStep, seenVars, Now
  <2> QED
    BY <1>2, <2>1
<1>4. CASE BeginStep \/ DoSjfsInit \/ DoSatkeyInit \/ DoKeyShow \/ DoLoggerClose \/ DoPhase
  <2>1. PathsKept /\ hist' = hist /\ pulled' = pulled
    BY <1>4, PathsKeptSteps, KeptSteps
       DEF StoreKept, BeginStep, DoSjfsInit, DoSatkeyInit, DoKeyShow, DoLoggerClose, DoPhase,
           seenVars
  <2>2. Now' \in Early => Now \in Early
    BY <1>4, SjfsInitMoves, SatkeyInitMoves, KeyShowMoves, LoggerCloseMoves, PhaseMoves
       DEF BeginStep, BeforeLog, BeforeKey, KeyWriting
  <2> QED
    BY <1>2, <2>1, <2>2
<1>5. CASE ResetStep
  <2>1. PathsKept /\ hist' = hist
    BY <1>5, PathsKeptSteps, KeptSteps DEF StoreKept
  <2>2. CASE Now = "reset" /\ pulled' = pulled
    <3>1. NoLog
      BY <2>2 DEF LogInv, BeforeLog, BeforeKey, KeyWriting
    <3> QED
      BY <2>1, <2>2, <3>1, PathsKeptFacts DEF NoLog
  <2>3. CASE pulled' = pulled + 1
    <3>1. \A f \in FileId : Count(hist'[f]) <= pulled'
      BY <1>1, <2>1, <2>3
    <3>2. \A f \in FileId : Count(hist'[f]) <= 1 + pulled'
      BY <1>1, <2>1, <2>3
    <3> QED
      BY <3>1, <3>2
  <2> QED
    BY <1>5, <2>2, <2>3 DEF ResetStep
<1>6. CASE DoKeyCreate
  <2>1. /\ Now = "key_create" /\ hist' = hist /\ pulled' = pulled
        /\ fs'.entries[0] = [used |-> TRUE, path |-> KeyPath, data |-> <<>>]
        /\ \A f \in FileId \ {0} : fs'.entries[f] = fs.entries[f]
    BY <1>6, KeyCreateMoves, KeyCreateEffect DEF DoKeyCreate, seenVars
  <2>2. \A f \in FileId : HasPath(f, LogPath)' => HasPath(f, LogPath)
    BY <2>1, PathTypes DEF HasPath
  <2>3. Now \in Early
    BY <2>1 DEF BeforeLog, BeforeKey
  <2> QED
    BY <2>1, <2>2, <2>3
<1>7. CASE DoKeyWrite
  <2>1. /\ PathsKept /\ pulled' = pulled /\ Now \in {"key_magic", "key_write"}
    BY <1>7, PathsKeptSteps, KeyWriteMoves DEF DoKeyWrite, seenVars
  <2>2. PICK x \in {Magic, KeyUnit(plain)} : <<x>> \in Seq(Unit) /\ WriteFile(0, <<x>>)
    BY <1>7, KeyWriteEffect
  <2>3. /\ \A f \in FileId \ {0} : hist'[f] = hist[f]
        /\ hist'[0] = hist[0] \o <<x>>
    BY <2>2, WriteFileEffect, FileIds
  <2>4. \A k \in 1 .. Len(<<x>>) : <<x>>[k] # BootUnit
    <3>1. x # BootUnit
      BY DEF Magic, KeyUnit, BootUnit
    <3> HIDE DEF BootUnit
    <3> QED
      BY <3>1
  <2>5. Count(hist'[0]) = Count(hist[0])
    <3> DEFINE u == <<x>>
    <3>1. u \in Seq(Unit) /\ hist[0] \in Seq(Unit) /\ \A k \in 1 .. Len(u) : u[k] # BootUnit
      BY <1>1, <2>2, <2>4, FileIds
    <3> HIDE DEF u
    <3>2. Count(hist[0] \o u) = Count(hist[0])
      BY <3>1, CountAppend
    <3> QED
      BY <2>3, <3>2 DEF u
  <2>6. Now \in Early
    BY <2>1 DEF BeforeLog, KeyWriting
  <2> QED
    BY <1>2, <2>1, <2>3, <2>5, <2>6
<1>8. CASE DoLoggerInit
  <2>1. Now = "logger_init" /\ hist' = hist /\ pulled' = pulled
    BY <1>8, LoggerInitMoves, LoggerInitEffect DEF DoLoggerInit, seenVars
  <2>2. Now \in Early
    BY <2>1 DEF BeforeLog
  <2>3. CASE fs' = fs
    BY <2>1, <2>2, <2>3 DEF HasPath
  <2>4. CASE fs' # fs
    <3>1. /\ s_log_idx' \in FileId /\ ~ fs.entries[s_log_idx'].used
          /\ \A f \in FileId \ {s_log_idx'} : fs'.entries[f] = fs.entries[f]
      BY <1>8, <2>4, LoggerInitEffect
    <3>2. Count(hist[s_log_idx']) = 0
      BY <3>1, CountEmpty DEF StoreInv
    <3>3. \A f \in FileId : HasPath(f, LogPath)' => Count(hist'[f]) <= pulled'
      <4> SUFFICES ASSUME NEW f \in FileId, HasPath(f, LogPath)'
                   PROVE  Count(hist'[f]) <= pulled'
        OBVIOUS
      <4>1. CASE f = s_log_idx'
        BY <1>1, <2>1, <3>2, <4>1
      <4>2. CASE f # s_log_idx'
        BY <2>1, <2>2, <3>1, <4>2 DEF HasPath
      <4> QED
        BY <4>1, <4>2
    <3> QED
      BY <2>1, <3>3
  <2> QED
    BY <2>3, <2>4
<1>9. CASE DoLoggerWrite
  <2>1. /\ PathsKept /\ pulled' = pulled
        /\ Now \in Tags /\ MayFollow(Now, Now')
    BY <1>9, PathsKeptSteps, LoggerWriteMoves DEF DoLoggerWrite, seenVars
  <2>2. Now' \notin Early
    BY <2>1 DEF Tags, MayFollow, BeforeLog, BeforeKey, KeyWriting
  <2>3. CASE ~ s_open /\ fs' = fs /\ hist' = hist
    BY <2>1, <2>2, <2>3
  <2>4. CASE /\ s_open /\ s_log_idx \in FileId /\ HasPath(s_log_idx, LogPath)
             /\ Line(Now) \in Seq(Unit) /\ WriteFile(s_log_idx, Line(Now))
    <3>1. /\ hist'[s_log_idx] = hist[s_log_idx] \o Line(Now)
          /\ \A f \in FileId \ {s_log_idx} : hist'[f] = hist[f]
          /\ hist[s_log_idx] \in Seq(Unit)
      BY <1>1, <2>4, WriteFileEffect
    <3>2. CASE Now = "boot"
      <4>1. Line(Now) = <<BootUnit>>
        BY <3>2 DEF Line, BootUnit
      <4>2. Count(hist'[s_log_idx]) = Count(hist[s_log_idx]) + 1
        BY <3>1, <4>1, CountBoot
      <4>3. Count(hist[s_log_idx]) <= pulled
        BY <2>4, <3>2
      <4>4. Count(hist'[s_log_idx]) <= 1 + pulled
        BY <1>1, <2>4, <4>2, <4>3
      <4> QED
        BY <2>1, <2>2, <3>1, <4>4
    <3>3. CASE Now # "boot"
      <4>1. Count(hist'[s_log_idx]) = Count(hist[s_log_idx])
        BY <2>1, <2>4, <3>1, <3>3, OtherLines, CountAppend
      <4> QED
        BY <2>1, <2>2, <3>1, <4>1
    <3> QED
      BY <3>2, <3>3
  <2> QED
    BY <1>9, <2>3, <2>4, LoggerWriteEffect
<1>10. CASE DoRename
  <2>1. Now' \in {"halt", "reset"} /\ hist' = hist /\ pulled' = pulled
    BY <1>10, RenameMoves DEF DoRename, seenVars
  <2>2. Now' \notin Early
    BY <2>1 DEF BeforeLog, BeforeKey, KeyWriting
  <2> QED
    BY <2>1, <2>2
<1> QED
  BY <1>3, <1>4, <1>5, <1>6, <1>7, <1>8, <1>9, <1>10, NextKinds
-----------------------------------------------------------------------------
(* The key that can be verified.                                           *)
LEMMA KeyOpensAtZero ==
    ASSUME NEW s, s.entries[0].used, s.entries[0].path = KeyPath,
           \A f \in FileId \ {0} : s.entries[f].used =>
              s.entries[f].path = LogPath \/ s.entries[f].path[1] = "closed"
    PROVE  SjfsOpen(s, KeyPath) = 0 /\ 0 # NoFile
<1>1. SjfsOpen(s, KeyPath) = NoFile \/
         /\ SjfsOpen(s, KeyPath) \in FileId
         /\ s.entries[SjfsOpen(s, KeyPath)].used
         /\ s.entries[SjfsOpen(s, KeyPath)].path = KeyPath
  BY OpenFinds
<1>2. SjfsOpen(s, KeyPath) # NoFile
  BY OpenFinds, FileIds
<1> QED
  BY <1>1, <1>2, PathTypes, FileIds

(* The first entry, once in use, keeps its place, and what it holds only   *)
(* grows at its end.                                                       *)
LEMMA KeyFileGrows ==
    ASSUME TypeInv, WorkInv, StoreInv, KeyPlaceInv, LogInv, [Next]_vars, fs.entries[0].used
    PROVE  /\ fs'.entries[0].used
           /\ \/ fs'.entries[0].data = fs.entries[0].data
              \/ \E u \in Seq(Unit) : fs'.entries[0].data = fs.entries[0].data \o u
<1> USE FileIds
<1>1. CASE fs' = fs
  BY <1>1
<1>2. CASE StillStep \/ BeginStep \/ ResetStep \/ DoSatkeyInit \/ DoKeyShow \/ DoLoggerClose
              \/ DoPhase
  BY <1>1, <1>2, KeptSteps DEF StoreKept
<1>3. CASE DoSjfsInit
  BY <1>3, SjfsInitEffect
<1>4. CASE DoKeyCreate
  BY <1>4, KeyCreateMoves DEF KeyPlaceInv
<1>5. CASE DoKeyWrite
  <2>1. PICK x \in {Magic, KeyUnit(plain)} : <<x>> \in Seq(Unit) /\ WriteFile(0, <<x>>)
    BY <1>5, KeyWriteEffect
  <2> DEFINE u == Take(<<x>>, SJFS_FILE_UNITS - Len(fs.entries[0].data))
  <2>2. fs'.entries[0].used /\ fs'.entries[0].data = fs.entries[0].data \o u
    BY <2>1, WriteFileEffect
  <2>3. SJFS_FILE_UNITS - Len(fs.entries[0].data) \in Nat
    <3> DEFINE h == hist[0]
               d == Take(h, SJFS_FILE_UNITS)
    <3>1. fs.entries[0].data = d /\ h \in Seq(Unit)
      BY DEF StoreInv, FileIsPrefixOfHistory, TypeInv
    <3> HIDE DEF h
    <3>2. Len(h) \in Nat /\ Len(d) = IF Len(h) <= SJFS_FILE_UNITS THEN Len(h) ELSE SJFS_FILE_UNITS
      BY <3>1, BoundTypes, TakeIsPrefix
    <3> HIDE DEF d
    <3> QED
      BY <3>1, <3>2, BoundTypes
  <2>4. u \in Seq(Unit)
    BY <2>1, <2>3, TakeIsPrefix
  <2> QED
    BY <2>2, <2>4
<1>6. CASE DoLoggerInit
  BY <1>1, <1>6, LoggerInitEffect
<1>7. CASE DoLoggerWrite
  BY <1>7, LoggerWriteSparesKey
<1>8. CASE DoRename
  <2>1. fs.entries[0].path # LogPath
    BY PathTypes DEF KeyPlaceInv
  <2> QED
    BY <1>8, <2>1, RenameMoves, CloseEffect DEF HasPath
<1> QED
  BY <1>2, <1>3, <1>4, <1>5, <1>6, <1>7, <1>8, NextKinds

LEMMA VerifyStep ==
    ASSUME TypeInv, WorkInv, StoreInv, KeyPlaceInv, LogInv, [Next]_vars,
           NEW k \in Keys, SatkeyVerify(k)
    PROVE  SatkeyVerify(k)'
<1> DEFINE want == <<Magic, KeyUnit(k)>>
<1>1. fs.entries[0].used /\ SjfsOpen(fs, KeyPath) = 0
  BY KeyExistsAtZero DEF SatkeyVerify, KeyExists
<1>2. Take(fs.entries[0].data, 2) = want
  BY <1>1 DEF SatkeyVerify, SjfsRead
<1>3. /\ fs'.entries[0].used
      /\ \/ fs'.entries[0].data = fs.entries[0].data
         \/ \E u \in Seq(Unit) : fs'.entries[0].data = fs.entries[0].data \o u
  BY <1>1, KeyFileGrows
<1>4. SjfsOpen(fs', KeyPath) = 0 /\ 0 # NoFile
  <2>1. KeyPlaceInv'
    BY KeyPlaceStep
  <2> QED
    BY <1>3, <2>1, KeyOpensAtZero DEF KeyPlaceInv
<1> DEFINE d == fs.entries[0].data
<1>5. d \in Seq(Unit) /\ Len(d) \in Nat /\ Len(d) >= 2
  <2>1. d \in Seq(Unit)
    BY FileIds DEF TypeInv, Store, Entry
  <2>2. Len(want) = 2
    OBVIOUS
  <2>3. Len(Take(d, 2)) = 2
    BY <1>2, <2>2
  <2> HIDE DEF d
  <2>4. Len(d) \in Nat /\ 2 = IF Len(d) <= 2 THEN Len(d) ELSE 2
    BY <2>1, <2>3, TakeIsPrefix
  <2> QED
    BY <2>1, <2>4
<1> HIDE DEF d, want
<1>6. ASSUME NEW u \in Seq(Unit) PROVE Take(d \o u, 2) = Take(d, 2)
  <2>1. /\ d \o u \in Seq(Unit) /\ Len(d \o u) = Len(d) + Len(u) /\ Len(u) \in Nat
        /\ \A i \in 1 .. Len(d) + Len(u) : (d \o u)[i] = IF i <= Len(d) THEN d[i] ELSE u[i - Len(d)]
    BY <1>5, ConcatProperties
  <2>2. Len(d) <= Len(d \o u) /\ \A i \in 1 .. Len(d) : (d \o u)[i] = d[i]
    BY <1>5, <2>1
  <2> DEFINE t == d \o u
  <2> HIDE DEF t
  <2>3. t \in Seq(Unit) /\ Len(d) <= Len(t) /\ \A i \in 1 .. Len(d) : t[i] = d[i]
    BY <2>1, <2>2 DEF t
  <2>4. 2 \in Nat /\ 2 <= Len(d) /\ d \in Seq(Unit)
    BY <1>5
  <2>5. Take(t, 2) = Take(d, 2)
    BY <2>3, <2>4, TakeKeepsPrefix
  <2> QED
    BY <2>5 DEF t
<1>7. Take(fs'.entries[0].data, 2) = want
  <2>1. CASE fs'.entries[0].data = fs.entries[0].data
    BY <1>2, <2>1
  <2>2. ASSUME NEW u \in Seq(Unit), fs'.entries[0].data = fs.entries[0].data \o u
        PROVE  Take(fs'.entries[0].data, 2) = want
    <3>1. Take(fs'.entries[0].data, 2) = Take(d \o u, 2)
      BY <2>2 DEF d
    <3>2. Take(d, 2) = want
      BY <1>2 DEF d
    <3> QED
      BY <1>6, <3>1, <3>2
  <2> QED
    BY <1>3, <2>1, <2>2
<1> QED
  BY <1>4, <1>7 DEF SatkeyVerify, SjfsRead, want

LEMMA AuthStep ==
    ASSUME TypeInv, WorkInv, StoreInv, KeyPlaceInv, LogInv, AuthSound, [Next]_vars
    PROVE  AuthSound'
<1> USE DEF AuthSound
<1>1. presented \subseteq Keys
  BY DEF TypeInv
<1>2. CASE BeginStep
  <2>1. CASE presented' = presented /\ (g_authenticated' => g_authenticated)
    BY <1>1, <2>1, VerifyStep
  <2>2. ASSUME NEW k \in Keys, presented' = presented \union {k},
               g_authenticated' => g_authenticated \/ SatkeyVerify(k)
        PROVE  AuthSound'
    BY <1>1, <2>2, VerifyStep
  <2> QED
    BY <1>2, <2>1, <2>2 DEF BeginStep
<1>3. CASE ResetStep
  BY <1>3 DEF ResetStep, ResetState, BssCleared
<1>4. CASE \/ StillStep \/ DoSjfsInit \/ DoSatkeyInit \/ DoKeyCreate \/ DoKeyWrite \/ DoKeyShow
           \/ DoLoggerInit \/ DoLoggerWrite \/ DoLoggerClose \/ DoRename \/ DoPhase
  <2>1. g_authenticated' = g_authenticated /\ presented' = presented
    BY <1>4 DEF StillStep, DoSjfsInit, DoSatkeyInit, DoKeyCreate, DoKeyWrite, DoKeyShow,
                DoLoggerInit, DoLoggerWrite, DoLoggerClose, DoRename, DoPhase, ramVars, seenVars
  <2> QED
    BY <1>1, <2>1, VerifyStep
<1> QED
  BY <1>2, <1>3, <1>4, NextKinds

-----------------------------------------------------------------------------
(* The invariant holds at power-on and over every step.                    *)
LEMMA InitInv == Init => IInv
<1> SUFFICES ASSUME Init PROVE IInv
  OBVIOUS
<1> USE DEF Init
<1>1. TypeInv
  <2>1. Unused \in Entry(Path, Unit)
    BY PathTypes DEF Unused, Entry
  <2>2. fs \in Store(Path, Unit)
    BY <2>1 DEF Store
  <2>3. /\ minute \in 0 .. MaxMinute /\ boots \in 1 .. MaxBoots /\ commands \in 0 .. MaxCommands
        /\ pulled \in 0 .. MaxPulls
    BY BoundTypes
  <2>4. hist \in [FileId -> Seq(Unit)]
    OBVIOUS
  <2> QED
    BY <2>2, <2>3, <2>4 DEF TypeInv
<1>2. /\ Now = "sjfs_init" /\ ~ s_open /\ phase = "boot"
      /\ \A f \in FileId : fs.entries[f] = Unused /\ hist[f] = <<>> /\ ~ fs.entries[f].used
  BY BootWorkSound DEF Now, Unused
<1>3. WorkInv
  BY <1>2, BootWorkSound DEF WorkInv, Sound, BootNames, BeforeLog, BeforeKey
<1>4. Take(<<>>, SJFS_FILE_UNITS) = <<>>
  BY BoundTypes DEF Take
<1>5. StoreInv
  <2>1. \A f \in FileId : fs.entries[f].data = <<>>
    BY <1>2 DEF Unused
  <2> QED
    BY <1>2, <1>4, <2>1 DEF StoreInv, FileIsPrefixOfHistory
<1>6. KeyPlaceInv
  BY <1>2, FileIds DEF KeyPlaceInv, BeforeKey, KeyWriting
<1>7. KeyTextInv
  BY <1>2, FileIds DEF KeyTextInv, KeyWriting
<1>8. LogInv
  BY <1>2 DEF LogInv, HasPath, NoLog, BeforeLog, BeforeKey
<1>9. EndInv
  BY <1>2 DEF EndInv, ClosedMeansFinished, IsClosed
<1>10. CountInv
  <2>1. \A f \in FileId : Count(hist[f]) = 0
    BY <1>2, CountEmpty
  <2> QED
    BY <1>2, <2>1 DEF CountInv, HasPath
<1>11. AuthSound
  BY DEF AuthSound
<1> QED
  BY <1>1, <1>3, <1>5, <1>6, <1>7, <1>8, <1>9, <1>10, <1>11 DEF IInv

LEMMA NextInv == IInv /\ [Next]_vars => IInv'
BY TypeStep, WorkStep, StoreStep, KeyPlaceStep, KeyTextStep, LogStep, EndStep, CountStep,
   AuthStep DEF IInv

LEMMA Invariance == Spec => []IInv
BY InitInv, NextInv, PTL DEF Spec
-----------------------------------------------------------------------------
(* The types of all variables, and no file longer than its capacity.       *)
THEOREM TypeCorrect == Spec => []TypeOK
<1>1. IInv => TypeOK
  <2> SUFFICES ASSUME TypeInv, StoreInv PROVE TypeOK
    BY DEF IInv
  <2>1. ASSUME NEW f \in FileId
        PROVE  /\ fs.entries[f].used \in BOOLEAN /\ fs.entries[f].path \in Path
               /\ fs.entries[f].data \in Seq(Unit)
    BY DEF TypeInv, Store, Entry
  <2>2. ASSUME NEW f \in FileId PROVE Len(fs.entries[f].data) <= SJFS_FILE_UNITS
    <3> DEFINE h == hist[f]
               d == Take(h, SJFS_FILE_UNITS)
    <3>1. fs.entries[f].data = d /\ h \in Seq(Unit)
      BY DEF StoreInv, FileIsPrefixOfHistory, TypeInv
    <3> HIDE DEF h
    <3>2. Len(h) \in Nat /\ Len(d) = IF Len(h) <= SJFS_FILE_UNITS THEN Len(h) ELSE SJFS_FILE_UNITS
      BY <3>1, BoundTypes, TakeIsPrefix
    <3> HIDE DEF d
    <3> QED
      BY <3>1, <3>2, BoundTypes
  <2>3. fs.valid \in BOOLEAN
    BY DEF TypeInv, Store
  <2>4. {key_idx, s_log_idx} \subseteq FileId \union {NoFile}
    BY DEF TypeInv
  <2>5. {s_open, g_authenticated, safe_mode, cut} \subseteq BOOLEAN
    BY DEF TypeInv
  <2>6. /\ phase \in {"boot", "run", "halt"} /\ plain \in Keys \union {NoKey}
        /\ minute \in 0 .. MaxMinute /\ boots \in 1 .. MaxBoots /\ commands \in 0 .. MaxCommands
        /\ shown \subseteq Keys /\ presented \subseteq Keys /\ pulled \in 0 .. MaxPulls
        /\ hist \in [FileId -> Seq(Unit)]
    BY DEF TypeInv
  <2> QED
    BY <2>1, <2>2, <2>3, <2>4, <2>5, <2>6 DEF TypeOK
<1> QED
  BY <1>1, Invariance, PTL

(* "authenticated" always stands for the stored key, typed since the last  *)
(* reset: nothing a boot, a write or a reset does falsifies it.            *)
THEOREM AuthenticationSound == Spec => []AuthSound
<1>1. IInv => AuthSound
  BY DEF IInv
<1> QED
  BY <1>1, Invariance, PTL

(* Without a pull of the reset line between the creation of the key file   *)
(* and the end of satkey_init, the operator has seen the key that counts.  *)
(* A file must have room for the magic number and the key.                 *)
THEOREM OperatorNotLockedOut ==
    ASSUME SJFS_FILE_UNITS >= 2
    PROVE  Spec => []KeyKnownUnlessCut
<1>1. IInv => KeyKnownUnlessCut
  <2> SUFFICES ASSUME IInv, ~ cut, phase = "run" PROVE \E k \in shown : SatkeyVerify(k)
    BY DEF KeyKnownUnlessCut, OperatorKnowsKey
  <2> USE DEF IInv
  <2>1. Now \in RunNames
    BY DEF WorkInv
  <2>2. fs.entries[0].used /\ Now \notin KeyWriting
    BY <2>1 DEF KeyPlaceInv, RunNames, BeforeKey, KeyWriting
  <2>3. PICK k \in shown : hist[0] = <<Magic, KeyUnit(k)>>
    BY <2>2 DEF KeyTextInv
  <2>4. SjfsOpen(fs, KeyPath) = 0 /\ SjfsOpen(fs, KeyPath) # NoFile
    BY <2>2, FileIds, KeyExistsAtZero
  <2> DEFINE h == hist[0]
             d == Take(h, SJFS_FILE_UNITS)
  <2>5. fs.entries[0].data = d /\ h \in Seq(Unit) /\ Len(h) = 2
    BY <2>3, FileIds DEF StoreInv, FileIsPrefixOfHistory, TypeInv
  <2> HIDE DEF h
  <2>6. d \in Seq(Unit) /\ Len(d) = 2 /\ \A i \in 1 .. Len(d) : d[i] = h[i]
    <3>1. SJFS_FILE_UNITS \in Nat /\ Len(h) <= SJFS_FILE_UNITS
      BY <2>5, BoundTypes
    <3> QED
      BY <2>5, <3>1, TakeIsPrefix
  <2>7. d = h
    BY <2>5, <2>6, SeqEqual
  <2>8. Take(h, 2) = h
    <3>1. Take(h, 2) = SubSeq(h, 1, Len(h))
      BY <2>5 DEF Take
    <3> QED
      BY <2>5, <3>1, SubSeqFull
  <2>9. SjfsRead(fs, 0, 2) = <<Magic, KeyUnit(k)>>
    BY <2>3, <2>5, <2>7, <2>8 DEF SjfsRead, h
  <2> QED
    BY <2>4, <2>9 DEF SatkeyVerify
<1> QED
  BY <1>1, Invariance, PTL

(* Each pull of the reset line makes at most one more session share a log. *)
THEOREM SessionsKeptApart == Spec => []OneSessionPerLog
<1>1. IInv => OneSessionPerLog
  BY DEF IInv, CountInv, OneSessionPerLog, Count, BootUnit
<1> QED
  BY <1>1, Invariance, PTL

(* A file holds the beginning of what it was handed, as much as fits.      *)
THEOREM FilesKeepPrefixes == Spec => []FileIsPrefixOfHistory
<1>1. IInv => FileIsPrefixOfHistory
  BY DEF IInv, StoreInv
<1> QED
  BY <1>1, Invariance, PTL

(* A log with a closed path ends with the reason and the closing line.     *)
THEOREM ClosedLogsFinished == Spec => []ClosedMeansFinished
<1>1. IInv => ClosedMeansFinished
  BY DEF IInv, EndInv
<1> QED
  BY <1>1, Invariance, PTL

(* The paths the code opens by name never belong to two files.             *)
THEOREM PathsUnambiguous == Spec => []OpenPathsUnambiguous
<1>1. IInv => OpenPathsUnambiguous
  <2> SUFFICES ASSUME IInv, NEW p \in {KeyPath, LogPath}, NEW f \in FileId, NEW g \in FileId,
                      HasPath(f, p), HasPath(g, p)
               PROVE  f = g
    BY DEF OpenPathsUnambiguous
  <2>1. CASE p = LogPath
    BY <2>1 DEF IInv, LogInv
  <2>2. CASE p = KeyPath
    <3>1. ASSUME NEW i \in FileId, HasPath(i, KeyPath) PROVE i = 0
      BY <3>1, PathTypes DEF IInv, KeyPlaceInv, HasPath
    <3> QED
      BY <2>2, <3>1
  <2> QED
    BY <2>1, <2>2
<1> QED
  BY <1>1, Invariance, PTL

(* The shell runs without a log only if every entry of the table is used.  *)
THEOREM LogMissingOnlyWhenFull == Spec => []LoggingStopsOnlyWhenFull
<1>1. IInv => LoggingStopsOnlyWhenFull
  BY ShellNow DEF IInv, LogInv, LoggingStopsOnlyWhenFull, AllInUse, BeforeLog, BeforeKey, KeyWriting
<1> QED
  BY <1>1, Invariance, PTL

(* A key that can be verified is never replaced, cut or hidden.            *)
THEOREM KeyNeverLost == Spec => KeyStable
<1>1. IInv /\ [Next]_vars => [\A k \in Keys : SatkeyVerify(k) => SatkeyVerify(k)']_vars
  BY VerifyStep DEF IInv
<1> QED
  BY <1>1, Invariance, PTL DEF Spec, KeyStable
-----------------------------------------------------------------------------
(* The session log that SessionLog sees: the place of a file, by its path, *)
(* and the text of those that are logs.                                    *)
Stat(f) == IF ~ fs.entries[f].used THEN "free"
           ELSE IF IsClosed(f) THEN "closed"
           ELSE IF HasPath(f, LogPath) THEN "open" ELSE "other"
Text(f) == IF IsClosed(f) \/ HasPath(f, LogPath) THEN fs.entries[f].data ELSE <<>>

Status == [f \in FileId |-> Stat(f)]
Texts  == [f \in FileId |-> Text(f)]

(* A step that changes no status and no text, one status, or one text.     *)
LEMMA SameView ==
    ASSUME \A f \in FileId : Stat(f)' = Stat(f) /\ Text(f)' = Text(f)
    PROVE  Status' = Status /\ Texts' = Texts
BY DEF Status, Texts

LEMMA OneStatus ==
    ASSUME NEW i \in FileId, NEW new, Stat(i)' = new, Text(i)' = Text(i),
           \A f \in FileId \ {i} : Stat(f)' = Stat(f) /\ Text(f)' = Text(f)
    PROVE  Status' = [Status EXCEPT ![i] = new] /\ Texts' = Texts
BY DEF Status, Texts

LEMMA OneText ==
    ASSUME NEW i \in FileId, Stat(i)' = Stat(i),
           \A f \in FileId \ {i} : Stat(f)' = Stat(f) /\ Text(f)' = Text(f)
    PROVE  Status' = Status /\ Texts' = [Texts EXCEPT ![i] = Texts'[i]]
BY DEF Status, Texts

LEMMA SameEntrySameView ==
    ASSUME NEW f \in FileId, fs'.entries[f] = fs.entries[f]
    PROVE  Stat(f)' = Stat(f) /\ Text(f)' = Text(f)
BY DEF Stat, Text, IsClosed, HasPath

(* What is appended to a sequence extends it.                              *)
LEMMA AppendExtends ==
    ASSUME NEW d \in Seq(Unit), NEW u \in Seq(Unit)
    PROVE  Len(d) <= Len(d \o u) /\ SubSeq(d, 1, Len(d)) = SubSeq(d \o u, 1, Len(d))
<1> DEFINE t == d \o u
<1>1. /\ t \in Seq(Unit) /\ Len(t) = Len(d) + Len(u) /\ Len(u) \in Nat /\ Len(d) \in Nat
      /\ \A i \in 1 .. Len(d) + Len(u) : t[i] = IF i <= Len(d) THEN d[i] ELSE u[i - Len(d)]
  BY ConcatProperties
<1> HIDE DEF t
<1>2. Len(d) <= Len(t) /\ \A i \in 1 .. Len(d) : t[i] = d[i]
  BY <1>1
<1>3. Take(t, Len(d)) = Take(d, Len(d))
  BY <1>1, <1>2, TakeKeepsPrefix
<1>4. Take(t, Len(d)) = SubSeq(t, 1, Len(d)) /\ Take(d, Len(d)) = SubSeq(d, 1, Len(d))
  BY <1>1, <1>2 DEF Take
<1> QED
  BY <1>2, <1>3, <1>4 DEF t

LEMMA InitRefines == Init => Sessions!Init
<1> SUFFICES ASSUME Init PROVE Sessions!Init
  OBVIOUS
<1>1. \A f \in FileId : fs.entries[f] = Unused /\ ~ fs.entries[f].used
  BY DEF Init, Unused
<1>2. \A f \in FileId : Stat(f) = "free" /\ Text(f) = <<>>
  BY <1>1 DEF Stat, Text, IsClosed, HasPath
<1>3. Status = [f \in FileId |-> "free"] /\ Texts = [f \in FileId |-> <<>>]
  BY <1>2 DEF Status, Texts
<1> QED
  BY <1>3 DEF Sessions!Init, Status, Texts, Stat, Text

(* Each step of the satellite is a step of the session log or none.        *)
LEMMA StepRefines ==
    ASSUME IInv, [Next]_vars
    PROVE  \/ Status' = Status /\ Texts' = Texts
           \/ \E i \in FileId :
                 \/ /\ Status[i] = "free" /\ Status' = [Status EXCEPT ![i] = "other"]
                    /\ Texts' = Texts
                 \/ /\ Status[i] = "free" /\ \A f \in FileId : Status[f] # "open"
                    /\ Status' = [Status EXCEPT ![i] = "open"] /\ Texts' = Texts
                 \/ /\ Status[i] = "open" /\ Sessions!IsPrefix(Texts[i], Texts'[i])
                    /\ Texts' = [Texts EXCEPT ![i] = Texts'[i]] /\ Status' = Status
                 \/ /\ Status[i] = "open" /\ Status' = [Status EXCEPT ![i] = "closed"]
                    /\ Texts' = Texts
<1> USE DEF IInv
<1>1. ASSUME \A f \in FileId : fs'.entries[f] = fs.entries[f]
      PROVE  Status' = Status /\ Texts' = Texts
  BY <1>1, SameEntrySameView, SameView
<1>2. CASE StillStep \/ BeginStep \/ ResetStep \/ DoSatkeyInit \/ DoKeyShow \/ DoLoggerClose
              \/ DoPhase
  BY <1>1, <1>2, KeptSteps DEF StoreKept
<1>3. CASE DoSjfsInit
  BY <1>1, <1>3, SjfsInitEffect
<1>4. CASE DoKeyCreate
  <2>1. /\ ~ fs.entries[0].used /\ 0 \in FileId
        /\ fs'.entries[0] = [used |-> TRUE, path |-> KeyPath, data |-> <<>>]
        /\ \A f \in FileId \ {0} : fs'.entries[f] = fs.entries[f]
    BY <1>4, KeyCreateMoves, KeyCreateEffect, FileIds DEF KeyPlaceInv
  <2>2. Stat(0) = "free" /\ Stat(0)' = "other" /\ Text(0) = <<>> /\ Text(0)' = <<>>
    BY <2>1, PathTypes DEF Stat, Text, IsClosed, HasPath
  <2>3. Status' = [Status EXCEPT ![0] = "other"] /\ Texts' = Texts
    BY <2>1, <2>2, SameEntrySameView, OneStatus
  <2>4. Status[0] = "free"
    BY <2>1, <2>2 DEF Status
  <2> QED
    BY <2>1, <2>3, <2>4
<1>5. CASE DoKeyWrite
  <2>1. /\ PathsKept /\ \A f \in FileId \ {0} : fs'.entries[f] = fs.entries[f]
    BY <1>5, PathsKeptSteps, KeyWriteEffect, WriteFileEffect, FileIds
  <2>2. fs.entries[0].used /\ fs.entries[0].path = KeyPath
    BY <1>5, KeyWriteMoves DEF KeyPlaceInv, BeforeKey
  <2>3. Stat(0)' = Stat(0) /\ Text(0)' = Text(0)
    BY <2>1, <2>2, PathTypes, FileIds DEF PathsKept, Stat, Text, IsClosed, HasPath
  <2> QED
    BY <2>1, <2>3, SameEntrySameView, SameView
<1>6. CASE DoLoggerInit
  <2>1. CASE fs' = fs
    BY <1>1, <2>1
  <2>2. CASE fs' # fs
    <3>1. PICK i \in FileId : i = s_log_idx'
      BY <1>6, <2>2, LoggerInitEffect
    <3>2. /\ NoLog /\ ~ fs.entries[i].used
          /\ fs'.entries[i] = [used |-> TRUE, path |-> LogPath, data |-> <<>>]
          /\ \A f \in FileId \ {i} : fs'.entries[f] = fs.entries[f]
      BY <1>6, <2>2, <3>1, LoggerInitEffect
    <3>3. Stat(i) = "free" /\ Text(i) = <<>>
      BY <3>2 DEF Stat, Text, IsClosed, HasPath
    <3>4. Stat(i)' = "open" /\ Text(i)' = <<>>
      BY <3>2, PathTypes DEF Stat, Text, IsClosed, HasPath
    <3>5. Status' = [Status EXCEPT ![i] = "open"] /\ Texts' = Texts
      BY <3>2, <3>3, <3>4, SameEntrySameView, OneStatus
    <3>6. Status[i] = "free"
      BY <3>3 DEF Status
    <3>7. \A f \in FileId : Status[f] # "open"
      BY <3>2 DEF Status, Stat, NoLog
    <3> QED
      BY <3>5, <3>6, <3>7
  <2> QED
    BY <2>1, <2>2
<1>7. CASE DoLoggerWrite
  <2>1. CASE ~ s_open /\ fs' = fs /\ hist' = hist
    BY <1>1, <2>1
  <2>2. CASE /\ s_open /\ s_log_idx \in FileId /\ HasPath(s_log_idx, LogPath)
             /\ Line(Now) \in Seq(Unit) /\ WriteFile(s_log_idx, Line(Now))
    <3>1. PICK i \in FileId : i = s_log_idx
      BY <2>2
    <3>2. PICK n : n = SJFS_FILE_UNITS - Len(fs.entries[i].data)
      OBVIOUS
    <3>3. PICK d : d = fs.entries[i].data
      OBVIOUS
    <3>4. PICK u : u = Take(Line(Now), n)
      OBVIOUS
    <3>5. /\ PathsKept /\ \A f \in FileId \ {i} : fs'.entries[f] = fs.entries[f]
          /\ fs'.entries[i].data = d \o u
      BY <1>7, <2>2, <3>1, <3>2, <3>3, <3>4, PathsKeptSteps, WriteFileEffect
    <3>6. d \in Seq(Unit) /\ n \in Nat
      <4> DEFINE h == hist[i]
                 e == Take(h, SJFS_FILE_UNITS)
      <4>1. d = e /\ h \in Seq(Unit) /\ n = SJFS_FILE_UNITS - Len(d)
        BY <3>2, <3>3 DEF StoreInv, FileIsPrefixOfHistory, TypeInv
      <4> HIDE DEF h
      <4>2. e \in Seq(Unit) /\ Len(h) \in Nat
            /\ Len(e) = IF Len(h) <= SJFS_FILE_UNITS THEN Len(h) ELSE SJFS_FILE_UNITS
        BY <4>1, BoundTypes, TakeIsPrefix
      <4> HIDE DEF e
      <4> QED
        BY <4>1, <4>2, BoundTypes
    <3>7. u \in Seq(Unit)
      BY <2>2, <3>4, <3>6, TakeIsPrefix
    <3>8. fs.entries[i].used /\ fs.entries[i].path = LogPath /\ LogPath[1] # "closed"
      BY <2>2, <3>1, PathTypes DEF HasPath
    <3>9. Stat(i) = "open" /\ Text(i) = d
      BY <3>3, <3>8 DEF Stat, Text, IsClosed, HasPath
    <3>10. Stat(i)' = "open" /\ Text(i)' = d \o u
      BY <3>5, <3>8 DEF PathsKept, Stat, Text, IsClosed, HasPath
    <3>11. Status' = Status /\ Texts' = [Texts EXCEPT ![i] = Texts'[i]]
      BY <3>5, <3>9, <3>10, SameEntrySameView, OneText
    <3>12. Status[i] = "open" /\ Texts[i] = d /\ Texts'[i] = d \o u
      BY <3>9, <3>10 DEF Status, Texts
    <3>13. Sessions!IsPrefix(Texts[i], Texts'[i])
      BY <3>6, <3>7, <3>12, AppendExtends DEF Sessions!IsPrefix
    <3> QED
      BY <3>11, <3>12, <3>13
  <2> QED
    BY <1>7, <2>1, <2>2, LoggerWriteEffect
<1>8. CASE DoRename
  <2>1. PICK i \in FileId : i = s_log_idx
    BY <1>8, RenameMoves, CloseEffect
  <2>2. /\ HasPath(i, LogPath)
        /\ fs'.entries[i] = [used |-> TRUE, path |-> ClosedPath(minute), data |-> fs.entries[i].data]
        /\ \A f \in FileId \ {i} : fs'.entries[f] = fs.entries[f]
    BY <1>8, <2>1, RenameMoves, CloseEffect
  <2>3. ClosedPath(minute)[1] = "closed" /\ LogPath[1] # "closed"
    BY PathTypes DEF TypeInv
  <2>4. Stat(i) = "open" /\ Text(i) = fs.entries[i].data
    BY <2>2, <2>3 DEF Stat, Text, IsClosed, HasPath
  <2>5. Stat(i)' = "closed" /\ Text(i)' = fs.entries[i].data
    BY <2>2, <2>3 DEF Stat, Text, IsClosed
  <2>6. Status' = [Status EXCEPT ![i] = "closed"] /\ Texts' = Texts
    BY <2>2, <2>4, <2>5, SameEntrySameView, OneStatus
  <2>7. Status[i] = "open"
    BY <2>4 DEF Status
  <2> QED
    BY <2>6, <2>7
<1> QED
  BY <1>2, <1>3, <1>4, <1>5, <1>6, <1>7, <1>8, NextKinds

(* The session log is what its readers were promised: one open session at  *)
(* most, whose text only grows at its end, and closed ones that stay.      *)
THEOREM LogRefinement == Spec => ImplementsSessionLog
<1>1. IInv /\ [Next]_vars => [Sessions!Next]_(Sessions!vars)
  <2> SUFFICES ASSUME IInv, [Next]_vars PROVE [Sessions!Next]_(Sessions!vars)
    OBVIOUS
  <2>1. CASE Status' = Status /\ Texts' = Texts
    BY <2>1 DEF Sessions!vars, Status, Texts, Stat, Text
  <2>2. ASSUME NEW i \in FileId,
               /\ Status[i] = "free" /\ Status' = [Status EXCEPT ![i] = "other"]
               /\ Texts' = Texts
        PROVE  Sessions!Next
    <3> Sessions!Occupy(i)
      BY <2>2 DEF Sessions!Occupy, Status, Texts, Stat, Text
    <3> QED
      BY DEF Sessions!Next
  <2>3. ASSUME NEW i \in FileId,
               /\ Status[i] = "free" /\ \A f \in FileId : Status[f] # "open"
               /\ Status' = [Status EXCEPT ![i] = "open"] /\ Texts' = Texts
        PROVE  Sessions!Next
    <3> Sessions!Begin(i)
      BY <2>3 DEF Sessions!Begin, Sessions!NoneOpen, Status, Texts, Stat, Text
    <3> QED
      BY DEF Sessions!Next
  <2>4. ASSUME NEW i \in FileId,
               /\ Status[i] = "open" /\ Sessions!IsPrefix(Texts[i], Texts'[i])
               /\ Texts' = [Texts EXCEPT ![i] = Texts'[i]] /\ Status' = Status
        PROVE  Sessions!Next
    <3> Sessions!Record(i)
      BY <2>4 DEF Sessions!Record, Status, Texts, Stat, Text
    <3> QED
      BY DEF Sessions!Next
  <2>5. ASSUME NEW i \in FileId,
               /\ Status[i] = "open" /\ Status' = [Status EXCEPT ![i] = "closed"]
               /\ Texts' = Texts
        PROVE  Sessions!Next
    <3> Sessions!Close(i)
      BY <2>5 DEF Sessions!Close, Status, Texts, Stat, Text
    <3> QED
      BY DEF Sessions!Next
  <2> QED
    BY <2>1, <2>2, <2>3, <2>4, <2>5, StepRefines
<1> QED
  BY <1>1, InitRefines, Invariance, PTL DEF Spec, ImplementsSessionLog, Sessions!Spec
=============================================================================
