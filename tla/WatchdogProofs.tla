---------------------------- MODULE WatchdogProofs ---------------------------
(***************************************************************************)
(* Theorems about Watchdog, for every set of tasks, every number of        *)
(* channels, every timeout, period and delay, and every counter wide       *)
(* enough to tell the ages that occur apart.                               *)
(***************************************************************************)
EXTENDS Watchdog, TLAPS

LEMMA ModRange ==
    \A n \in Nat \ {0} : \A x \in Nat : x % n \in 0 .. n - 1
  OBVIOUS

(* Ages are differences modulo TickMod.                                    *)
Behind(a, b) == (a - b) % TickMod

LEMMA BehindIs ==
    ASSUME NEW a \in 0 .. TickMod - 1, NEW b \in 0 .. TickMod - 1
    PROVE  Behind(a, b) = IF a >= b THEN a - b ELSE a - b + TickMod
  <1>1. TickMod \in Nat \ {0}
    BY WatchdogAssumption DEF DetectionTime
  <1>2. \A n \in Nat \ {0} : \A x \in 1 - n .. n - 1 :
            x % n = IF x >= 0 THEN x ELSE x + n
    OBVIOUS
  <1> DEFINE d == a - b
  <1>3. d \in 1 - TickMod .. TickMod - 1
    BY <1>1
  <1>4. d % TickMod = IF d >= 0 THEN d ELSE d + TickMod
    <2> HIDE DEF d
    <2> QED  BY <1>1, <1>2, <1>3
  <1> QED  BY <1>1, <1>4 DEF Behind

LEMMA NextTick ==
    ASSUME NEW a \in 0 .. TickMod - 1
    PROVE  /\ (a + 1) % TickMod = IF a = TickMod - 1 THEN 0 ELSE a + 1
           /\ (a + 1) % TickMod \in 0 .. TickMod - 1
  <1>1. TickMod \in Nat \ {0}
    BY WatchdogAssumption DEF DetectionTime
  <1>2. \A n \in Nat \ {0} : \A x \in 1 .. n : x % n = IF x = n THEN 0 ELSE x
    OBVIOUS
  <1> DEFINE d == a + 1
  <1>3. d \in 1 .. TickMod
    BY <1>1
  <1>4. d % TickMod = IF d = TickMod THEN 0 ELSE d
    <2> HIDE DEF d
    <2> QED  BY <1>1, <1>2, <1>3
  <1> QED  BY <1>1, <1>4

(* A tick makes an age older by one, unless it was the greatest there is.  *)
LEMMA TickAges ==
    ASSUME NEW a \in 0 .. TickMod - 1, NEW b \in 0 .. TickMod - 1,
           Behind(a, b) < TickMod - 1
    PROVE  Behind((a + 1) % TickMod, b) = Behind(a, b) + 1
  <1>1. TickMod \in Nat
    BY WatchdogAssumption
  <1> DEFINE n == (a + 1) % TickMod
  <1>2. n = (IF a = TickMod - 1 THEN 0 ELSE a + 1) /\ n \in 0 .. TickMod - 1
    BY NextTick
  <1> HIDE DEF n
  <1>3. Behind(n, b) = IF n >= b THEN n - b ELSE n - b + TickMod
    BY <1>2, BehindIs
  <1>4. Behind(a, b) = IF a >= b THEN a - b ELSE a - b + TickMod
    BY BehindIs
  <1>5. Behind(n, b) = Behind(a, b) + 1
    BY <1>1, <1>2, <1>3, <1>4
  <1> QED  BY <1>5 DEF n

-----------------------------------------------------------------------------
(* The inductive invariant, part by part.                                  *)

(* Channels and the tasks that registered them belong together.            *)
ChannelInv ==
    /\ \A t \in Task : chan[t] # NoChannel =>
          t \in Registered /\ s_wd[chan[t]].active /\ s_wd[chan[t]].timeout = Timeout
    /\ \A t, u \in Task : chan[t] # NoChannel /\ chan[t] = chan[u] => t = u
    /\ \A c \in Channel : s_wd[c].active => \E t \in Task : chan[t] = c

(* While the watchdog is at work a channel's age is the true one.          *)
AgeInv ==
    /\ \A t \in Task : kicked[t] <= clock
    /\ phase # "reset" => \A t \in Task :
          chan[t] # NoChannel => Age(chan[t]) = clock - kicked[t]

(* How late a check is.                                                    *)
PhaseInv ==
    /\ phase = "start" => i = 0 /\ hung = {}
    /\ phase = "sleep" => clock <= wake + MaxDelay
    /\ phase = "check" => wake <= clock /\ clock <= wake + MaxDelay

(* How long a channel can have been silent: it was found in time by the    *)
(* last check, and by this one if its turn is over.                        *)
SilenceInv ==
    \A t \in Task : chan[t] # NoChannel =>
        /\ phase = "start" => clock - kicked[t] <= Timeout - MaxDelay
        /\ phase \in {"sleep", "check"} =>
              wake - kicked[t] <= Timeout + CheckPeriod + MaxDelay
        /\ phase = "check" /\ chan[t] < i => wake - kicked[t] <= Timeout

(* A task that is alive has kicked early enough for the check to come.     *)
AliveInv ==
    \A t \in Task : chan[t] # NoChannel /\ t \notin hung =>
        /\ phase = "sleep" => clock < wake \/ clock - kicked[t] <= Timeout - MaxDelay
        /\ phase = "check" => wake - kicked[t] <= Timeout - MaxDelay

IInv ==
    /\ TypeOK
    /\ ChannelInv
    /\ AgeInv
    /\ PhaseInv
    /\ SilenceInv
    /\ AliveInv
    /\ NoFalseReset

LEMMA DetectedFromInv == IInv => DetectedInTime
  <1> SUFFICES ASSUME IInv, phase # "reset", NEW t \in Registered, chan[t] # NoChannel
               PROVE  clock - kicked[t] <= DetectionTime
    BY DEF DetectedInTime
  <1>1. t \in Task /\ clock \in Nat /\ kicked[t] \in Nat /\ wake \in Nat
    BY WatchdogAssumption DEF IInv, TypeOK
  <1>2. /\ Timeout \in Nat /\ CheckPeriod \in Nat /\ MaxDelay \in Nat
    BY WatchdogAssumption
  <1> QED
    BY <1>1, <1>2 DEF IInv, TypeOK, SilenceInv, PhaseInv, DetectionTime
-----------------------------------------------------------------------------
LEMMA InitIInv == Init => IInv
  <1> SUFFICES ASSUME Init PROVE IInv
    OBVIOUS
  <1>1. 0 \in 0 .. TickMod - 1 /\ 0 \in 0 .. MaxClock /\ 0 \in 0 .. WD_MAX_CHANNELS
    BY WatchdogAssumption DEF DetectionTime
  <1>2. TypeOK
    BY <1>1 DEF Init, TypeOK
  <1> QED
    BY <1>2 DEF Init, IInv, ChannelInv, AgeInv, PhaseInv, SilenceInv, AliveInv, NoFalseReset

LEMMA RegisterKeepsIInv ==
    ASSUME IInv, NEW t \in Task, WdRegister(t)
    PROVE  IInv'
  <1> USE DEF IInv
  <1>1. PICK c \in Channel :
            /\ ~ s_wd[c].active
            /\ s_wd' = [s_wd EXCEPT ![c] = [active |-> TRUE, last_kick |-> g_ticks,
                                            timeout |-> Timeout]]
            /\ chan' = [chan EXCEPT ![t] = c]
    BY DEF WdRegister, FirstKick
  <1>2. /\ phase = "start" /\ t \in Registered /\ chan[t] = NoChannel
        /\ kicked' = [kicked EXCEPT ![t] = clock]
        /\ UNCHANGED <<g_ticks, hung, wake, i, phase, clock>>
    BY DEF WdRegister
  <1>3. c # NoChannel
    BY WatchdogAssumption DEF Channel, NoChannel
  <1>4. TypeOK'
    BY <1>1, <1>2, WatchdogAssumption DEF TypeOK
  <1>5. ChannelInv'
    <2>1. \A u \in Task : chan'[u] = IF u = t THEN c ELSE chan[u]
      BY <1>1 DEF TypeOK
    <2>2. \A d \in Channel : s_wd'[d] =
              IF d = c THEN [active |-> TRUE, last_kick |-> g_ticks, timeout |-> Timeout]
                       ELSE s_wd[d]
      BY <1>1 DEF TypeOK
    <2>3. \A u \in Task : chan[u] # NoChannel => chan[u] \in Channel /\ chan[u] # c
      BY <1>1 DEF ChannelInv, TypeOK
    <2>4. \A u \in Task : chan'[u] # NoChannel =>
              u \in Registered /\ s_wd'[chan'[u]].active /\ s_wd'[chan'[u]].timeout = Timeout
      BY <1>2, <2>1, <2>2, <2>3 DEF ChannelInv
    <2>5. \A u, v \in Task : chan'[u] # NoChannel /\ chan'[u] = chan'[v] => u = v
      BY <1>3, <2>1, <2>3 DEF ChannelInv
    <2>6. \A d \in Channel : s_wd'[d].active => \E u \in Task : chan'[u] = d
      <3>1. SUFFICES ASSUME NEW d \in Channel, s_wd'[d].active
                     PROVE  \E u \in Task : chan'[u] = d
        OBVIOUS
      <3>2. CASE d = c
        BY <2>1, <3>2
      <3>3. CASE d # c
        <4>1. PICK u \in Task : chan[u] = d
          BY <2>2, <3>1, <3>3 DEF ChannelInv
        <4>2. d # NoChannel
          BY WatchdogAssumption DEF Channel, NoChannel
        <4> QED  BY <1>2, <2>1, <4>1, <4>2
      <3> QED  BY <3>2, <3>3
    <2> QED  BY <2>4, <2>5, <2>6 DEF ChannelInv
  <1>6. Timeout - MaxDelay >= 0 /\ clock - clock = 0 /\ clock <= clock
    BY WatchdogAssumption DEF TypeOK
  <1>7. AgeInv'
    <2>1. Behind(g_ticks, g_ticks) = 0
      BY BehindIs, WatchdogAssumption DEF TypeOK
    <2>2. ASSUME NEW u \in Task, chan'[u] # NoChannel
          PROVE  Age(chan[u])' = clock - kicked'[u]
      <3>1. CASE u = t
        BY <1>1, <1>2, <1>6, <2>1, <3>1 DEF Age, Behind, TypeOK
      <3>2. CASE u # t
        <4>1. chan'[u] = chan[u] /\ chan[u] # c /\ kicked'[u] = kicked[u]
          BY <1>1, <1>2, <2>2, <3>2 DEF ChannelInv, TypeOK
        <4>2. s_wd'[chan[u]] = s_wd[chan[u]]
          BY <1>1, <4>1 DEF TypeOK
        <4>3. Age(chan[u]) = clock - kicked[u]
          BY <1>2, <2>2, <4>1 DEF AgeInv
        <4> QED  BY <1>2, <4>1, <4>2, <4>3 DEF Age
      <3> QED  BY <3>1, <3>2
    <2>3. \A u \in Task : kicked'[u] <= clock
      BY <1>2, <1>6 DEF AgeInv, TypeOK
    <2> QED  BY <1>2, <2>2, <2>3 DEF AgeInv
  <1>8. PhaseInv' /\ AliveInv' /\ NoFalseReset'
    BY <1>2 DEF PhaseInv, AliveInv, NoFalseReset
  <1>9. SilenceInv'
    BY <1>1, <1>2, <1>6 DEF SilenceInv, TypeOK
  <1> QED  BY <1>4, <1>5, <1>7, <1>8, <1>9

LEMMA KickKeepsIInv ==
    ASSUME IInv, NEW t \in Task, WdKick(t)
    PROVE  IInv'
  <1> USE DEF IInv
  <1> DEFINE c == chan[t]
  <1>1. /\ phase = "sleep" /\ c # NoChannel /\ c \in Channel /\ s_wd[c].active
        /\ s_wd' = [s_wd EXCEPT ![c].last_kick = g_ticks]
        /\ kicked' = [kicked EXCEPT ![t] = clock]
        /\ UNCHANGED <<g_ticks, chan, hung, wake, i, phase, clock>>
    BY DEF WdKick, ChannelInv, TypeOK
  <1> HIDE DEF c
  <1>2. TypeOK'
    BY <1>1 DEF TypeOK
  <1>3. ChannelInv'
    BY <1>1 DEF ChannelInv, TypeOK
  <1>4. Timeout - MaxDelay >= 0 /\ clock - clock = 0 /\ clock <= clock
    BY WatchdogAssumption DEF TypeOK
  <1>5. AgeInv'
    <2>1. Behind(g_ticks, g_ticks) = 0
      BY BehindIs, WatchdogAssumption DEF TypeOK
    <2>2. ASSUME NEW u \in Task, chan[u] # NoChannel
          PROVE  Age(chan[u])' = clock - kicked'[u]
      <3>1. CASE u = t
        BY <1>1, <1>4, <2>1, <3>1 DEF Age, Behind, TypeOK, c
      <3>2. CASE u # t
        <4>1. chan[u] # c /\ kicked'[u] = kicked[u] /\ chan[u] \in Channel
          BY <1>1, <2>2, <3>2 DEF ChannelInv, TypeOK, c
        <4>2. s_wd'[chan[u]] = s_wd[chan[u]]
          BY <1>1, <4>1 DEF TypeOK
        <4>3. Age(chan[u]) = clock - kicked[u]
          BY <1>1, <2>2 DEF AgeInv
        <4> QED  BY <1>1, <4>1, <4>2, <4>3 DEF Age
      <3> QED  BY <3>1, <3>2
    <2>3. \A u \in Task : kicked'[u] <= clock
      BY <1>1, <1>4 DEF AgeInv, TypeOK
    <2> QED  BY <1>1, <2>2, <2>3 DEF AgeInv
  <1>6. PhaseInv' /\ NoFalseReset'
    BY <1>1 DEF PhaseInv, NoFalseReset
  <1>7. SilenceInv'
    BY <1>1, WatchdogAssumption DEF SilenceInv, PhaseInv, AgeInv, TypeOK
  <1>8. AliveInv'
    BY <1>1, <1>4 DEF AliveInv, TypeOK
  <1> QED  BY <1>2, <1>3, <1>5, <1>6, <1>7, <1>8
-----------------------------------------------------------------------------
LEMMA HangKeepsIInv ==
    ASSUME IInv, NEW t \in Task, Hang(t)
    PROVE  IInv'
  BY DEF Hang, IInv, TypeOK, ChannelInv, AgeInv, Age, PhaseInv, SilenceInv, AliveInv,
         NoFalseReset

LEMMA TickKeepsIInv ==
    ASSUME IInv, Tick
    PROVE  IInv'
  <1> USE DEF IInv
  <1>1. /\ clock' = clock + 1 /\ clock < MaxClock
        /\ g_ticks' = (g_ticks + 1) % TickMod
        /\ UNCHANGED <<s_wd, chan, hung, wake, i, phase, kicked>>
    BY DEF Tick
  <1>2. /\ clock \in Nat /\ wake \in Nat
        /\ Timeout \in Nat /\ CheckPeriod \in Nat /\ MaxDelay \in Nat /\ MaxClock \in Nat
        /\ TickMod \in Nat /\ MaxDelay <= Timeout
    BY WatchdogAssumption DEF TypeOK
  <1>0. ASSUME NEW t \in Task PROVE kicked[t] \in Nat /\ kicked[t] <= clock
    BY <1>0 DEF TypeOK, AgeInv
  <1>3. TypeOK'
    BY <1>1, <1>2, NextTick DEF TypeOK
  <1>4. ChannelInv'
    BY <1>1 DEF ChannelInv
  <1>5. PhaseInv'
    BY <1>1, <1>2 DEF Tick, PhaseInv
  <1>6. SilenceInv'
    <2>1. ASSUME NEW t \in Task, chan[t] # NoChannel, phase = "start"
          PROVE  clock' - kicked[t] <= Timeout - MaxDelay
      <3>1. t \in Registered \ hung
        BY <2>1 DEF ChannelInv, PhaseInv
      <3>2. clock - kicked[t] < Timeout - MaxDelay
        BY <2>1, <3>1 DEF Tick
      <3> QED  BY <1>1, <1>2, <1>0, <2>1, <3>2
    <2>2. UNCHANGED <<chan, phase, wake, kicked, i>>
      BY <1>1
    <2> QED  BY <2>1, <2>2 DEF SilenceInv
  <1>7. AliveInv'
    <2>1. ASSUME NEW t \in Task, chan[t] # NoChannel, t \notin hung, phase = "sleep"
          PROVE  clock' - kicked[t] <= Timeout - MaxDelay
      <3>1. t \in Registered \ hung
        BY <2>1 DEF ChannelInv
      <3>2. clock - kicked[t] < Timeout - MaxDelay
        BY <2>1, <3>1 DEF Tick
      <3> QED  BY <1>1, <1>2, <1>0, <2>1, <3>2
    <2>2. UNCHANGED <<chan, hung, phase, wake, kicked>>
      BY <1>1
    <2> QED  BY <2>1, <2>2 DEF AliveInv
  <1>8. NoFalseReset'
    <2>1. SUFFICES ASSUME phase = "reset"
                   PROVE  \E t \in Registered \intersect hung : clock' - kicked[t] > Timeout
      BY <1>1 DEF NoFalseReset
    <2>2. PICK t \in Registered \intersect hung : clock - kicked[t] > Timeout
      BY <2>1 DEF NoFalseReset
    <2>3. kicked[t] \in Nat
      BY <1>0 DEF TypeOK
    <2>4. clock' - kicked[t] > Timeout
      BY <1>1, <1>2, <2>2, <2>3
    <2> QED  BY <2>4
  <1>9. AgeInv'
    <2>1. ASSUME NEW t \in Task PROVE kicked[t] <= clock'
      BY <1>1, <1>2, <1>0
    <2>2. ASSUME phase # "reset", NEW t \in Task, chan[t] # NoChannel
          PROVE  Age(chan[t])' = clock' - kicked[t]
      <3> DEFINE last == s_wd[chan[t]].last_kick
      <3>1. last \in 0 .. TickMod - 1 /\ g_ticks \in 0 .. TickMod - 1
        BY <2>2 DEF TypeOK
      <3>2. Behind(g_ticks, last) = clock - kicked[t]
        BY <2>2 DEF AgeInv, Age, Behind
      <3>3. clock + 1 - kicked[t] <= DetectionTime
        <4>1. CASE phase = "start"
          <5>1. clock' - kicked[t] <= Timeout - MaxDelay
            BY <1>1, <1>6, <2>2, <4>1 DEF SilenceInv
          <5> QED  BY <1>1, <1>2, <1>0, <5>1 DEF DetectionTime
        <4>2. CASE phase \in {"sleep", "check"}
          <5>1. clock < wake + MaxDelay
            BY <4>2 DEF Tick
          <5>2. wake - kicked[t] <= Timeout + CheckPeriod + MaxDelay
            BY <2>2, <4>2 DEF SilenceInv
          <5> QED  BY <1>2, <1>0, <5>1, <5>2 DEF DetectionTime
        <4> QED  BY <2>2, <4>1, <4>2 DEF TypeOK
      <3>4. DetectionTime < TickMod /\ DetectionTime \in Nat
        BY WatchdogAssumption DEF DetectionTime
      <3>5. Behind(g_ticks, last) < TickMod - 1
        BY <1>2, <1>0, <3>2, <3>3, <3>4
      <3> HIDE DEF last
      <3>6. Behind((g_ticks + 1) % TickMod, last) = clock - kicked[t] + 1
        BY <3>1, <3>2, <3>5, TickAges
      <3>7. Age(chan[t])' = Behind((g_ticks + 1) % TickMod, last)
        BY <1>1 DEF Age, Behind, last
      <3> QED  BY <1>1, <1>2, <1>0, <3>6, <3>7
    <2>3. UNCHANGED <<chan, kicked, phase>>
      BY <1>1
    <2> QED  BY <2>1, <2>2, <2>3 DEF AgeInv
  <1> QED  BY <1>3, <1>4, <1>5, <1>6, <1>7, <1>8, <1>9
-----------------------------------------------------------------------------
LEMMA CheckKeepsIInv ==
    ASSUME IInv, CheckStep
    PROVE  IInv'
  <1> USE DEF IInv
  <1>1. UNCHANGED <<g_ticks, s_wd, chan, hung, clock, kicked>>
    BY DEF CheckStep, Start, CheckStarts, CheckOne, CheckEnds
  <1>2. /\ clock \in Nat /\ wake \in Nat /\ \A t \in Task : kicked[t] \in Nat
        /\ {Timeout, CheckPeriod, MaxDelay, WD_MAX_CHANNELS} \subseteq Nat
        /\ WD_MAX_CHANNELS # 0 /\ MaxDelay <= Timeout /\ CheckPeriod # 0
    BY WatchdogAssumption DEF TypeOK
  <1>3. ChannelInv'
    BY <1>1 DEF ChannelInv
  <1>4. phase # "reset"
    BY DEF CheckStep, Start, CheckStarts, CheckOne, CheckEnds
  <1>5. AgeInv'
    BY <1>1, <1>4 DEF AgeInv, Age
  <1>6. CASE Start
    BY <1>1, <1>2, <1>3, <1>5, <1>6
       DEF Start, TypeOK, PhaseInv, SilenceInv, AliveInv, NoFalseReset, Channel, NoChannel
  <1>7. CASE CheckStarts
    <2>1. TypeOK' /\ PhaseInv' /\ NoFalseReset'
      BY <1>1, <1>2, <1>7 DEF CheckStarts, ScanStart, TypeOK, PhaseInv, NoFalseReset
    <2>2. SilenceInv'
      BY <1>1, <1>2, <1>7
         DEF CheckStarts, ScanStart, TypeOK, SilenceInv, Channel, NoChannel
    <2>3. AliveInv'
      BY <1>1, <1>2, <1>7 DEF CheckStarts, AliveInv
    <2> QED  BY <1>3, <1>5, <2>1, <2>2, <2>3
  <1>8. CASE CheckOne
    <2>1. phase = "check" /\ i < WD_MAX_CHANNELS /\ i \in Channel /\ UNCHANGED wake
      BY <1>2, <1>8 DEF CheckOne, TypeOK, Channel
    <2>2. CASE s_wd[i].active /\ Age(i) > s_wd[i].timeout
      <3>1. phase' = "reset" /\ UNCHANGED i
        BY <1>8, <2>2 DEF CheckOne
      <3>2. PICK t \in Task : chan[t] = i
        BY <2>1, <2>2 DEF ChannelInv
      <3>3. chan[t] # NoChannel
        BY <1>2, <2>1, <3>2 DEF Channel, NoChannel
      <3>4. t \in Registered /\ clock - kicked[t] > Timeout
        BY <2>2, <3>2, <3>3, <1>4 DEF ChannelInv, AgeInv
      <3>5. t \in hung
        <4>1. SUFFICES ASSUME t \notin hung PROVE FALSE
          OBVIOUS
        <4>2. wake - kicked[t] <= Timeout - MaxDelay /\ clock <= wake + MaxDelay
          BY <2>1, <3>3, <4>1 DEF AliveInv, PhaseInv
        <4> QED  BY <1>2, <3>4, <4>2
      <3> QED
        BY <1>1, <1>3, <1>5, <2>1, <3>1, <3>4, <3>5
           DEF TypeOK, PhaseInv, SilenceInv, AliveInv, NoFalseReset
    <2>3. CASE ~ (s_wd[i].active /\ Age(i) > s_wd[i].timeout)
      <3>1. i' = i + 1 /\ UNCHANGED phase
        BY <1>8, <2>3 DEF CheckOne
      <3>2. TypeOK' /\ PhaseInv' /\ AliveInv' /\ NoFalseReset'
        BY <1>1, <1>2, <2>1, <3>1 DEF TypeOK, PhaseInv, AliveInv, NoFalseReset
      <3>3. ASSUME NEW t \in Task, chan[t] # NoChannel, chan[t] < i + 1
            PROVE  wake - kicked[t] <= Timeout
        <4>1. chan[t] \in Nat /\ i \in Nat
          BY <1>2, <3>3 DEF TypeOK, Channel
        <4>2. CASE chan[t] < i
          BY <2>1, <3>3, <4>2 DEF SilenceInv
        <4>3. CASE chan[t] = i
          <5>1. Age(i) = clock - kicked[t] /\ s_wd[i].active /\ s_wd[i].timeout = Timeout
            BY <1>4, <3>3, <4>3 DEF AgeInv, ChannelInv
          <5>2. clock - kicked[t] <= Timeout
            BY <1>2, <2>3, <5>1
          <5> QED  BY <1>2, <2>1, <5>2 DEF PhaseInv
        <4> QED  BY <3>3, <4>1, <4>2, <4>3
      <3>4. SilenceInv'
        BY <1>1, <2>1, <3>1, <3>3 DEF SilenceInv
      <3> QED  BY <1>3, <1>5, <3>2, <3>4
    <2> QED  BY <2>2, <2>3
  <1>9. CASE CheckEnds
    <2>1. /\ phase = "check" /\ i = WD_MAX_CHANNELS /\ UNCHANGED i
          /\ phase' = "sleep" /\ wake' = clock + CheckPeriod
      BY <1>9 DEF CheckEnds
    <2>2. TypeOK' /\ PhaseInv' /\ NoFalseReset'
      BY <1>1, <1>2, <2>1 DEF TypeOK, PhaseInv, NoFalseReset
    <2>3. ASSUME NEW t \in Task, chan[t] # NoChannel
          PROVE  wake' - kicked[t] <= Timeout + CheckPeriod + MaxDelay
      <3>1. chan[t] < i
        BY <1>2, <2>1, <2>3 DEF TypeOK, Channel
      <3>2. wake - kicked[t] <= Timeout /\ clock <= wake + MaxDelay
        BY <2>1, <2>3, <3>1 DEF SilenceInv, PhaseInv
      <3> QED  BY <1>2, <2>1, <3>2
    <2>4. SilenceInv'
      BY <1>1, <2>1, <2>3 DEF SilenceInv
    <2>5. AliveInv'
      BY <1>1, <1>2, <2>1 DEF AliveInv
    <2> QED  BY <1>3, <1>5, <2>2, <2>4, <2>5
  <1> QED  BY <1>6, <1>7, <1>8, <1>9 DEF CheckStep

LEMMA StepKeepsIInv == IInv /\ [Next]_vars => IInv'
  <1> SUFFICES ASSUME IInv, [Next]_vars PROVE IInv'
    OBVIOUS
  <1>1. CASE UNCHANGED vars
    BY <1>1 DEF vars, IInv, TypeOK, ChannelInv, AgeInv, Age, PhaseInv, SilenceInv, AliveInv,
                NoFalseReset
  <1>2. CASE Idle
    BY <1>1, <1>2 DEF Idle
  <1>3. ASSUME NEW t \in Task, WdRegister(t) \/ WdKick(t) \/ Hang(t) PROVE IInv'
    BY <1>3, RegisterKeepsIInv, KickKeepsIInv, HangKeepsIInv
  <1> QED  BY <1>1, <1>2, <1>3, TickKeepsIInv, CheckKeepsIInv DEF Next

(* Every step keeps the types.                                             *)
THEOREM TypeCorrect == Spec => []TypeOK
  <1>1. IInv => TypeOK
    BY DEF IInv
  <1> QED  BY <1>1, InitIInv, StepKeepsIInv, PTL DEF Spec

(* The satellite is never reset while every registered task kicks in time, *)
(* also across a wrap of the tick counter.                                 *)
THEOREM NoFalseResetHolds == Spec => []NoFalseReset
  <1>1. IInv => NoFalseReset
    BY DEF IInv
  <1> QED  BY <1>1, InitIInv, StepKeepsIInv, PTL DEF Spec

(* A registered task that hangs is detected within its timeout, one period *)
(* and the delays of two checks.                                           *)
THEOREM DetectedInTimeHolds == Spec => []DetectedInTime
  BY DetectedFromInv, InitIInv, StepKeepsIInv, PTL DEF Spec
=============================================================================
