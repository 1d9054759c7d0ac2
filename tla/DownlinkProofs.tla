---------------------------- MODULE DownlinkProofs ---------------------------
(***************************************************************************)
(* Theorems about Downlink, for every size of a packet and of the sequence *)
(* count, and all the lengths and amplitudes of Housekeeping.              *)
(***************************************************************************)
EXTENDS Downlink, SequenceTheorems, WellFoundedInduction, HousekeepingProofs

-----------------------------------------------------------------------------
(* The text of a packet.                                                   *)
Chars == DigitChars \union {"-", " ", "%"} \union Keywords

LEMMA NumberType ==
    ASSUME NEW n \in Int
    PROVE  SnprintfInt(n, 0, " ") \in Seq(Chars)
  <1> DEFINE s == IF n < 0 THEN <<"-">> \o Digits[-n] ELSE Digits[n]
  <1>1. ASSUME NEW k \in Nat PROVE Digits[k] \in Seq(Chars)
    <2>1. Digits[k] \in Seq(DigitChars)
      BY DigitsType
    <2>2. DigitChars \subseteq Chars
      BY DEF Chars
    <2>3. QED BY <2>1, <2>2
  <1>2. "-" \in Chars
    BY DEF Chars
  <1>3. s \in Seq(Chars)
    <2>1. CASE n < 0
      <3>1. -n \in Nat
        BY <2>1
      <3>2. <<"-">> \in Seq(Chars) /\ Digits[-n] \in Seq(Chars)
        BY <1>1, <1>2, <3>1
      <3>3. QED BY <2>1, <3>2, ConcatProperties
    <2>2. CASE ~ (n < 0)
      BY <1>1, <2>2
    <2>3. QED BY <2>1, <2>2
  <1> HIDE DEF s
  <1>4. ~ (Len(s) < 0)
    BY <1>3
  <1>5. SnprintfInt(n, 0, " ") = s
    BY <1>4 DEF SnprintfInt, Padded, s
  <1>6. QED BY <1>3, <1>5

LEMMA ShortSequences ==
    ASSUME NEW S, NEW x \in S, NEW y \in S, NEW z \in S
    PROVE  <<x>> \in Seq(S) /\ <<x, y>> \in Seq(S) /\ <<x, y, z>> \in Seq(S)
  OBVIOUS

LEMMA TextType == HkTypeOK => Text \in Seq(Chars)
  <1> SUFFICES ASSUME HkTypeOK PROVE Text \in Seq(Chars)
    OBVIOUS
  <1> DEFINE a == SnprintfInt(g_eps.battery_pct, 0, " ")
             b == SnprintfInt(g_tlm.lat_cdeg, 0, " ")
             c == SnprintfInt(g_tlm.lon_cdeg, 0, " ")
             d == SnprintfInt(g_adcs.roll_mdeg, 0, " ")
  <1>1. /\ g_eps.battery_pct \in Int /\ g_tlm.lat_cdeg \in Int
        /\ g_tlm.lon_cdeg \in Int /\ g_adcs.roll_mdeg \in Int
    BY Constants DEF HkTypeOK
  <1>2. a \in Seq(Chars) /\ b \in Seq(Chars) /\ c \in Seq(Chars) /\ d \in Seq(Chars)
    BY <1>1, NumberType
  <1>3. {"BAT=", "LAT=", "LON=", "ROLL=", "%", " "} \subseteq Chars
    BY DEF Chars, Keywords
  <1> DEFINE p == <<"BAT=">>
             q == <<"%", " ", "LAT=">>
             r == <<" ", "LON=">>
             t == <<" ", "ROLL=">>
  <1>4. p \in Seq(Chars) /\ q \in Seq(Chars) /\ r \in Seq(Chars) /\ t \in Seq(Chars)
    <2>1. /\ "BAT=" \in Chars /\ "LAT=" \in Chars /\ "LON=" \in Chars /\ "ROLL=" \in Chars
          /\ "%" \in Chars /\ " " \in Chars
      BY <1>3
    <2>2. QED BY <2>1, ShortSequences
  <1>5. Text = p \o a \o q \o b \o r \o c \o t \o d
    BY DEF Text
  <1> HIDE DEF a, b, c, d, p, q, r, t
  <1>6. \A x, y \in Seq(Chars) : x \o y \in Seq(Chars)
    BY ConcatProperties
  <1>7. p \o a \in Seq(Chars)
    BY <1>2, <1>4, <1>6
  <1>8. p \o a \o q \in Seq(Chars)
    BY <1>4, <1>6, <1>7
  <1>9. p \o a \o q \o b \in Seq(Chars)
    BY <1>2, <1>6, <1>8
  <1>10. p \o a \o q \o b \o r \in Seq(Chars)
    BY <1>4, <1>6, <1>9
  <1>11. p \o a \o q \o b \o r \o c \in Seq(Chars)
    BY <1>2, <1>6, <1>10
  <1>12. p \o a \o q \o b \o r \o c \o t \in Seq(Chars)
    BY <1>4, <1>6, <1>11
  <1>13. QED BY <1>2, <1>5, <1>6, <1>12

-----------------------------------------------------------------------------
(* The packet.  Its first byte tells what the header holds, its length     *)
(* field how much is sent; data and trailer never reach beyond it.         *)
LEMMA Joined ==
    ASSUME NEW S, NEW h \in Seq(S), NEW d \in Seq(S), NEW c \in Seq(S), Len(h) > 0
    PROVE  /\ h \o d \o c \in Seq(S)
           /\ Len(h \o d \o c) = Len(h) + Len(d) + Len(c)
           /\ (h \o d \o c)[1] = h[1]
           /\ \A k \in 1 .. Len(d) : (h \o d \o c)[Len(h) + k] = d[k]
  <1> DEFINE u == h \o d
  <1>1. u \in Seq(S) /\ Len(u) = Len(h) + Len(d) /\ Len(h) \in Nat /\ Len(d) \in Nat
    BY ConcatProperties
  <1>2. u[1] = h[1]
    OBVIOUS
  <1>3. \A j \in 1 .. Len(h) + Len(d) : u[j] = IF j <= Len(h) THEN h[j] ELSE d[j - Len(h)]
    BY ConcatProperties
  <1> HIDE DEF u
  <1>4. /\ u \o c \in Seq(S) /\ Len(u \o c) = Len(u) + Len(c)
        /\ \A j \in 1 .. Len(u) + Len(c) :
              (u \o c)[j] = IF j <= Len(u) THEN u[j] ELSE c[j - Len(u)]
    <2>1. u \in Seq(S) /\ c \in Seq(S)
      BY <1>1
    <2>2. QED BY ONLY <2>1, ConcatProperties
  <1>5. (u \o c)[1] = u[1]
    BY <1>1
  <1>6. ASSUME NEW k \in 1 .. Len(d) PROVE (u \o c)[Len(h) + k] = d[k]
    <2> DEFINE j == Len(h) + k
    <2>1. /\ j \in 1 .. Len(h) + Len(d) /\ ~ (j <= Len(h)) /\ j - Len(h) = k
          /\ j <= Len(u) /\ j \in 1 .. Len(u) + Len(c)
      BY <1>1
    <2> HIDE DEF j
    <2>2. (u \o c)[j] = u[j] /\ u[j] = d[k]
      BY <1>3, <1>4, <2>1
    <2>3. QED BY <2>2 DEF j
  <1>7. QED BY <1>1, <1>2, <1>4, <1>5, <1>6 DEF u

LEMMA PacketShape ==
    ASSUME NEW payload \in Seq(Chars), NEW count, NEW coarse
    PROVE  LET pkt == Build(count, coarse, payload) IN
           /\ Len(Sent(pkt)) \in 16 .. 16 + MAX_DATA
           /\ SeqCountOf(pkt) = count
           /\ LenOf(Sent(pkt)) = Len(Sent(pkt)) - 7
           /\ CoarseOf(Sent(pkt)) = coarse
           /\ Len(payload) <= MAX_DATA =>
                /\ Len(Sent(pkt)) = 16 + Len(payload)
                /\ \A k \in 1 .. Len(payload) : Sent(pkt)[14 + k] = <<"text", payload[k]>>
  <1> DEFINE n == IF Len(payload) > MAX_DATA THEN MAX_DATA ELSE Len(payload)
             h == Header(count, DataLength(n), coarse)
             d == [k \in 1 .. MAX_DATA |-> IF k <= n THEN <<"text", payload[k]>>
                                                   ELSE <<"stack", k>>]
             c == Crc16(h \o SubSeq(d, 1, n))
             S == {h[k] : k \in 1 .. 14} \union {d[k] : k \in 1 .. MAX_DATA}
                     \union {c[k] : k \in 1 .. 2}
             pkt == h \o d \o c
  <1>1. MAX_DATA \in Nat /\ n \in 0 .. MAX_DATA
    BY DownlinkAssumption
  <1>2. Build(count, coarse, payload) = pkt
    BY DEF Build
  <1>3. h \in Seq(S) /\ Len(h) = 14
    <2>1. h = [k \in 1 .. 14 |-> <<"header", k, count, DataLength(n), coarse>>]
      BY DEF Header
    <2>2. \A k \in 1 .. 14 : h[k] \in S
      OBVIOUS
    <2> HIDE DEF S, n
    <2>3. QED BY <2>1, <2>2
  <1>4. d \in Seq(S) /\ Len(d) = MAX_DATA
    <2>1. \A k \in 1 .. MAX_DATA : d[k] \in S
      OBVIOUS
    <2> HIDE DEF S, n
    <2>2. QED BY <1>1, <2>1
  <1>5. c \in Seq(S) /\ Len(c) = 2
    <2>1. c[1] \in S /\ c[2] \in S
      OBVIOUS
    <2>2. \E x, y : c = <<x, y>>
      BY DEF Crc16
    <2> HIDE DEF S, c
    <2>3. PICK x, y : c = <<x, y>>
      BY <2>2
    <2>4. x \in S /\ y \in S
      BY <2>1, <2>3
    <2>5. <<x, y>> \in Seq(S) /\ Len(<<x, y>>) = 2
      BY <2>4
    <2>6. QED BY <2>3, <2>5
  <1>6. h[1] = <<"header", 1, count, DataLength(n), coarse>>
    BY DEF Header
  <1>7. DataLength(n) = 9 + n
    BY <1>1 DEF DataLength
  <1>7a. \A k \in 1 .. n : d[k] = <<"text", payload[k]>>
    BY <1>1
  <1>7b. Len(payload) <= MAX_DATA => n = Len(payload)
    BY <1>1
  <1> HIDE DEF n, h, d, c, S
  <1>8. /\ pkt \in Seq(S) /\ Len(pkt) = 16 + MAX_DATA /\ pkt[1] = h[1]
        /\ \A k \in 1 .. MAX_DATA : pkt[14 + k] = d[k]
    <2>1. Len(h) > 0 /\ 14 + MAX_DATA + 2 = 16 + MAX_DATA
      BY <1>1, <1>3
    <2>2. /\ h \o d \o c \in Seq(S) /\ (h \o d \o c)[1] = h[1]
          /\ Len(h \o d \o c) = Len(h) + Len(d) + Len(c)
          /\ \A k \in 1 .. Len(d) : (h \o d \o c)[Len(h) + k] = d[k]
      <3>1. \A x, y, z \in Seq(S) : Len(x) > 0 =>
               /\ x \o y \o z \in Seq(S) /\ (x \o y \o z)[1] = x[1]
               /\ Len(x \o y \o z) = Len(x) + Len(y) + Len(z)
               /\ \A k \in 1 .. Len(y) : (x \o y \o z)[Len(x) + k] = y[k]
        BY Joined
      <3>2. h \in Seq(S) /\ d \in Seq(S) /\ c \in Seq(S)
        BY <1>3, <1>4, <1>5
      <3>3. QED BY <2>1, <3>1, <3>2
    <2>3. Len(h) + Len(d) + Len(c) = 14 + MAX_DATA + 2
      BY <1>3, <1>4, <1>5
    <2>4. QED BY <1>3, <1>4, <2>1, <2>2, <2>3
  <1> HIDE DEF pkt
  <1>9. SeqCountOf(pkt) = count /\ LenOf(pkt) = 9 + n
    BY <1>6, <1>7, <1>8 DEF SeqCountOf, LenOf
  <1>10. Sent(pkt) = SubSeq(pkt, 1, 16 + n)
    <2>1. 6 + (9 + n) + 1 = 16 + n
      BY <1>1
    <2>2. QED BY <1>9, <2>1 DEF Sent, PacketLen
  <1>11. /\ Len(Sent(pkt)) = 16 + n /\ Sent(pkt)[1] = pkt[1]
         /\ \A k \in 1 .. 16 + n : Sent(pkt)[k] = pkt[k]
    <2>1. 16 + n \in Int /\ 16 + n <= Len(pkt) /\ 1 <= 16 + n /\ (16 + n) - 1 + 1 = 16 + n
      BY <1>1, <1>8
    <2> DEFINE m == 16 + n
    <2>2. \A i \in 1 .. m : pkt[i] \in S
      BY <1>8, <2>1
    <2> HIDE DEF m
    <2>3. /\ Len(SubSeq(pkt, 1, m)) = m
          /\ SubSeq(pkt, 1, m)[1] = pkt[1]
          /\ \A k \in 1 .. m : SubSeq(pkt, 1, m)[k] = pkt[k]
      <3>1. m \in Int /\ 1 <= m /\ m - 1 + 1 = m
        BY <2>1 DEF m
      <3>2. /\ Len(SubSeq(pkt, 1, m)) = IF 1 <= m THEN m - 1 + 1 ELSE 0
            /\ \A i \in 1 .. m - 1 + 1 : SubSeq(pkt, 1, m)[i] = pkt[1 + i - 1]
        BY <2>2, <3>1, SubSeqProperties
      <3>3. 1 \in 1 .. m - 1 + 1 /\ 1 + 1 - 1 = 1
        BY <3>1
      <3>4. SubSeq(pkt, 1, m)[1] = pkt[1 + 1 - 1]
        BY <3>2, <3>3
      <3>5. \A k \in 1 .. m : SubSeq(pkt, 1, m)[k] = pkt[k]
        <4> SUFFICES ASSUME NEW k \in 1 .. m PROVE SubSeq(pkt, 1, m)[k] = pkt[k]
          OBVIOUS
        <4>1. k \in 1 .. m - 1 + 1 /\ 1 + k - 1 = k
          BY <3>1
        <4>2. QED BY <3>2, <4>1
      <3>6. QED BY <3>1, <3>2, <3>3, <3>4, <3>5
    <2>4. QED BY <1>10, <2>3 DEF m
  <1>12. LenOf(Sent(pkt)) = 9 + n /\ CoarseOf(Sent(pkt)) = coarse
    BY <1>6, <1>7, <1>8, <1>11 DEF LenOf, CoarseOf
  <1>13. 16 + n \in 16 .. 16 + MAX_DATA /\ 9 + n = (16 + n) - 7
    BY <1>1
  <1>14. ASSUME NEW k \in 1 .. n PROVE Sent(pkt)[14 + k] = <<"text", payload[k]>>
    <2>1. 14 + k \in 1 .. 16 + n /\ k \in 1 .. MAX_DATA
      BY <1>1
    <2>2. Sent(pkt)[14 + k] = pkt[14 + k] /\ pkt[14 + k] = d[k]
      BY <1>8, <1>11, <2>1
    <2>3. QED BY <1>7a, <2>2
  <1>15. QED BY <1>2, <1>7b, <1>9, <1>11, <1>12, <1>13, <1>14

-----------------------------------------------------------------------------
(* The ground station.  A number of the text consists of characters that   *)
(* end no field, and is read as what it was made from.                     *)
NumberChars == DigitChars \union {"-"}
Stops       == Keywords \union {"%", " "}

LEMMA NumbersHaveNoStops == NumberChars \intersect Stops = {}
  BY DigitsNamed DEF NumberChars, Stops, Keywords

(* Numbers below b have at most w digits.                                  *)
DigitsWithin(b, w) == \A n \in Nat : n < b => Len(Digits[n]) <= w

LEMMA LongerDigits ==
    ASSUME NEW b \in Nat, NEW w \in Nat, DigitsWithin(b, w), b >= 1
    PROVE  DigitsWithin(10 * b, w + 1)
  <1> SUFFICES ASSUME NEW n \in Nat, n < 10 * b PROVE Len(Digits[n]) <= w + 1
    BY DEF DigitsWithin
  <1>1. Digits[n] = DigitStep(Digits, n)
    BY DigitsEquation
  <1>2. CASE n < 10
    BY <1>1, <1>2 DEF DigitStep
  <1>3. CASE ~ (n < 10)
    <2> DEFINE k == n \div 10
               c == DigitChar[(n % 10) + 1]
    <2>1. k \in Nat /\ k < b
      OBVIOUS
    <2>2. Digits[n] = Append(Digits[k], c)
      BY <1>1, <1>3 DEF DigitStep
    <2> HIDE DEF k, c
    <2>3. Digits[k] \in Seq(DigitChars) /\ Len(Digits[k]) <= w
      BY <2>1, DigitsType DEF DigitsWithin
    <2>4. Len(Digits[n]) = Len(Digits[k]) + 1
      BY <2>2, <2>3
    <2>5. QED BY <2>3, <2>4
  <1>4. QED BY <1>2, <1>3

Limit == 100000

LEMMA FiveDigits == DigitsWithin(Limit, 5)
  <1>1. DigitsWithin(10, 1)
    BY DigitsEquation DEF DigitStep, DigitsWithin
  <1>2. DigitsWithin(100, 2)
    <2>1. 10 * 10 = 100 /\ 1 + 1 = 2
      OBVIOUS
    <2>2. DigitsWithin(10 * 10, 1 + 1)
      BY <1>1, LongerDigits
    <2>3. QED BY <2>1, <2>2
  <1>3. DigitsWithin(1000, 3)
    <2>1. 10 * 100 = 1000 /\ 2 + 1 = 3
      OBVIOUS
    <2>2. DigitsWithin(10 * 100, 2 + 1)
      BY <1>2, LongerDigits
    <2>3. QED BY <2>1, <2>2
  <1>4. DigitsWithin(10000, 4)
    <2>1. 10 * 1000 = 10000 /\ 3 + 1 = 4
      OBVIOUS
    <2>2. DigitsWithin(10 * 1000, 3 + 1)
      BY <1>3, LongerDigits
    <2>3. QED BY <2>1, <2>2
  <1>5. DigitsWithin(100000, 5)
    <2>1. 10 * 10000 = 100000 /\ 4 + 1 = 5
      OBVIOUS
    <2>2. DigitsWithin(10 * 10000, 4 + 1)
      BY <1>4, LongerDigits
    <2>3. QED BY <2>1, <2>2
  <1>6. QED BY <1>5 DEF Limit

LEMMA NumberText ==
    ASSUME NEW n \in Int
    PROVE  LET s == SnprintfInt(n, 0, " ") IN
           /\ s \in Seq(NumberChars) /\ Len(s) >= 1
           /\ IsNumber(s) /\ IntOf(s) = n
           /\ Len(s) <= Len(Digits[Magnitude(n)]) + 1
  <1> DEFINE m == IF n < 0 THEN -n ELSE n
             d == Digits[m]
             t == <<"-">> \o d
             s == IF n < 0 THEN t ELSE d
  <1>1. m \in Nat
    OBVIOUS
  <1>2. /\ d \in Seq(DigitChars) /\ Len(d) >= 1 /\ ReadsAs(d, m)
    <2> HIDE DEF m
    <2>1. QED BY <1>1, DigitsType, DigitsNotEmpty, DigitsRead
  <1>3. \A k \in DOMAIN d : Contains(DigitChar, d[k])
    <2> SUFFICES ASSUME NEW k \in DOMAIN d PROVE Contains(DigitChar, d[k])
      OBVIOUS
    <2>1. d[k] \in DigitChars
      <3> HIDE DEF d
      <3>1. QED BY <1>2
    <2>2. PICK j \in 1 .. 10 : DigitChar[j] = d[k]
      BY <2>1 DEF DigitChars
    <2>3. Len(DigitChar) = 10
      BY DEF DigitChar
    <2>4. QED BY <2>2, <2>3 DEF Contains
  <1>4. IntOf(d) = m /\ IntOf(t) = -m
    <2> HIDE DEF m, d
    <2>1. QED BY <1>1, <1>2, SignIsRead
  <1>5. m = (IF n < 0 THEN -n ELSE n)
    OBVIOUS
  <1> HIDE DEF m, d
  <1>6. /\ Len(t) = Len(d) + 1 /\ t[1] = "-" /\ Tail(t) = d
        /\ t \in Seq(NumberChars) /\ d \in Seq(NumberChars)
    <2>1. <<"-">> \in Seq(NumberChars) /\ d \in Seq(NumberChars)
      BY <1>2 DEF NumberChars
    <2>2. t \in Seq(NumberChars)
      BY <2>1, ConcatProperties
    <2>3. QED BY <1>2, <2>1, <2>2
  <1> HIDE DEF t
  <1>7. d # <<>> /\ d[1] # "-" /\ t # <<>>
    <2>1. d[1] \in DigitChars
      BY <1>2, ElementOfSeq
    <2>2. d # <<>> /\ t # <<>>
      BY <1>2, <1>6
    <2>3. "-" \notin DigitChars
      BY DigitsAreNoSigns
    <2>4. QED BY <2>1, <2>2, <2>3
  <1>8. /\ s \in Seq(NumberChars) /\ Len(s) >= 1 /\ IsNumber(s) /\ IntOf(s) = n
        /\ Len(s) <= Len(d) + 1
    <2>1. CASE n < 0
      <3>1. s = t
        BY <2>1
      <3> HIDE DEF s
      <3>2. IsNumber(s)
        BY <1>3, <1>6, <1>7, <3>1 DEF IsNumber
      <3>3. Len(s) >= 1 /\ Len(s) <= Len(d) + 1
        BY <1>2, <1>6, <3>1
      <3>4. s \in Seq(NumberChars) /\ IntOf(s) = n
        BY <1>4, <1>5, <1>6, <2>1, <3>1
      <3>5. QED BY <3>2, <3>3, <3>4
    <2>2. CASE ~ (n < 0)
      <3>1. s = d
        BY <2>2
      <3> HIDE DEF s
      <3>2. IsNumber(s)
        BY <1>3, <1>7, <3>1 DEF IsNumber
      <3>3. Len(s) >= 1 /\ Len(s) <= Len(d) + 1
        BY <1>2, <3>1
      <3>4. s \in Seq(NumberChars) /\ IntOf(s) = n
        BY <1>4, <1>5, <1>6, <2>2, <3>1
      <3>5. QED BY <3>2, <3>3, <3>4
    <2> HIDE DEF s
    <2>3. QED BY <2>1, <2>2
  <1>9. SnprintfInt(n, 0, " ") = Padded(s, 0, " ")
    BY DEF SnprintfInt, t, d, m
  <1> HIDE DEF s
  <1>10. Padded(s, 0, " ") = s
    <2>1. ~ (Len(s) < 0)
      BY <1>8
    <2>2. QED BY <2>1 DEF Padded
  <1>11. SnprintfInt(n, 0, " ") = s
    BY <1>9, <1>10
  <1>12. d = Digits[Magnitude(n)]
    BY DEF d, m, Magnitude
  <1>13. QED BY <1>8, <1>11, <1>12

LEMMA ShortNumber ==
    ASSUME NEW n \in Int, NEW b \in Nat, NEW w \in Nat, Magnitude(n) < b, DigitsWithin(b, w)
    PROVE  Len(SnprintfInt(n, 0, " ")) <= w + 1
  <1> DEFINE m == Magnitude(n)
             d == Digits[m]
             s == SnprintfInt(n, 0, " ")
  <1>1. m \in Nat /\ m < b
    BY DEF Magnitude
  <1> HIDE DEF m
  <1>2. Len(d) <= w /\ d \in Seq(DigitChars)
    BY <1>1, DigitsType DEF DigitsWithin
  <1>3. s \in Seq(NumberChars) /\ Len(s) <= Len(d) + 1
    BY NumberText DEF m
  <1> HIDE DEF d, s
  <1>4. Len(s) <= w + 1
    BY <1>2, <1>3
  <1>5. QED BY <1>4 DEF s

(* A field is found by its keyword if that occurs but once.                *)
FoundAt(s, i, key, keys, v) ==
    /\ i \in 1 .. Len(s) /\ s[i] = key
    /\ \A k \in 1 .. Len(s) : s[k] = key => k = i
    /\ i + Len(v) <= Len(s)
    /\ \A k \in 1 .. Len(v) : s[i + k] = v[k] /\ v[k] \notin keys
    /\ i + Len(v) < Len(s) => s[i + Len(v) + 1] \in keys

LEMMA FieldFound ==
    ASSUME NEW T, NEW s \in Seq(T), NEW v \in Seq(T), NEW i, NEW key, NEW keys,
           FoundAt(s, i, key, keys, v)
    PROVE  FieldAfter(s, key, keys) = v
  <1> USE DEF FoundAt
  <1> DEFINE from == CHOOSE k \in DOMAIN s : s[k] = key
             stop == {k \in from + 1 .. Len(s) : s[k] \in keys} \union {Len(s) + 1}
             end  == CHOOSE k \in stop : \A j \in stop : k <= j
             n    == Len(v)
             e    == i + n + 1
  <1>1. n \in Nat /\ Len(s) \in Nat /\ DOMAIN s = 1 .. Len(s) /\ i \in Nat
    BY LenProperties
  <1>2. from = i
    BY <1>1
  <1>3. FieldAfter(s, key, keys) = SubSeq(s, from + 1, end - 1)
    BY DEF FieldAfter
  <1> HIDE DEF from
  <1>4. e \in stop
    <2>1. CASE i + n < Len(s)
      <3>1. e \in from + 1 .. Len(s)
        BY <1>1, <1>2, <2>1
      <3>2. s[e] \in keys
        BY <2>1
      <3>3. QED BY <3>1, <3>2, Zenon
    <2>2. CASE ~ (i + n < Len(s))
      <3>1. i + n <= Len(s)
        OBVIOUS
      <3>2. e = Len(s) + 1
        BY ONLY <1>1, <2>2, <3>1
      <3>3. QED BY <3>2, Zenon
    <2>3. QED BY <2>1, <2>2
  <1>5. ASSUME NEW j \in stop PROVE e <= j /\ j \in Int
    <2>1. CASE j = Len(s) + 1
      BY <1>1, <2>1
    <2>2. CASE j \in from + 1 .. Len(s) /\ s[j] \in keys
      <3>1. j \in Int /\ i + 1 <= j
        BY <1>1, <1>2, <2>2
      <3>2. ~ (j <= i + n)
        <4> SUFFICES ASSUME j <= i + n PROVE FALSE
          OBVIOUS
        <4> DEFINE k == j - i
        <4>1. k \in 1 .. Len(v) /\ i + k = j
          BY <1>1, <3>1
        <4> HIDE DEF k
        <4>2. s[i + k] = v[k] /\ v[k] \notin keys
          BY <4>1
        <4>3. QED BY <2>2, <4>1, <4>2
      <3>3. QED BY <1>1, <3>1, <3>2
    <2>3. QED BY <2>1, <2>2
  <1> HIDE DEF stop
  <1>6. end = e
    <2>1. \E k \in stop : \A j \in stop : k <= j
      BY <1>4, <1>5
    <2>2. end \in stop /\ \A j \in stop : end <= j
      BY <2>1
    <2>3. end <= e /\ e <= end /\ end \in Int /\ e \in Int
      BY <1>1, <1>4, <1>5, <2>2
    <2> HIDE DEF end, e
    <2>4. QED BY <2>3
  <1> HIDE DEF end
  <1>7. from + 1 = i + 1 /\ end - 1 = i + n
    BY <1>1, <1>2, <1>6
  <1>8. SubSeq(s, i + 1, i + n) = v
    <2> DEFINE a == i + 1
               b == i + n
    <2>1. a \in Int /\ b \in Int /\ 1 <= a /\ b <= Len(s) /\ b - a + 1 = n
          /\ (a <= b <=> n > 0)
      BY <1>1
    <2>2. \A k \in 1 .. n : a + k - 1 = i + k
      BY <1>1
    <2> HIDE DEF a, b
    <2>3. \A k \in a .. b : s[k] \in T
      <3> SUFFICES ASSUME NEW k \in a .. b PROVE s[k] \in T
        OBVIOUS
      <3>1. k \in 1 .. Len(s)
        BY <1>1, <2>1
      <3>2. QED BY <3>1, ElementOfSeq
    <2>4. /\ SubSeq(s, a, b) \in Seq(T)
          /\ Len(SubSeq(s, a, b)) = IF a <= b THEN b - a + 1 ELSE 0
          /\ \A k \in 1 .. b - a + 1 : SubSeq(s, a, b)[k] = s[a + k - 1]
      BY <2>1, <2>3, SubSeqProperties
    <2>5. Len(SubSeq(s, a, b)) = Len(v)
      BY <1>1, <2>1, <2>4
    <2>6. \A k \in 1 .. n : SubSeq(s, a, b)[k] = v[k]
      BY <2>1, <2>2, <2>4
    <2>7. SubSeq(s, a, b) = v
      BY <2>4, <2>5, <2>6, SeqEqual
    <2>8. QED BY <2>7 DEF a, b
  <1>9. QED BY <1>3, <1>7, <1>8

(* The text of cmd_downlink around any four numbers.                       *)
Line(a, b, c, d) ==
    <<"BAT=">> \o a \o <<"%", " ", "LAT=">> \o b \o <<" ", "LON=">> \o c \o <<" ", "ROLL=">> \o d

LEMMA Extended ==
    ASSUME NEW T, NEW x \in Seq(T), NEW y \in Seq(T)
    PROVE  /\ x \o y \in Seq(T) /\ Len(x \o y) = Len(x) + Len(y)
           /\ \A k \in 1 .. Len(x) : (x \o y)[k] = x[k]
           /\ \A k \in 1 .. Len(y) : (x \o y)[Len(x) + k] = y[k]
  <1> DEFINE z == x \o y
  <1>1. Len(x) \in Nat /\ Len(y) \in Nat
    OBVIOUS
  <1>2. /\ z \in Seq(T) /\ Len(z) = Len(x) + Len(y)
        /\ \A k \in 1 .. Len(x) + Len(y) : z[k] = IF k <= Len(x) THEN x[k] ELSE y[k - Len(x)]
    BY ConcatProperties
  <1> HIDE DEF z
  <1>3. \A k \in 1 .. Len(x) : z[k] = x[k]
    BY <1>1, <1>2
  <1>4. ASSUME NEW k \in 1 .. Len(y) PROVE z[Len(x) + k] = y[k]
    <2> DEFINE j == Len(x) + k
    <2>1. j \in 1 .. Len(x) + Len(y) /\ ~ (j <= Len(x)) /\ j - Len(x) = k
      BY <1>1
    <2> HIDE DEF j
    <2>2. z[j] = y[k]
      BY <1>2, <2>1
    <2>3. QED BY <2>2 DEF j
  <1>5. QED BY <1>2, <1>3, <1>4 DEF z

(* Where everything stands in it.                                          *)
LaidOut(s, a, b, c, d, i, j, k) ==
    /\ i = Len(a) + 4 /\ j = i + Len(b) + 2 /\ k = j + Len(c) + 2
    /\ s \in Seq(Chars) /\ Len(s) = k + Len(d)
    /\ s[1] = "BAT=" /\ s[i] = "LAT=" /\ s[j] = "LON=" /\ s[k] = "ROLL="
    /\ s[Len(a) + 2] = "%" /\ s[Len(a) + 3] = " "
    /\ s[i + Len(b) + 1] = " " /\ s[j + Len(c) + 1] = " "
    /\ \A n \in 1 .. Len(a) : s[1 + n] = a[n]
    /\ \A n \in 1 .. Len(b) : s[i + n] = b[n]
    /\ \A n \in 1 .. Len(c) : s[j + n] = c[n]
    /\ \A n \in 1 .. Len(d) : s[k + n] = d[n]

LEMMA LineLayout ==
    ASSUME NEW a \in Seq(NumberChars), NEW b \in Seq(NumberChars),
           NEW c \in Seq(NumberChars), NEW d \in Seq(NumberChars)
    PROVE  \E i, j, k \in Nat : LaidOut(Line(a, b, c, d), a, b, c, d, i, j, k)
  <1> DEFINE p == <<"BAT=">>
             q == <<"%", " ", "LAT=">>
             r == <<" ", "LON=">>
             t == <<" ", "ROLL=">>
             i == Len(a) + 4
             j == i + Len(b) + 2
             k == j + Len(c) + 2
             x1 == p \o a
             x2 == x1 \o q
             x3 == x2 \o b
             x4 == x3 \o r
             x5 == x4 \o c
             x6 == x5 \o t
             s  == x6 \o d
  <1>1. a \in Seq(Chars) /\ b \in Seq(Chars) /\ c \in Seq(Chars) /\ d \in Seq(Chars)
    <2>1. NumberChars \subseteq Chars
      BY DEF NumberChars, Chars
    <2>2. QED BY <2>1, SeqMonotonic
  <1>2. /\ p \in Seq(Chars) /\ Len(p) = 1 /\ p[1] = "BAT="
        /\ q \in Seq(Chars) /\ Len(q) = 3 /\ q[1] = "%" /\ q[2] = " " /\ q[3] = "LAT="
        /\ r \in Seq(Chars) /\ Len(r) = 2 /\ r[1] = " " /\ r[2] = "LON="
        /\ t \in Seq(Chars) /\ Len(t) = 2 /\ t[1] = " " /\ t[2] = "ROLL="
    <2>1. /\ "BAT=" \in Chars /\ "LAT=" \in Chars /\ "LON=" \in Chars /\ "ROLL=" \in Chars
          /\ "%" \in Chars /\ " " \in Chars
      BY DEF Chars, Keywords
    <2>2. p \in Seq(Chars) /\ q \in Seq(Chars) /\ r \in Seq(Chars) /\ t \in Seq(Chars)
      BY <2>1, ShortSequences
    <2>3. QED BY <2>2
  <1>3. Line(a, b, c, d) = s
    BY DEF Line
  <1>2a. Len(p) = 1 /\ Len(q) = 3 /\ Len(r) = 2 /\ Len(t) = 2
    BY <1>2, Zenon
  <1>4. Len(a) \in Nat /\ Len(b) \in Nat /\ Len(c) \in Nat /\ Len(d) \in Nat
    OBVIOUS
  <1> HIDE DEF p, q, r, t
  <1>5. \A x, y \in Seq(Chars) :
           /\ x \o y \in Seq(Chars) /\ Len(x \o y) = Len(x) + Len(y)
           /\ \A n \in 1 .. Len(x) : (x \o y)[n] = x[n]
           /\ \A n \in 1 .. Len(y) : (x \o y)[Len(x) + n] = y[n]
    BY Extended
  <1>6. /\ x1 \in Seq(Chars) /\ Len(x1) = Len(p) + Len(a)
        /\ \A n \in 1 .. Len(p) : x1[n] = p[n]
        /\ \A n \in 1 .. Len(a) : x1[Len(p) + n] = a[n]
    BY <1>1, <1>2, <1>5
  <1> HIDE DEF x1
  <1>7. /\ x2 \in Seq(Chars) /\ Len(x2) = Len(x1) + Len(q)
        /\ \A n \in 1 .. Len(x1) : x2[n] = x1[n]
        /\ \A n \in 1 .. Len(q) : x2[Len(x1) + n] = q[n]
    BY <1>2, <1>5, <1>6
  <1> HIDE DEF x2
  <1>8. /\ x3 \in Seq(Chars) /\ Len(x3) = Len(x2) + Len(b)
        /\ \A n \in 1 .. Len(x2) : x3[n] = x2[n]
        /\ \A n \in 1 .. Len(b) : x3[Len(x2) + n] = b[n]
    BY <1>1, <1>5, <1>7
  <1> HIDE DEF x3
  <1>9. /\ x4 \in Seq(Chars) /\ Len(x4) = Len(x3) + Len(r)
        /\ \A n \in 1 .. Len(x3) : x4[n] = x3[n]
        /\ \A n \in 1 .. Len(r) : x4[Len(x3) + n] = r[n]
    BY <1>2, <1>5, <1>8
  <1> HIDE DEF x4
  <1>10. /\ x5 \in Seq(Chars) /\ Len(x5) = Len(x4) + Len(c)
         /\ \A n \in 1 .. Len(x4) : x5[n] = x4[n]
         /\ \A n \in 1 .. Len(c) : x5[Len(x4) + n] = c[n]
    BY <1>1, <1>5, <1>9
  <1> HIDE DEF x5
  <1>11. /\ x6 \in Seq(Chars) /\ Len(x6) = Len(x5) + Len(t)
         /\ \A n \in 1 .. Len(x5) : x6[n] = x5[n]
         /\ \A n \in 1 .. Len(t) : x6[Len(x5) + n] = t[n]
    BY <1>2, <1>5, <1>10
  <1> HIDE DEF x6
  <1>12. /\ s \in Seq(Chars) /\ Len(s) = Len(x6) + Len(d)
         /\ \A n \in 1 .. Len(x6) : s[n] = x6[n]
         /\ \A n \in 1 .. Len(d) : s[Len(x6) + n] = d[n]
    BY <1>1, <1>5, <1>11
  <1> HIDE DEF s
  <1>13. /\ Len(x1) = Len(a) + 1 /\ Len(x2) = i /\ Len(x3) = i + Len(b)
         /\ Len(x4) = j /\ Len(x5) = j + Len(c) /\ Len(x6) = k
         /\ i \in Nat /\ j \in Nat /\ k \in Nat
    <2>1. i \in Nat /\ j \in Nat /\ k \in Nat
      BY <1>4
    <2>2. i = Len(a) + 4 /\ j = i + Len(b) + 2 /\ k = j + Len(c) + 2
      OBVIOUS
    <2> HIDE DEF i, j, k
    <2>3. Len(x1) = Len(a) + 1
      BY <1>2a, <1>4, <1>6
    <2>4. Len(x2) = i
      BY <1>2a, <1>4, <1>7, <2>2, <2>3
    <2>5. Len(x3) = i + Len(b)
      BY <1>8, <2>4
    <2>6. Len(x4) = j
      BY <1>2a, <1>4, <1>9, <2>1, <2>2, <2>5
    <2>7. Len(x5) = j + Len(c)
      BY <1>10, <2>6
    <2>8. Len(x6) = k
      BY <1>2a, <1>4, <1>11, <2>1, <2>2, <2>7
    <2>9. QED BY <2>1, <2>3, <2>4, <2>5, <2>6, <2>7, <2>8
  <1>14. i = Len(a) + 4 /\ j = i + Len(b) + 2 /\ k = j + Len(c) + 2
    OBVIOUS
  <1> HIDE DEF i, j, k
  <1>15. \A n \in 1 .. j + Len(c) : s[n] = x5[n]
    BY <1>4, <1>11, <1>12, <1>13, <1>14
  <1>16. \A n \in 1 .. j : s[n] = x4[n]
    BY <1>4, <1>10, <1>13, <1>15
  <1>17. \A n \in 1 .. i + Len(b) : s[n] = x3[n]
    BY <1>4, <1>9, <1>13, <1>14, <1>16
  <1>18. \A n \in 1 .. i : s[n] = x2[n]
    BY <1>4, <1>8, <1>13, <1>17
  <1>19. \A n \in 1 .. Len(a) + 1 : s[n] = x1[n]
    BY <1>4, <1>7, <1>13, <1>14, <1>18
  <1>20. s[1] = "BAT=" /\ \A n \in 1 .. Len(a) : s[1 + n] = a[n]
    <2>1. s[1] = "BAT="
      <3>1. 1 \in 1 .. Len(p) /\ 1 \in 1 .. Len(a) + 1
        BY <1>2a, <1>4
      <3>2. s[1] = x1[1]
        BY <1>19, <3>1
      <3>3. x1[1] = p[1]
        BY <1>6, <3>1
      <3>4. QED BY <1>2, <3>2, <3>3
    <2>2. ASSUME NEW n \in 1 .. Len(a) PROVE s[1 + n] = a[n]
      <3>1. 1 + n \in 1 .. Len(a) + 1
        BY <1>4
      <3>2. x1[1 + n] = a[n]
        BY <1>2, <1>6
      <3>3. QED BY <1>19, <3>1, <3>2
    <2>3. QED BY <2>1, <2>2
  <1>21. s[Len(a) + 2] = "%" /\ s[Len(a) + 3] = " " /\ s[i] = "LAT="
    <2>1. x2[Len(x1) + 1] = "%" /\ x2[Len(x1) + 2] = " " /\ x2[Len(x1) + 3] = "LAT="
      <3>1. 1 \in 1 .. Len(q) /\ 2 \in 1 .. Len(q) /\ 3 \in 1 .. Len(q)
        BY <1>2a
      <3>2. \A n \in 1 .. Len(q) : x2[Len(x1) + n] = q[n]
        BY <1>7
      <3>3. x2[Len(x1) + 1] = q[1] /\ x2[Len(x1) + 2] = q[2] /\ x2[Len(x1) + 3] = q[3]
        BY <3>1, <3>2
      <3>4. QED BY <1>2, <3>3
    <2>2. Len(x1) + 1 = Len(a) + 2 /\ Len(x1) + 2 = Len(a) + 3 /\ Len(x1) + 3 = i
      BY <1>4, <1>13, <1>14
    <2>3. Len(a) + 2 \in 1 .. i /\ Len(a) + 3 \in 1 .. i /\ i \in 1 .. i
      BY <1>4, <1>14
    <2>4. QED BY <1>18, <2>1, <2>2, <2>3
  <1>22. \A n \in 1 .. Len(b) : s[i + n] = b[n]
    <2> SUFFICES ASSUME NEW n \in 1 .. Len(b) PROVE s[i + n] = b[n]
      OBVIOUS
    <2>1. i + n \in 1 .. i + Len(b)
      BY <1>4, <1>13
    <2>2. x3[i + n] = b[n]
      BY <1>8, <1>13
    <2>3. QED BY <1>17, <2>1, <2>2
  <1>23. s[i + Len(b) + 1] = " " /\ s[j] = "LON="
    <2>1. x4[Len(x3) + 1] = " " /\ x4[Len(x3) + 2] = "LON="
      <3>1. 1 \in 1 .. Len(r) /\ 2 \in 1 .. Len(r)
        BY <1>2a
      <3>2. \A n \in 1 .. Len(r) : x4[Len(x3) + n] = r[n]
        BY <1>9
      <3>3. x4[Len(x3) + 1] = r[1] /\ x4[Len(x3) + 2] = r[2]
        BY <3>1, <3>2
      <3>4. QED BY <1>2, <3>3
    <2>2. Len(x3) + 1 = i + Len(b) + 1 /\ Len(x3) + 2 = j
      BY <1>4, <1>13, <1>14
    <2>3. i + Len(b) + 1 \in 1 .. j /\ j \in 1 .. j
      BY <1>4, <1>13, <1>14
    <2>4. QED BY <1>16, <2>1, <2>2, <2>3
  <1>24. \A n \in 1 .. Len(c) : s[j + n] = c[n]
    <2> SUFFICES ASSUME NEW n \in 1 .. Len(c) PROVE s[j + n] = c[n]
      OBVIOUS
    <2>1. j + n \in 1 .. j + Len(c)
      BY <1>4, <1>13
    <2>2. x5[j + n] = c[n]
      BY <1>10, <1>13
    <2>3. QED BY <1>15, <2>1, <2>2
  <1>25. s[j + Len(c) + 1] = " " /\ s[k] = "ROLL="
    <2>1. x6[Len(x5) + 1] = " " /\ x6[Len(x5) + 2] = "ROLL="
      <3>1. 1 \in 1 .. Len(t) /\ 2 \in 1 .. Len(t)
        BY <1>2a
      <3>2. \A n \in 1 .. Len(t) : x6[Len(x5) + n] = t[n]
        BY <1>11
      <3>3. x6[Len(x5) + 1] = t[1] /\ x6[Len(x5) + 2] = t[2]
        BY <3>1, <3>2
      <3>4. QED BY <1>2, <3>3
    <2>2. Len(x5) + 1 = j + Len(c) + 1 /\ Len(x5) + 2 = k
      BY <1>4, <1>13, <1>14
    <2>3. j + Len(c) + 1 \in 1 .. Len(x6) /\ k \in 1 .. Len(x6)
      BY <1>4, <1>13, <1>14
    <2>4. QED BY <1>12, <2>1, <2>2, <2>3
  <1>26. (\A n \in 1 .. Len(d) : s[k + n] = d[n]) /\ s \in Seq(Chars) /\ Len(s) = k + Len(d)
    BY <1>12, <1>13
  <1>27. LaidOut(s, a, b, c, d, i, j, k)
    BY <1>14, <1>20, <1>21, <1>22, <1>23, <1>24, <1>25, <1>26, Zenon DEF LaidOut
  <1>28. QED BY <1>3, <1>13, <1>27, Zenon

LEMMA Before ==
    ASSUME NEW n \in Nat, NEW w \in Nat, 1 <= n, n <= w + 4
    PROVE  n = 1 \/ n - 1 \in 1 .. w \/ n = w + 2 \/ n = w + 3 \/ n = w + 4
  OBVIOUS

LEMMA Between ==
    ASSUME NEW n \in Nat, NEW i \in Nat, NEW w \in Nat, i < n, n <= i + w + 2
    PROVE  n - i \in 1 .. w \/ n = i + w + 1 \/ n = i + w + 2
  OBVIOUS

(* No keyword stands anywhere else, so that each field is found.           *)
LEMMA LineIsRead ==
    ASSUME NEW a \in Seq(NumberChars), NEW b \in Seq(NumberChars),
           NEW c \in Seq(NumberChars), NEW d \in Seq(NumberChars)
    PROVE  LET s == Line(a, b, c, d) IN
           /\ FieldAfter(s, "BAT=", Stops) = a /\ FieldAfter(s, "LAT=", Stops) = b
           /\ FieldAfter(s, "LON=", Stops) = c /\ FieldAfter(s, "ROLL=", Stops) = d
  <1> DEFINE s == Line(a, b, c, d)
  <1>1. PICK i, j, k \in Nat : LaidOut(s, a, b, c, d, i, j, k)
    BY LineLayout
  <1> HIDE DEF s
  <1>2. Len(a) \in Nat /\ Len(b) \in Nat /\ Len(c) \in Nat /\ Len(d) \in Nat
    OBVIOUS
  <1>3. i = Len(a) + 4 /\ j = i + Len(b) + 2 /\ k = j + Len(c) + 2
    BY <1>1, Zenon DEF LaidOut
  <1>4. i \in Nat /\ j \in Nat /\ k \in Nat
    OBVIOUS
  <1>5. Len(s) = k + Len(d) /\ s \in Seq(Chars)
    BY <1>1, Zenon DEF LaidOut
  <1>6. s[1] = "BAT=" /\ s[i] = "LAT=" /\ s[j] = "LON=" /\ s[k] = "ROLL="
    BY <1>1, Zenon DEF LaidOut
  <1>7. /\ s[Len(a) + 2] = "%" /\ s[Len(a) + 3] = " "
        /\ s[i + Len(b) + 1] = " " /\ s[j + Len(c) + 1] = " "
    BY <1>1, Zenon DEF LaidOut
  <1>8. /\ \A n \in 1 .. Len(a) : s[1 + n] = a[n] /\ a[n] \notin Stops
        /\ \A n \in 1 .. Len(b) : s[i + n] = b[n] /\ b[n] \notin Stops
        /\ \A n \in 1 .. Len(c) : s[j + n] = c[n] /\ c[n] \notin Stops
        /\ \A n \in 1 .. Len(d) : s[k + n] = d[n] /\ d[n] \notin Stops
    <2>1. /\ \A n \in 1 .. Len(a) : a[n] \in NumberChars
          /\ \A n \in 1 .. Len(b) : b[n] \in NumberChars
          /\ \A n \in 1 .. Len(c) : c[n] \in NumberChars
          /\ \A n \in 1 .. Len(d) : d[n] \in NumberChars
      BY ElementOfSeq
    <2>2. \A x \in NumberChars : x \notin Stops
      BY NumbersHaveNoStops
    <2>3. QED BY <1>1, <2>1, <2>2, Zenon DEF LaidOut
  <1>9. ASSUME NEW n \in 1 .. Len(s), s[n] \in Keywords
        PROVE  n = 1 \/ n = i \/ n = j \/ n = k
    <2>1. Keywords \subseteq Stops /\ "%" \notin Keywords /\ " " \notin Keywords
      BY DEF Stops, Keywords
    <2>2. n \in Nat /\ 1 <= n /\ n <= k + Len(d)
      BY <1>2, <1>4, <1>5
    <2>3. \/ n = 1 \/ n - 1 \in 1 .. Len(a) \/ n = Len(a) + 2 \/ n = Len(a) + 3
          \/ n = i \/ n - i \in 1 .. Len(b) \/ n = i + Len(b) + 1
          \/ n = j \/ n - j \in 1 .. Len(c) \/ n = j + Len(c) + 1
          \/ n = k \/ n - k \in 1 .. Len(d)
      <3>1. CASE n <= i
        <4>1. n = 1 \/ n - 1 \in 1 .. Len(a) \/ n = Len(a) + 2 \/ n = Len(a) + 3 \/ n = i
          BY <1>2, <1>3, <2>2, <3>1, Before
        <4>2. QED BY <4>1, Zenon
      <3>2. CASE i < n /\ n <= j
        <4>1. n - i \in 1 .. Len(b) \/ n = i + Len(b) + 1 \/ n = j
          BY <1>2, <1>3, <1>4, <2>2, <3>2, Between
        <4>2. QED BY <4>1, Zenon
      <3>3. CASE j < n /\ n <= k
        <4>1. n - j \in 1 .. Len(c) \/ n = j + Len(c) + 1 \/ n = k
          BY <1>2, <1>3, <1>4, <2>2, <3>3, Between
        <4>2. QED BY <4>1, Zenon
      <3>4. CASE k < n
        <4>1. n - k \in 1 .. Len(d)
          BY <1>2, <1>4, <2>2, <3>4
        <4>2. QED BY <4>1, Zenon
      <3>5. n <= i \/ (i < n /\ n <= j) \/ (j < n /\ n <= k) \/ k < n
        BY <1>4, <2>2
      <3>6. QED BY <3>1, <3>2, <3>3, <3>4, <3>5, Zenon
    <2>4. 1 + (n - 1) = n /\ i + (n - i) = n /\ j + (n - j) = n /\ k + (n - k) = n
      BY <1>4, <2>2
    <2>5. ~ (n - 1 \in 1 .. Len(a)) /\ ~ (n - i \in 1 .. Len(b))
      <3>1. n - 1 \in 1 .. Len(a) => s[1 + (n - 1)] \notin Stops
        BY <1>8, Zenon
      <3>2. n - i \in 1 .. Len(b) => s[i + (n - i)] \notin Stops
        BY <1>8, Zenon
      <3>3. QED BY <1>9, <2>1, <2>4, <3>1, <3>2
    <2>6. ~ (n - j \in 1 .. Len(c)) /\ ~ (n - k \in 1 .. Len(d))
      <3>1. n - j \in 1 .. Len(c) => s[j + (n - j)] \notin Stops
        BY <1>8, Zenon
      <3>2. n - k \in 1 .. Len(d) => s[k + (n - k)] \notin Stops
        BY <1>8, Zenon
      <3>3. QED BY <1>9, <2>1, <2>4, <3>1, <3>2
    <2>7. /\ n # Len(a) + 2 /\ n # Len(a) + 3
          /\ n # i + Len(b) + 1 /\ n # j + Len(c) + 1
      BY <1>7, <1>9, <2>1, Zenon
    <2>8. QED BY <2>3, <2>5, <2>6, <2>7, Zenon
  <1>10. /\ \A n \in 1 .. Len(s) : s[n] = "BAT=" => n = 1
         /\ \A n \in 1 .. Len(s) : s[n] = "LAT=" => n = i
         /\ \A n \in 1 .. Len(s) : s[n] = "LON=" => n = j
         /\ \A n \in 1 .. Len(s) : s[n] = "ROLL=" => n = k
    <2>1. /\ "BAT=" \in Keywords /\ "LAT=" \in Keywords
          /\ "LON=" \in Keywords /\ "ROLL=" \in Keywords
      BY DEF Keywords
    <2>2. /\ "BAT=" # "LAT=" /\ "BAT=" # "LON=" /\ "BAT=" # "ROLL="
          /\ "LAT=" # "LON=" /\ "LAT=" # "ROLL=" /\ "LON=" # "ROLL="
      OBVIOUS
    <2>3. ASSUME NEW n \in 1 .. Len(s)
          PROVE  /\ s[n] = "BAT=" => n = 1
                 /\ s[n] = "LAT=" => n = i
                 /\ s[n] = "LON=" => n = j
                 /\ s[n] = "ROLL=" => n = k
      BY <1>6, <1>9, <2>1, <2>2, Zenon
    <2>4. QED BY <2>3, Zenon
  <1>11. "%" \in Stops /\ " " \in Stops
    BY DEF Stops
  <1>12. a \in Seq(Chars) /\ b \in Seq(Chars) /\ c \in Seq(Chars) /\ d \in Seq(Chars)
    <2>1. NumberChars \subseteq Chars
      BY DEF NumberChars, Chars
    <2>2. QED BY <2>1, SeqMonotonic
  <1>13. FieldAfter(s, "BAT=", Stops) = a
    <2>1. 1 \in 1 .. Len(s) /\ 1 + Len(a) <= Len(s) /\ 1 + Len(a) + 1 = Len(a) + 2
      BY <1>2, <1>3, <1>4, <1>5
    <2>2. s[1 + Len(a) + 1] \in Stops
      BY <1>7, <1>11, <2>1, Zenon
    <2>3. FoundAt(s, 1, "BAT=", Stops, a)
      BY <1>6, <1>8, <1>10, <2>1, <2>2, Zenon DEF FoundAt
    <2>4. QED BY <1>5, <1>12, <2>3, FieldFound
  <1>14. FieldAfter(s, "LAT=", Stops) = b
    <2>1. i \in 1 .. Len(s) /\ i + Len(b) <= Len(s)
      BY <1>2, <1>3, <1>4, <1>5
    <2>2. s[i + Len(b) + 1] \in Stops
      BY <1>7, <1>11, Zenon
    <2>3. FoundAt(s, i, "LAT=", Stops, b)
      BY <1>6, <1>8, <1>10, <2>1, <2>2, Zenon DEF FoundAt
    <2>4. QED BY <1>5, <1>12, <2>3, FieldFound
  <1>15. FieldAfter(s, "LON=", Stops) = c
    <2>1. j \in 1 .. Len(s) /\ j + Len(c) <= Len(s)
      BY <1>2, <1>3, <1>4, <1>5
    <2>2. s[j + Len(c) + 1] \in Stops
      BY <1>7, <1>11, Zenon
    <2>3. FoundAt(s, j, "LON=", Stops, c)
      BY <1>6, <1>8, <1>10, <2>1, <2>2, Zenon DEF FoundAt
    <2>4. QED BY <1>5, <1>12, <2>3, FieldFound
  <1>16. FieldAfter(s, "ROLL=", Stops) = d
    <2>1. k \in 1 .. Len(s) /\ k + Len(d) <= Len(s) /\ ~ (k + Len(d) < Len(s))
      BY <1>2, <1>3, <1>4, <1>5
    <2>2. FoundAt(s, k, "ROLL=", Stops, d)
      BY <1>6, <1>8, <1>10, <2>1, Zenon DEF FoundAt
    <2>3. QED BY <1>5, <1>12, <2>2, FieldFound
  <1>17. QED BY <1>13, <1>14, <1>15, <1>16 DEF s

-----------------------------------------------------------------------------
(* The sequence count.                                                     *)
LEMMA RemainderOfSum ==
    ASSUME NEW b \in Nat, b > 0, NEW k \in Int, NEW a \in Int
    PROVE  (b * k + a) % b = a % b
  <1> DEFINE x == b * k + a
             i == x \div b
             j == a \div b
             r == x % b
             s == a % b
  <1>1. x \in Int
    OBVIOUS
  <1>2. /\ i \in Int /\ r \in Int /\ 0 <= r /\ r < b /\ x = b * i + r
        /\ j \in Int /\ s \in Int /\ 0 <= s /\ s < b /\ a = b * j + s
    <2> HIDE DEF x
    <2>1. QED BY <1>1, RemainderBounds
  <1>3. b * i + r = b * k + b * j + s
    BY <1>2
  <1> HIDE DEF i, j, r, s, x
  <1>4. b * (i - k) = b * i - b * k /\ b * ((i - k) - j) = b * (i - k) - b * j
    BY <1>2, Distribute
  <1>5. b * (i - k - j) = s - r
    <2> DEFINE e == b * i
               f == b * k
               g == b * j
    <2>1. e \in Int /\ f \in Int /\ g \in Int /\ e + r = f + g + s
      BY <1>2, <1>3
    <2>2. b * (i - k - j) = e - f - g
      BY <1>4
    <2> HIDE DEF e, f, g
    <2>3. QED BY <1>2, <2>1, <2>2
  <1>6. i - k - j < 1
    <2> SUFFICES ASSUME 1 <= i - k - j PROVE FALSE
      BY <1>2
    <2>1. b * 1 <= b * (i - k - j)
      BY <1>2, Monotonic
    <2>2. QED BY <1>2, <1>5, <2>1
  <1>7. -1 < i - k - j
    <2> SUFFICES ASSUME i - k - j <= -1 PROVE FALSE
      BY <1>2
    <2>1. b * (i - k - j) <= b * (-1)
      BY <1>2, Monotonic
    <2>2. QED BY <1>2, <1>5, <2>1
  <1>8. i - k - j = 0
    BY <1>2, <1>6, <1>7
  <1>9. b * (i - k - j) = 0
    BY <1>8
  <1>10. r = s
    BY <1>2, <1>5, <1>9
  <1>11. QED BY <1>10 DEF r, s, x

(* The 16-bit counter and its 14-bit field advance together, also where    *)
(* either wraps.                                                           *)
LEMMA CountAdvances ==
    ASSUME NEW s \in Nat
    PROVE  /\ s % SeqCounts \in 0 .. SeqCounts - 1
           /\ (s + 1) % (4 * SeqCounts) \in 0 .. 4 * SeqCounts - 1
           /\ ((s + 1) % (4 * SeqCounts)) % SeqCounts = ((s % SeqCounts) + 1) % SeqCounts
  <1> DEFINE b == SeqCounts
             i == s \div b
             x == s % b
             j == (s + 1) \div (4 * b)
             y == (s + 1) % (4 * b)
  <1>1. b \in Nat /\ b > 0
    BY DownlinkAssumption
  <1> HIDE DEF b
  <1>2. i \in Int /\ x \in Int /\ 0 <= x /\ x < b /\ s = b * i + x
    BY <1>1, RemainderBounds
  <1>3. /\ j \in Int /\ y \in Int /\ 0 <= y /\ y < 4 * b /\ s + 1 = (4 * b) * j + y
    <2> DEFINE e == 4 * b
               u == s + 1
    <2>1. e \in Nat /\ e > 0 /\ u \in Int
      BY <1>1
    <2> HIDE DEF e, u
    <2>2. /\ u \div e \in Int /\ u % e \in Int /\ 0 <= u % e /\ u % e < e
          /\ u = e * (u \div e) + (u % e)
      BY <2>1, RemainderBounds
    <2>3. QED BY <2>2 DEF e, u
  <1> HIDE DEF i, x, j, y
  <1>4. (4 * b) * j = b * (4 * j) /\ b * (4 * j - i) = b * (4 * j) - b * i /\ 4 * j - i \in Int
    BY <1>1, <1>2, <1>3, Distribute
  <1>5. x + 1 = b * (4 * j - i) + y
    <2> DEFINE e == b * i
               f == b * (4 * j)
    <2>1. e \in Int /\ f \in Int /\ s = e + x /\ s + 1 = f + y /\ b * (4 * j - i) = f - e
      BY <1>1, <1>2, <1>3, <1>4
    <2> HIDE DEF e, f
    <2>2. QED BY <1>2, <1>3, <2>1
  <1>6. (x + 1) % b = y % b
    <2> DEFINE k == 4 * j - i
    <2>1. k \in Int /\ x + 1 = b * k + y
      BY <1>4, <1>5
    <2> HIDE DEF k
    <2>2. (b * k + y) % b = y % b
      BY <1>1, <1>3, <2>1, RemainderOfSum
    <2>3. QED BY <2>1, <2>2
  <1>7. x \in 0 .. b - 1 /\ y \in 0 .. 4 * b - 1
    BY <1>1, <1>2, <1>3
  <1>8. QED BY <1>6, <1>7 DEF x, y, b


-----------------------------------------------------------------------------
(* The ground has received the last packet's count, and the next one's     *)
(* follows it.                                                             *)
SeqInv ==
    /\ s_seq_count \in 0 .. 4 * SeqCounts - 1
    /\ rx_seq \in -1 .. SeqCounts - 1
    /\ rx_seq # -1 => s_seq_count % SeqCounts = (rx_seq + 1) % SeqCounts

(* As long as a frame is looked at nothing else has happened: its time is  *)
(* now and its structures are the present ones.                            *)
FrameInv ==
    \/ rx = NoFrame
    \/ /\ Len(rx.bytes) \in 16 .. 16 + MAX_DATA
       /\ LenOf(rx.bytes) = Len(rx.bytes) - 7
       /\ CoarseOf(rx.bytes) = g_ticks
       /\ rx.of = <<g_eps, g_adcs, g_tlm>>

DlInv == HkInv /\ SeqInv /\ FrameInv

LEMMA SpecKeepsHouse == Spec => HkSpec
  <1>1. Init => HkInit
    BY DEF Init
  <1>2. [Next]_vars => [HkStep \/ ShellPolls]_hkVars
    BY DEF Next, Other, CmdDownlink, vars
  <1>3. QED BY <1>1, <1>2, PTL DEF Spec, HkSpec

LEMMA CountConstants == SeqCounts \in Nat /\ SeqCounts > 0 /\ MAX_DATA \in Nat
  BY DownlinkAssumption

LEMMA InitDlInv == Init => SeqInv /\ FrameInv
  BY CountConstants DEF Init, SeqInv, FrameInv

LEMMA CmdKeepsInv ==
    ASSUME HkInv, SeqInv, CmdDownlink
    PROVE  SeqInv' /\ FrameInv'
  <1> DEFINE pkt == Build(SeqField, g_ticks, Text)
  <1>1. /\ Len(Sent(pkt)) \in 16 .. 16 + MAX_DATA
        /\ SeqCountOf(pkt) = SeqField
        /\ LenOf(Sent(pkt)) = Len(Sent(pkt)) - 7
        /\ CoarseOf(Sent(pkt)) = g_ticks
    BY TextType, PacketShape DEF HkInv
  <1>2. /\ rx' = [bytes |-> Sent(pkt), of |-> <<g_eps, g_adcs, g_tlm>>]
        /\ rx_seq' = SeqCountOf(pkt)
        /\ s_seq_count' = (s_seq_count + 1) % (4 * SeqCounts)
        /\ UNCHANGED <<g_ticks, g_eps, g_adcs, g_tlm>>
    BY DEF CmdDownlink, hkVars
  <1> HIDE DEF pkt
  <1>3. SeqInv'
    <2>1. s_seq_count \in Nat
      BY CountConstants DEF SeqInv
    <2>2. /\ SeqField \in 0 .. SeqCounts - 1
          /\ s_seq_count' \in 0 .. 4 * SeqCounts - 1
          /\ s_seq_count' % SeqCounts = (SeqField + 1) % SeqCounts
      BY <1>2, <2>1, CountAdvances DEF SeqField
    <2>3. rx_seq' = SeqField
      BY <1>1, <1>2
    <2>4. SeqField \in -1 .. SeqCounts - 1
      BY <2>2, CountConstants
    <2>5. QED BY <2>2, <2>3, <2>4 DEF SeqInv
  <1>4. FrameInv'
    <2>1. rx'.bytes = Sent(pkt) /\ rx'.of = <<g_eps, g_adcs, g_tlm>>
      BY <1>2
    <2>2. QED BY <1>1, <1>2, <2>1 DEF FrameInv
  <1>5. QED BY <1>3, <1>4

LEMMA OtherKeepsInv ==
    ASSUME SeqInv, Other
    PROVE  SeqInv' /\ FrameInv'
  BY DEF SeqInv, FrameInv, Other

LEMMA DlStutters ==
    ASSUME SeqInv, FrameInv, UNCHANGED vars
    PROVE  SeqInv' /\ FrameInv'
  BY DEF vars, hkVars, SeqInv, FrameInv

LEMMA DlInvariance == Spec => []DlInv
  <1>1. Spec => []HkInv
    BY SpecKeepsHouse, HkInvariance, PTL
  <1>2. HkInv /\ SeqInv /\ FrameInv /\ [Next]_vars => SeqInv' /\ FrameInv'
    BY CmdKeepsInv, OtherKeepsInv, DlStutters DEF Next
  <1>3. DlInv <=> HkInv /\ (SeqInv /\ FrameInv)
    BY DEF DlInv
  <1>4. QED BY <1>1, <1>2, <1>3, InitDlInv, PTL DEF Spec

-----------------------------------------------------------------------------
(* The text the ground takes from a frame.                                 *)
CharsOf(bytes) ==
    [k \in DOMAIN DataOf(bytes) |->
        IF DataOf(bytes)[k][1] = "text" THEN DataOf(bytes)[k][2] ELSE "?"]

LEMMA TextIsReceived ==
    ASSUME NEW text \in Seq(Chars), NEW bytes, Len(bytes) = 16 + Len(text),
           LenOf(bytes) = Len(bytes) - 7,
           \A k \in 1 .. Len(text) : bytes[14 + k] = <<"text", text[k]>>
    PROVE  CharsOf(bytes) = text
  <1> DEFINE n == Len(text)
             a == 15
             b == 14 + n
             data == SubSeq(bytes, a, b)
             S == {<<"text", c>> : c \in Chars}
  <1>1. n \in Nat /\ a \in Int /\ b \in Int /\ b - a + 1 = n
        /\ (IF a <= b THEN b - a + 1 ELSE 0) = n
    OBVIOUS
  <1>2. DataOf(bytes) = data
    <2>1. LenOf(bytes) + 7 - 2 = b
      BY <1>1
    <2>2. QED BY <2>1 DEF DataOf
  <1>3. \A k \in a .. b : bytes[k] \in S
    <2> SUFFICES ASSUME NEW k \in a .. b PROVE bytes[k] \in S
      OBVIOUS
    <2> DEFINE j == k - 14
    <2>1. j \in 1 .. Len(text) /\ 14 + j = k
      BY <1>1
    <2> HIDE DEF j
    <2>2. bytes[k] = <<"text", text[j]>>
      BY <2>1
    <2>3. text[j] \in Chars
      BY <2>1, ElementOfSeq
    <2>4. QED BY <2>2, <2>3
  <1>4. \A k \in 1 .. n : a + k - 1 = 14 + k
    BY <1>1
  <1> HIDE DEF a, b, S
  <1>5. /\ data \in Seq(S) /\ Len(data) = n
        /\ \A k \in 1 .. n : data[k] = bytes[a + k - 1]
    BY <1>1, <1>3, SubSeqProperties
  <1> HIDE DEF data
  <1>6. ASSUME NEW k \in 1 .. n PROVE data[k] = <<"text", text[k]>>
    BY <1>4, <1>5
  <1>7. DOMAIN data = 1 .. n /\ DOMAIN text = 1 .. n
    BY <1>5, LenProperties
  <1>8. CharsOf(bytes) = [k \in 1 .. n |-> IF data[k][1] = "text" THEN data[k][2] ELSE "?"]
    BY <1>2, <1>7 DEF CharsOf
  <1>9. [k \in 1 .. n |-> IF data[k][1] = "text" THEN data[k][2] ELSE "?"]
            = [k \in 1 .. n |-> text[k]]
    BY <1>6
  <1>10. text = [k \in 1 .. n |-> text[k]]
    BY <1>7
  <1>11. QED BY <1>8, <1>9, <1>10

(* The text fits the packet: every reading has at most five digits and a   *)
(* sign, and there is room for four of them and the eight other            *)
(* characters.  In the code the largest reading is 36000, and MAX_DATA is  *)
(* 256.                                                                    *)
TextFits ==
    /\ BatteryMax < Limit /\ LatAmp < Limit /\ LonSpan < Limit /\ RollAmp < Limit
    /\ MAX_DATA >= 32

LEMMA LineIsShort ==
    ASSUME NEW a \in Seq(NumberChars), NEW b \in Seq(NumberChars),
           NEW c \in Seq(NumberChars), NEW d \in Seq(NumberChars),
           Len(a) <= 6, Len(b) <= 6, Len(c) <= 6, Len(d) <= 6
    PROVE  Len(Line(a, b, c, d)) <= 32
  <1> DEFINE s == Line(a, b, c, d)
  <1>1. PICK i, j, k \in Nat : LaidOut(s, a, b, c, d, i, j, k)
    BY LineLayout
  <1> HIDE DEF s
  <1>2. Len(a) \in Nat /\ Len(b) \in Nat /\ Len(c) \in Nat /\ Len(d) \in Nat
    OBVIOUS
  <1>3. /\ i = Len(a) + 4 /\ j = i + Len(b) + 2 /\ k = j + Len(c) + 2
        /\ Len(s) = k + Len(d)
    BY <1>1, Zenon DEF LaidOut
  <1>4. Len(s) <= 32
    BY <1>2, <1>3
  <1>5. QED BY <1>4 DEF s

(* The numbers of the text.                                                *)
LEMMA ReadingsAreNumbers ==
    ASSUME HkTypeOK, TextFits
    PROVE  \A n \in {g_eps.battery_pct, g_tlm.lat_cdeg, g_tlm.lon_cdeg, g_adcs.roll_mdeg} :
              n \in Int /\ Magnitude(n) < Limit
  <1>1. Limit \in Int /\ BatteryMin \in Nat /\ BatteryMax \in Nat /\ LatAmp \in Nat
        /\ LonSpan \in Nat /\ RollAmp \in Nat
    BY Constants DEF Limit
  <1>2. ASSUME NEW n, NEW m \in Nat, m < Limit, n \in -m .. m
        PROVE  n \in Int /\ Magnitude(n) < Limit
    BY <1>1, <1>2 DEF Magnitude
  <1>3. /\ g_eps.battery_pct \in -BatteryMax .. BatteryMax
        /\ g_tlm.lat_cdeg \in -LatAmp .. LatAmp
        /\ g_tlm.lon_cdeg \in -LonSpan .. LonSpan
        /\ g_adcs.roll_mdeg \in -RollAmp .. RollAmp
    BY <1>1 DEF HkTypeOK
  <1>4. QED BY <1>1, <1>2, <1>3 DEF TextFits

(* A frame reads as the structures it was made of.                         *)
LEMMA CmdIsRead ==
    ASSUME HkTypeOK, TextFits, CmdDownlink
    PROVE  ReadingsRecovered'
  <1> DEFINE a == SnprintfInt(g_eps.battery_pct, 0, " ")
             b == SnprintfInt(g_tlm.lat_cdeg, 0, " ")
             c == SnprintfInt(g_tlm.lon_cdeg, 0, " ")
             d == SnprintfInt(g_adcs.roll_mdeg, 0, " ")
             pkt == Build(SeqField, g_ticks, Text)
  <1>1. Text = Line(a, b, c, d)
    BY DEF Text, Line
  <1>2. ASSUME NEW n \in Int, Magnitude(n) < Limit
        PROVE  /\ SnprintfInt(n, 0, " ") \in Seq(NumberChars)
               /\ IsNumber(SnprintfInt(n, 0, " ")) /\ IntOf(SnprintfInt(n, 0, " ")) = n
               /\ Len(SnprintfInt(n, 0, " ")) <= 6
    <2>1. Limit \in Nat
      BY DEF Limit
    <2>2. Len(SnprintfInt(n, 0, " ")) <= 6
      <3>1. 5 + 1 = 6
        OBVIOUS
      <3>2. Len(SnprintfInt(n, 0, " ")) <= 5 + 1
        BY <1>2, <2>1, FiveDigits, ShortNumber
      <3>3. QED BY <3>1, <3>2, Zenon
    <2>3. /\ SnprintfInt(n, 0, " ") \in Seq(NumberChars)
          /\ IsNumber(SnprintfInt(n, 0, " ")) /\ IntOf(SnprintfInt(n, 0, " ")) = n
      BY NumberText
    <2>4. QED BY <2>2, <2>3, Zenon
  <1>3. /\ a \in Seq(NumberChars) /\ Len(a) <= 6 /\ IsNumber(a)
        /\ IntOf(a) = g_eps.battery_pct
        /\ b \in Seq(NumberChars) /\ Len(b) <= 6 /\ IsNumber(b)
        /\ IntOf(b) = g_tlm.lat_cdeg
        /\ c \in Seq(NumberChars) /\ Len(c) <= 6 /\ IsNumber(c)
        /\ IntOf(c) = g_tlm.lon_cdeg
        /\ d \in Seq(NumberChars) /\ Len(d) <= 6 /\ IsNumber(d)
        /\ IntOf(d) = g_adcs.roll_mdeg
    BY <1>2, ReadingsAreNumbers
  <1> HIDE DEF a, b, c, d
  <1>4. Text \in Seq(Chars) /\ Len(Text) <= MAX_DATA
    <2>1. Len(Text) <= 32
      BY <1>1, <1>3, LineIsShort
    <2>2. Text \in Seq(Chars)
      BY TextType
    <2>3. QED BY <2>1, <2>2, CountConstants DEF TextFits
  <1>5. /\ Len(Sent(pkt)) = 16 + Len(Text) /\ LenOf(Sent(pkt)) = Len(Sent(pkt)) - 7
        /\ \A k \in 1 .. Len(Text) : Sent(pkt)[14 + k] = <<"text", Text[k]>>
    BY <1>4, PacketShape
  <1>6. rx' = [bytes |-> Sent(pkt), of |-> <<g_eps, g_adcs, g_tlm>>]
    BY DEF CmdDownlink
  <1> HIDE DEF pkt
  <1>7. CharsOf(Sent(pkt)) = Line(a, b, c, d)
    BY <1>1, <1>4, <1>5, TextIsReceived
  <1>8. /\ rx'.bytes = Sent(pkt) /\ rx'.of[1] = g_eps
        /\ rx'.of[2] = g_adcs /\ rx'.of[3] = g_tlm
    BY <1>6
  <1>9. ASSUME NEW key, NEW v, FieldAfter(Line(a, b, c, d), key, Stops) = v, IsNumber(v)
        PROVE  Reading(key)' = IntOf(v)
    <2>1. Reading(key)' =
             LET field == FieldAfter(CharsOf(rx'.bytes), key, Stops)
             IN  IF IsNumber(field) THEN IntOf(field) ELSE NoNumber
      BY DEF Reading, CharsOf, Stops
    <2>2. QED BY <1>7, <1>8, <1>9, <2>1
  <1>10. /\ Reading("BAT=")' = IntOf(a) /\ Reading("LAT=")' = IntOf(b)
         /\ Reading("LON=")' = IntOf(c) /\ Reading("ROLL=")' = IntOf(d)
    BY <1>3, <1>9, LineIsRead
  <1>11. Len(rx'.bytes) = LenOf(rx'.bytes) + 7
    BY <1>4, <1>5, <1>8
  <1>12. QED BY <1>3, <1>8, <1>10, <1>11 DEF ReadingsRecovered

-----------------------------------------------------------------------------
(* The variables have their types, and a frame is never longer than the    *)
(* packet's structure, whatever the text.                                  *)
THEOREM DownlinkTypeCorrect == Spec => []TypeOK
  <1>1. DlInv => TypeOK
    <2> SUFFICES ASSUME DlInv PROVE TypeOK
      OBVIOUS
    <2>1. Len(rx.bytes) <= 14 + MAX_DATA + 2
      <3>1. CASE rx = NoFrame
        <4>1. Len(rx.bytes) = 0
          BY <3>1 DEF NoFrame
        <4>2. QED BY <4>1, CountConstants
      <3>2. CASE rx # NoFrame
        BY <3>2, CountConstants DEF DlInv, FrameInv
      <3>3. QED BY <3>1, <3>2
    <2>2. QED BY <2>1 DEF DlInv, HkInv, SeqInv, TypeOK
  <1>2. QED BY DlInvariance, <1>1, PTL

(* The ground reads from every frame the numbers the satellite put into    *)
(* it, over all their signs and lengths, if the text fits the packet.      *)
THEOREM ReadingsAreRecovered ==
    ASSUME TextFits
    PROVE  Spec => []ReadingsRecovered
  <1>1. Init => ReadingsRecovered
    BY DEF Init, ReadingsRecovered
  <1>2. HkTypeOK /\ ReadingsRecovered /\ [Next]_vars => ReadingsRecovered'
    <2> SUFFICES ASSUME HkTypeOK, ReadingsRecovered, [Next]_vars PROVE ReadingsRecovered'
      OBVIOUS
    <2>1. CASE CmdDownlink
      BY <2>1, CmdIsRead
    <2>2. CASE Other
      BY <2>2 DEF Other, ReadingsRecovered
    <2>3. CASE UNCHANGED vars
      <3>1. rx' = rx
        BY <2>3 DEF vars
      <3>2. ASSUME NEW key PROVE Reading(key)' = Reading(key)
        BY <3>1 DEF Reading
      <3>3. QED BY <3>1, <3>2 DEF ReadingsRecovered
    <2>4. QED BY <2>1, <2>2, <2>3 DEF Next
  <1>3. Spec => []HkTypeOK
    <2>1. HkInv => HkTypeOK
      BY DEF HkInv
    <2>2. QED BY <2>1, SpecKeepsHouse, HkInvariance, PTL
  <1>4. QED BY <1>1, <1>2, <1>3, PTL DEF Spec

(* The samples in a packet are not from the future and no older than their *)
(* task's period and one delay, at any time the command is given.          *)
THEOREM PacketsAreFresh == Spec => []SamplesFresh
  <1>1. DlInv => SamplesFresh
    <2> SUFFICES ASSUME DlInv, rx # NoFrame PROVE SamplesFresh
      BY DEF SamplesFresh
    <2>1. /\ CoarseOf(rx.bytes) = g_ticks /\ rx.of[1] = g_eps
          /\ rx.of[2] = g_adcs /\ rx.of[3] = g_tlm
      BY DEF DlInv, FrameInv
    <2>2. /\ g_ticks \in Nat /\ g_eps.at \in Nat /\ g_adcs.at \in Nat /\ g_tlm.at \in Nat
          /\ wake.eps \in Nat /\ wake.adcs \in Nat /\ wake.tlm \in Nat
      BY HkTypes DEF DlInv, HkInv
    <2>3. /\ g_ticks - g_eps.at \in 0 .. EpsPeriod + MaxLate
          /\ g_ticks - g_adcs.at \in 0 .. AdcsPeriod + MaxLate
          /\ g_ticks - g_tlm.at \in 0 .. TlmPeriod + MaxLate
      BY <2>2, Constants DEF DlInv, HkInv, WakeInv, Timely
    <2>4. QED BY <2>1, <2>3 DEF SamplesFresh
  <1>2. QED BY DlInvariance, <1>1, PTL

(* Successive packets have successive counts, for every width of the field *)
(* and over all wraps.                                                     *)
THEOREM CountsHaveNoGap == Spec => SeqCountGapFree
  <1>1. DlInv /\ [Next]_vars =>
           [rx_seq # -1 /\ rx' # NoFrame => rx_seq' = (rx_seq + 1) % SeqCounts]_vars
    <2> SUFFICES ASSUME DlInv, Next, rx_seq # -1, rx' # NoFrame
        PROVE  rx_seq' = (rx_seq + 1) % SeqCounts
      OBVIOUS
    <2>1. CmdDownlink
      BY DEF Next, Other
    <2>2. rx_seq' = SeqCountOf(Build(SeqField, g_ticks, Text))
      BY <2>1 DEF CmdDownlink
    <2>3. SeqCountOf(Build(SeqField, g_ticks, Text)) = SeqField
      BY TextType, PacketShape DEF DlInv, HkInv
    <2>4. QED BY <2>2, <2>3 DEF DlInv, SeqInv, SeqField
  <1>2. QED BY DlInvariance, <1>1, PTL DEF Spec, SeqCountGapFree

(* What holds of the three tasks holds while the shell sends packets: the  *)
(* beacon's number bounds how long the satellite has been up on both sides.*)
THEOREM BeaconsStillCountTime == Spec => []BeaconNumberTellsTime
  BY SpecKeepsHouse, BeaconsCountTime, PTL

(* Every position a beacon prints is read as the one the packets carry.    *)
THEOREM BeaconsStillReadable == Spec => []BeaconReadable
  BY SpecKeepsHouse, BeaconsAreReadable, PTL

(* The attitude adcs_task publishes moves by the wave's slope at most,     *)
(* however many packets are sent between two of its updates.               *)
THEOREM AttitudeStillContinuous == Spec => AttitudeContinuous
  BY SpecKeepsHouse, AttitudeMovesContinuously, PTL

(* The position telemetry_task publishes moves as far as the time allows,  *)
(* the longitude by LonRate per tick, as long as that product does not     *)
(* wrap.                                                                   *)
THEOREM TrackStillContinuous ==
    ASSUME NoLongitudeWrap
    PROVE  Spec => GroundTrackContinuous
  BY SpecKeepsHouse, TrackMovesContinuously, PTL
=============================================================================
