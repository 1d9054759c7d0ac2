-------------------------- MODULE HousekeepingProofs -------------------------
(***************************************************************************)
(* Theorems about Housekeeping, for every length of the orbit, of its lit  *)
(* part, of the periods and of the delays, and all amplitudes and limits.  *)
(***************************************************************************)
EXTENDS Housekeeping, SequenceTheorems, WellFoundedInduction, TLAPS

-----------------------------------------------------------------------------
(* Least numbers stand for induction: a set of natural numbers that is not *)
(* empty has a smallest one.                                               *)
LEMMA Smallest ==
    ASSUME NEW S \in SUBSET Nat, S # {}
    PROVE  \E x \in S : \A y \in S : x <= y
  <1>1. PICK x \in S : \A y \in S : ~ (<<y, x>> \in OpToRel(<, Nat))
    <2> DEFINE R == OpToRel(<, Nat)
    <2>1. IsWellFoundedOn(R, Nat)
      BY NatLessThanWellFounded
    <2>2. S \subseteq Nat /\ S # {}
      OBVIOUS
    <2> HIDE DEF R
    <2>3. \E x \in S : \A y \in S : ~ (<<y, x>> \in R)
      BY <2>1, <2>2, WFMin
    <2>4. QED BY <2>3 DEF R
  <1>2. \A y \in S : x <= y
    <2> SUFFICES ASSUME NEW y \in S, ~ (x <= y) PROVE FALSE
      OBVIOUS
    <2>1. y \in Nat /\ x \in Nat /\ y < x
      OBVIOUS
    <2>2. <<y, x>> \in OpToRel(<, Nat)
      BY <2>1 DEF OpToRel
    <2>3. QED BY <1>1, <2>2
  <1>3. QED BY <1>2

-----------------------------------------------------------------------------
(* Digits.  That the recursive definition defines a function: it is the    *)
(* limit of its approximations on the numbers up to m, which agree where   *)
(* they meet.                                                              *)
DigitChars == {DigitChar[k] : k \in 1 .. 10}

DigitStep(f, n) ==
    IF n < 10 THEN <<DigitChar[n + 1]>>
    ELSE Append(f[n \div 10], DigitChar[(n % 10) + 1])

UpTo(m) == {f \in [0 .. m -> Seq(DigitChars)] : \A n \in 0 .. m : f[n] = DigitStep(f, n)}

LEMMA TenthIsSmaller ==
    ASSUME NEW n \in Nat
    PROVE  /\ n % 10 \in 0 .. 9 /\ DigitChar[(n % 10) + 1] \in DigitChars
           /\ n < 10 => DigitChar[n + 1] \in DigitChars
           /\ n \div 10 \in Nat /\ (n >= 10 => n \div 10 < n)
  <1>1. n % 10 \in 0 .. 9
    OBVIOUS
  <1>2. (n % 10) + 1 \in 1 .. 10 /\ (n < 10 => n + 1 \in 1 .. 10)
    BY <1>1
  <1>3. n \div 10 \in Nat /\ (n >= 10 => n \div 10 < n)
    OBVIOUS
  <1>4. QED BY <1>1, <1>2, <1>3 DEF DigitChars

LEMMA DigitStepType ==
    ASSUME NEW f, NEW n \in Nat, n >= 10 => f[n \div 10] \in Seq(DigitChars)
    PROVE  DigitStep(f, n) \in Seq(DigitChars)
  <1>1. CASE n < 10
    <2>1. DigitChar[n + 1] \in DigitChars
      BY <1>1, TenthIsSmaller
    <2>2. DigitStep(f, n) = <<DigitChar[n + 1]>>
      BY <1>1 DEF DigitStep
    <2>3. QED BY <2>1, <2>2
  <1>2. CASE ~ (n < 10)
    <2>1. f[n \div 10] \in Seq(DigitChars)
      BY <1>2
    <2>2. DigitChar[(n % 10) + 1] \in DigitChars
      BY TenthIsSmaller
    <2>3. DigitStep(f, n) = Append(f[n \div 10], DigitChar[(n % 10) + 1])
      BY <1>2 DEF DigitStep
    <2>4. QED BY <2>1, <2>2, <2>3, AppendProperties
  <1>3. QED BY <1>1, <1>2

LEMMA DigitsAgree ==
    ASSUME NEW m \in Nat, NEW k \in Nat, NEW f \in UpTo(m), NEW g \in UpTo(k),
           NEW n \in Nat, n <= m, n <= k
    PROVE  f[n] = g[n]
  <1> DEFINE S == {j \in Nat : j <= m /\ j <= k /\ f[j] # g[j]}
  <1> SUFFICES ASSUME S # {} PROVE FALSE
    OBVIOUS
  <1>1. PICK x \in S : \A y \in S : x <= y
    BY Smallest
  <1>2. x \in 0 .. m /\ x \in 0 .. k /\ f[x] # g[x] /\ x \in Nat
    OBVIOUS
  <1>3. f[x] = DigitStep(f, x) /\ g[x] = DigitStep(g, x)
    BY <1>2 DEF UpTo
  <1>4. CASE x < 10
    BY <1>2, <1>3, <1>4 DEF DigitStep
  <1>5. CASE ~ (x < 10)
    <2>1. x \div 10 \in Nat /\ x \div 10 < x
      BY <1>2, <1>5, TenthIsSmaller
    <2>2. x \div 10 \notin S
      BY <1>1, <1>2, <2>1
    <2>3. f[x \div 10] = g[x \div 10]
      BY <1>2, <2>1, <2>2
    <2>4. QED BY <1>2, <1>3, <1>5, <2>3 DEF DigitStep
  <1>6. QED BY <1>4, <1>5

LEMMA DigitsExtend ==
    ASSUME NEW m \in Nat, NEW f \in UpTo(m)
    PROVE  UpTo(m + 1) # {}
  <1> DEFINE g == [n \in 0 .. m + 1 |-> IF n <= m THEN f[n] ELSE DigitStep(f, m + 1)]
  <1>1. f \in [0 .. m -> Seq(DigitChars)] /\ \A n \in 0 .. m : f[n] = DigitStep(f, n)
    BY DEF UpTo
  <1>2. \A n \in 0 .. m : g[n] = f[n]
    OBVIOUS
  <1>3. g[m + 1] = DigitStep(f, m + 1)
    OBVIOUS
  <1>4. \A n \in 0 .. m + 1 : n >= 10 => n \div 10 \in 0 .. m
    OBVIOUS
  <1>5. DigitStep(f, m + 1) \in Seq(DigitChars)
    <2>1. m + 1 \in Nat /\ m + 1 \in 0 .. m + 1
      OBVIOUS
    <2>2. m + 1 >= 10 => f[(m + 1) \div 10] \in Seq(DigitChars)
      BY <1>1, <1>4, <2>1
    <2>3. QED BY <2>1, <2>2, DigitStepType
  <1>6. g \in [0 .. m + 1 -> Seq(DigitChars)]
    BY <1>1, <1>5
  <1>7. ASSUME NEW n \in 0 .. m + 1 PROVE g[n] = DigitStep(g, n)
    <2>1. DigitStep(g, n) = DigitStep(f, n)
      <3>1. CASE n < 10
        BY <3>1 DEF DigitStep
      <3>2. CASE ~ (n < 10)
        <4>1. g[n \div 10] = f[n \div 10]
          BY <1>2, <1>4, <3>2
        <4> HIDE DEF g
        <4>2. QED BY <3>2, <4>1 DEF DigitStep
      <3>3. QED BY <3>1, <3>2
    <2>2. CASE n <= m
      BY <1>1, <1>2, <2>1, <2>2
    <2>3. CASE ~ (n <= m)
      <3>1. n = m + 1
        BY <2>3
      <3>2. QED BY <1>3, <2>1, <3>1
    <2>4. QED BY <2>2, <2>3
  <1>8. g \in UpTo(m + 1)
    <2> HIDE DEF g
    <2>1. QED BY <1>6, <1>7 DEF UpTo
  <1>9. QED BY <1>8

LEMMA DigitsExist == \A m \in Nat : UpTo(m) # {}
  <1> DEFINE S == {m \in Nat : UpTo(m) = {}}
  <1> SUFFICES ASSUME S # {} PROVE FALSE
    OBVIOUS
  <1>1. PICK x \in S : \A y \in S : x <= y
    BY Smallest
  <1>2. CASE x = 0
    <2> DEFINE f == [n \in 0 .. 0 |-> <<DigitChar[1]>>]
    <2>1. <<DigitChar[1]>> \in Seq(DigitChars)
      BY DEF DigitChars
    <2>2. f \in [0 .. 0 -> Seq(DigitChars)]
      BY <2>1
    <2>3. ASSUME NEW n \in 0 .. 0 PROVE f[n] = DigitStep(f, n)
      BY DEF DigitStep
    <2>4. f \in UpTo(0)
      BY <2>2, <2>3 DEF UpTo
    <2>5. QED BY <1>2, <2>4
  <1>3. CASE x # 0
    <2>1. x \in Nat /\ x - 1 \in Nat /\ (x - 1) + 1 = x
      BY <1>3
    <2>2. x - 1 \notin S
      BY <1>1, <2>1
    <2>3. PICK f : f \in UpTo(x - 1)
      BY <2>1, <2>2
    <2>4. QED BY <2>1, <2>3, DigitsExtend
  <1>4. QED BY <1>2, <1>3

(* The definition holds of Digits for every number.                        *)
LEMMA DigitsEquation == Digits = [n \in Nat |-> DigitStep(Digits, n)]
  <1> DEFINE a(m) == CHOOSE f \in UpTo(m) : TRUE
             F == [n \in Nat |-> a(n)[n]]
  <1>1. \A m \in Nat : a(m) \in UpTo(m)
    BY DigitsExist
  <1> HIDE DEF a
  <1>2. ASSUME NEW n \in Nat PROVE F[n] = DigitStep(F, n)
    <2>1. n \in 0 .. n /\ a(n) \in UpTo(n)
      BY <1>1
    <2>2. F[n] = DigitStep(a(n), n)
      BY <2>1 DEF UpTo
    <2>3. CASE n < 10
      BY <2>2, <2>3 DEF DigitStep
    <2>4. CASE ~ (n < 10)
      <3> DEFINE k == n \div 10
      <3>1. k \in Nat /\ k <= n
        BY <2>4, TenthIsSmaller
      <3>2. a(k)[k] = a(n)[k]
        <4> HIDE DEF k
        <4>1. a(k) \in UpTo(k) /\ k <= k
          BY <1>1, <3>1
        <4>2. QED BY <2>1, <3>1, <4>1, DigitsAgree
      <3>3. F[k] = a(n)[k]
        BY <3>1, <3>2
      <3> HIDE DEF F
      <3>4. QED BY <2>2, <2>4, <3>3 DEF DigitStep
    <2>5. QED BY <2>3, <2>4
  <1>3. F = [n \in Nat |-> DigitStep(F, n)]
    <2>1. ASSUME NEW n \in Nat PROVE F[n] = [j \in Nat |-> DigitStep(F, j)][n]
      BY <1>2
    <2>2. QED BY <2>1
  <1>4. \E f : f = [n \in Nat |-> DigitStep(f, n)]
    <2> HIDE DEF F
    <2>1. QED BY <1>3
  <1>5. Digits = CHOOSE f : f = [n \in Nat |-> DigitStep(f, n)]
    BY DEF Digits, DigitStep
  <1>6. QED BY <1>4, <1>5, Zenon

(* What a digit string is made of.                                         *)
LEMMA DigitsType == \A n \in Nat : Digits[n] \in Seq(DigitChars)
  <1> DEFINE S == {n \in Nat : Digits[n] \notin Seq(DigitChars)}
  <1> SUFFICES ASSUME S # {} PROVE FALSE
    OBVIOUS
  <1>1. PICK x \in S : \A y \in S : x <= y
    BY Smallest
  <1>2. x \in Nat /\ Digits[x] = DigitStep(Digits, x)
    BY DigitsEquation
  <1>3. x >= 10 => Digits[x \div 10] \in Seq(DigitChars)
    <2> SUFFICES ASSUME x >= 10 PROVE Digits[x \div 10] \in Seq(DigitChars)
      OBVIOUS
    <2>1. x \div 10 \in Nat /\ x \div 10 < x
      BY <1>2, TenthIsSmaller
    <2>2. x \div 10 \notin S
      BY <1>1, <1>2, <2>1
    <2>3. QED BY <2>1, <2>2
  <1>4. QED BY <1>2, <1>3, DigitStepType

-----------------------------------------------------------------------------
(* Reading digits.  ReadsAs(s, n) says that s has values of its beginnings *)
(* as NatOf computes them, n being that of the whole.                      *)
ValueStep(v, s, k) == IF k = 0 THEN 0 ELSE 10 * v[k - 1] + DigitValue(s[k])

ReadsAs(s, n) ==
    \E v \in [0 .. Len(s) -> Nat] :
        /\ \A k \in 0 .. Len(s) : v[k] = ValueStep(v, s, k)
        /\ v[Len(s)] = n

LEMMA ReadsUniquely ==
    ASSUME NEW s \in Seq(DigitChars), NEW n \in Nat, ReadsAs(s, n)
    PROVE  NatOf(s) = n
  <1> DEFINE w == CHOOSE v : v = [k \in 0 .. Len(s) |-> ValueStep(v, s, k)]
  <1>1. NatOf(s) = w[Len(s)]
    BY DEF NatOf, ValueStep
  <1>2. PICK v \in [0 .. Len(s) -> Nat] :
           (\A k \in 0 .. Len(s) : v[k] = ValueStep(v, s, k)) /\ v[Len(s)] = n
    BY DEF ReadsAs
  <1>3. v = [k \in 0 .. Len(s) |-> ValueStep(v, s, k)]
    BY <1>2
  <1>4. w = [k \in 0 .. Len(s) |-> ValueStep(w, s, k)]
    BY <1>3, Zenon
  <1> HIDE DEF w
  <1>5. ASSUME NEW k \in 0 .. Len(s) PROVE w[k] = v[k]
    <2> DEFINE S == {j \in Nat : j <= Len(s) /\ w[j] # v[j]}
    <2>1. SUFFICES ASSUME S # {} PROVE FALSE
      OBVIOUS
    <2>2. PICK x \in S : \A y \in S : x <= y
      BY <2>1, Smallest
    <2>3. x \in 0 .. Len(s) /\ w[x] # v[x] /\ x \in Nat
      OBVIOUS
    <2>4. w[x] = ValueStep(w, s, x) /\ v[x] = ValueStep(v, s, x)
      BY <1>2, <1>4, <2>3
    <2>5. CASE x = 0
      BY <2>3, <2>4, <2>5 DEF ValueStep
    <2>6. CASE x # 0
      <3>1. x - 1 \in Nat /\ x - 1 <= Len(s) /\ x - 1 < x
        BY <2>3, <2>6
      <3>2. w[x - 1] = v[x - 1]
        BY <2>2, <3>1
      <3>3. QED BY <2>3, <2>4, <2>6, <3>2 DEF ValueStep
    <2>7. QED BY <2>5, <2>6
  <1>6. Len(s) \in 0 .. Len(s)
    OBVIOUS
  <1>7. QED BY <1>1, <1>2, <1>5, <1>6

LEMMA DigitCharsDiffer ==
    \A d, e \in 0 .. 9 : DigitChar[d + 1] = DigitChar[e + 1] => d = e
  BY DEF DigitChar

LEMMA DigitValueOf ==
    ASSUME NEW d \in 0 .. 9
    PROVE  DigitValue(DigitChar[d + 1]) = d
  <1>1. \E e \in 0 .. 9 : DigitChar[e + 1] = DigitChar[d + 1]
    OBVIOUS
  <1>2. /\ DigitValue(DigitChar[d + 1]) \in 0 .. 9
        /\ DigitChar[DigitValue(DigitChar[d + 1]) + 1] = DigitChar[d + 1]
    BY <1>1, Zenon DEF DigitValue
  <1>3. QED BY <1>2, DigitCharsDiffer

LEMMA ReadsAppended ==
    ASSUME NEW s \in Seq(DigitChars), NEW n \in Nat, ReadsAs(s, n), NEW d \in 0 .. 9
    PROVE  ReadsAs(Append(s, DigitChar[d + 1]), 10 * n + d)
  <1> DEFINE c == DigitChar[d + 1]
             t == Append(s, c)
             m == Len(s)
  <1>1. PICK v \in [0 .. m -> Nat] :
           (\A k \in 0 .. m : v[k] = ValueStep(v, s, k)) /\ v[m] = n
    BY DEF ReadsAs
  <1>2. m \in Nat /\ Len(t) = m + 1 /\ t[m + 1] = c /\ \A k \in 1 .. m : t[k] = s[k]
    OBVIOUS
  <1>3. DigitValue(c) = d
    BY DigitValueOf
  <1> HIDE DEF c, t, m
  <1> DEFINE u == [k \in 0 .. m + 1 |-> IF k <= m THEN v[k] ELSE 10 * n + d]
  <1>4. u \in [0 .. Len(t) -> Nat] /\ u[Len(t)] = 10 * n + d
    BY <1>1, <1>2
  <1>5. ASSUME NEW k \in 0 .. Len(t) PROVE u[k] = ValueStep(u, t, k)
    <2>1. CASE k = 0
      BY <1>1, <1>2, <2>1 DEF ValueStep
    <2>2. CASE k \in 1 .. m
      <3>1. u[k] = v[k] /\ u[k - 1] = v[k - 1] /\ t[k] = s[k] /\ k # 0
        BY <1>2, <2>2
      <3>2. v[k] = ValueStep(v, s, k)
        BY <1>1, <2>2
      <3>3. QED BY <3>1, <3>2 DEF ValueStep
    <2>3. CASE k = m + 1
      <3>1. u[k] = 10 * n + d /\ u[k - 1] = n /\ k # 0 /\ t[k] = c
        BY <1>1, <1>2, <2>3
      <3>2. QED BY <1>3, <3>1 DEF ValueStep
    <2>4. QED BY <1>2, <2>1, <2>2, <2>3
  <1> HIDE DEF u
  <1>6. QED BY <1>4, <1>5 DEF ReadsAs, t, c

LEMMA OneDigitReads ==
    ASSUME NEW d \in 0 .. 9
    PROVE  ReadsAs(<<DigitChar[d + 1]>>, d)
  <1> DEFINE v == [k \in 0 .. 0 |-> 0]
  <1>1. v \in [0 .. Len(<<>>) -> Nat] /\ v[Len(<<>>)] = 0
    OBVIOUS
  <1>2. \A k \in 0 .. Len(<<>>) : v[k] = ValueStep(v, <<>>, k)
    BY DEF ValueStep
  <1>3. ReadsAs(<<>>, 0)
    BY <1>1, <1>2 DEF ReadsAs
  <1>4. <<>> \in Seq(DigitChars) /\ Append(<<>>, DigitChar[d + 1]) = <<DigitChar[d + 1]>>
    OBVIOUS
  <1>5. 10 * 0 + d = d
    OBVIOUS
  <1>6. ReadsAs(Append(<<>>, DigitChar[d + 1]), 10 * 0 + d)
    BY <1>3, <1>4, ReadsAppended
  <1>7. QED BY <1>4, <1>5, <1>6

(* The digits of a number are read as this number.                         *)
LEMMA DigitsRead == \A n \in Nat : ReadsAs(Digits[n], n)
  <1> DEFINE S == {n \in Nat : ~ ReadsAs(Digits[n], n)}
  <1> SUFFICES ASSUME S # {} PROVE FALSE
    OBVIOUS
  <1>1. PICK x \in S : \A y \in S : x <= y
    BY Smallest
  <1>2. x \in Nat /\ Digits[x] = DigitStep(Digits, x) /\ ~ ReadsAs(Digits[x], x)
    BY DigitsEquation
  <1>3. CASE x < 10
    BY <1>2, <1>3, OneDigitReads DEF DigitStep
  <1>4. CASE ~ (x < 10)
    <2> DEFINE k == x \div 10
               d == x % 10
    <2>1. k \in Nat /\ k < x /\ d \in 0 .. 9 /\ x = 10 * k + d
      BY <1>2, <1>4, TenthIsSmaller
    <2>2. Digits[x] = Append(Digits[k], DigitChar[d + 1])
      BY <1>2, <1>4 DEF DigitStep
    <2> HIDE DEF k, d
    <2>3. k \notin S
      BY <1>1, <1>2, <2>1
    <2>4. ReadsAs(Digits[k], k) /\ Digits[k] \in Seq(DigitChars)
      BY <2>1, <2>3, DigitsType
    <2>5. ReadsAs(Append(Digits[k], DigitChar[d + 1]), 10 * k + d)
      BY <2>1, <2>4, ReadsAppended
    <2>6. QED BY <1>2, <2>1, <2>2, <2>5
  <1>5. QED BY <1>3, <1>4

-----------------------------------------------------------------------------
(* Numbers with a sign, and with a point.                                  *)
LEMMA DigitsNamed ==
    DigitChars \subseteq {"0", "1", "2", "3", "4", "5", "6", "7", "8", "9"}
  <1> SUFFICES ASSUME NEW k \in 1 .. 10
               PROVE  DigitChar[k] \in {"0", "1", "2", "3", "4", "5", "6", "7", "8", "9"}
    BY DEF DigitChars
  <1>1. k = 1 \/ k = 2 \/ k = 3 \/ k = 4 \/ k = 5 \/ k = 6 \/ k = 7 \/ k = 8 \/ k = 9 \/ k = 10
    OBVIOUS
  <1>2. /\ DigitChar[1] = "0" /\ DigitChar[2] = "1" /\ DigitChar[3] = "2" /\ DigitChar[4] = "3"
        /\ DigitChar[5] = "4" /\ DigitChar[6] = "5" /\ DigitChar[7] = "6" /\ DigitChar[8] = "7"
        /\ DigitChar[9] = "8" /\ DigitChar[10] = "9"
    BY DEF DigitChar
  <1>3. QED BY <1>1, <1>2

LEMMA DigitsAreNoSigns ==
    DigitChars \intersect {"-", ".", " ", "%"} = {}
  BY DigitsNamed

LEMMA DigitsNotEmpty == \A n \in Nat : Len(Digits[n]) >= 1
  <1> SUFFICES ASSUME NEW n \in Nat PROVE Len(Digits[n]) >= 1
    OBVIOUS
  <1>1. Digits[n] = DigitStep(Digits, n)
    BY DigitsEquation
  <1>2. CASE n < 10
    BY <1>1, <1>2 DEF DigitStep
  <1>3. CASE ~ (n < 10)
    <2>1. Digits[n \div 10] \in Seq(DigitChars)
      BY DigitsType, TenthIsSmaller
    <2>2. Digits[n] = Append(Digits[n \div 10], DigitChar[(n % 10) + 1])
      BY <1>1, <1>3 DEF DigitStep
    <2>3. QED BY <2>1, <2>2
  <1>4. QED BY <1>2, <1>3

LEMMA SignIsRead ==
    ASSUME NEW s \in Seq(DigitChars), Len(s) >= 1, NEW n \in Nat, ReadsAs(s, n)
    PROVE  IntOf(s) = n /\ IntOf(<<"-">> \o s) = -n
  <1>1. NatOf(s) = n
    BY ReadsUniquely
  <1>2. s[1] # "-"
    <2>1. s[1] \in DigitChars
      BY ElementOfSeq
    <2>2. QED BY <2>1, DigitsAreNoSigns
  <1>3. (<<"-">> \o s)[1] = "-" /\ Tail(<<"-">> \o s) = s
    OBVIOUS
  <1>4. QED BY <1>1, <1>2, <1>3 DEF IntOf

(* A sequence around one of its elements.                                  *)
LEMMA Around ==
    ASSUME NEW T, NEW a \in Seq(T), NEW b \in Seq(T), NEW x \in T
    PROVE  LET s == a \o <<x>> \o b IN
           /\ s \in Seq(T) /\ Len(s) = Len(a) + 1 + Len(b)
           /\ \A k \in 1 .. Len(a) : s[k] = a[k]
           /\ s[Len(a) + 1] = x
           /\ \A k \in 1 .. Len(b) : s[Len(a) + 1 + k] = b[k]
           /\ SubSeq(s, 1, Len(a)) = a
           /\ SubSeq(s, Len(a) + 2, Len(s)) = b
  <1> DEFINE s == a \o <<x>> \o b
             m == Len(a)
  <1>1. <<x>> \in Seq(T) /\ Len(<<x>>) = 1 /\ <<x>>[1] = x
    OBVIOUS
  <1>2. /\ a \o <<x>> \in Seq(T) /\ Len(a \o <<x>>) = m + 1 /\ m \in Nat
        /\ \A k \in 1 .. m + 1 : (a \o <<x>>)[k] = IF k <= m THEN a[k] ELSE <<x>>[k - m]
    BY <1>1, ConcatProperties
  <1>3. /\ s \in Seq(T) /\ Len(s) = m + 1 + Len(b)
        /\ \A k \in 1 .. m + 1 + Len(b) :
              s[k] = IF k <= m + 1 THEN (a \o <<x>>)[k] ELSE b[k - (m + 1)]
    BY <1>2, ConcatProperties
  <1>4. Len(b) \in Nat
    OBVIOUS
  <1> HIDE DEF s, m
  <1>5. \A k \in 1 .. m : s[k] = a[k]
    BY <1>2, <1>3, <1>4
  <1>6. s[m + 1] = x
    <2>1. m + 1 \in 1 .. m + 1 /\ m + 1 \in 1 .. m + 1 + Len(b) /\ ~ (m + 1 <= m) /\ m + 1 - m = 1
      BY <1>2, <1>4
    <2>2. QED BY <1>1, <1>2, <1>3, <2>1
  <1>7. \A k \in 1 .. Len(b) : s[m + 1 + k] = b[k]
    <2> SUFFICES ASSUME NEW k \in 1 .. Len(b) PROVE s[m + 1 + k] = b[k]
      OBVIOUS
    <2>1. m + 1 + k \in 1 .. m + 1 + Len(b) /\ ~ (m + 1 + k <= m + 1) /\ m + 1 + k - (m + 1) = k
      BY <1>2, <1>4
    <2> DEFINE j == m + 1 + k
    <2> HIDE DEF j
    <2>2. j \in 1 .. m + 1 + Len(b) /\ ~ (j <= m + 1) /\ j - (m + 1) = k
      BY <1>2, <1>4, <2>1 DEF j
    <2>3. s[j] = b[j - (m + 1)]
      BY <1>3, <2>2
    <2>4. s[j] = b[k]
      BY <2>2, <2>3
    <2>5. QED BY <2>4 DEF j
  <1>8. SubSeq(s, 1, m) = a
    <2>1. \A k \in 1 .. m : s[k] \in T
      BY <1>2, <1>3, <1>4, ElementOfSeq
    <2>2. 1 \in Int /\ m \in Int
      BY <1>2
    <2>3. /\ SubSeq(s, 1, m) \in Seq(T)
          /\ Len(SubSeq(s, 1, m)) = IF 1 <= m THEN m - 1 + 1 ELSE 0
          /\ \A k \in 1 .. m - 1 + 1 : SubSeq(s, 1, m)[k] = s[1 + k - 1]
      BY <2>1, <2>2, SubSeqProperties
    <2>4. Len(SubSeq(s, 1, m)) = m
      BY <1>2, <2>3
    <2>5. \A k \in 1 .. m : SubSeq(s, 1, m)[k] = a[k]
      BY <1>2, <1>5, <2>3
    <2>6. QED BY <2>3, <2>4, <2>5, SeqEqual DEF m
  <1>9. SubSeq(s, m + 2, Len(s)) = b
    <2> DEFINE n == Len(s)
    <2>1. n = m + 1 + Len(b) /\ n \in Nat
      BY <1>2, <1>3, <1>4
    <2>2. \A k \in m + 2 .. n : s[k] \in T
      BY <1>2, <1>3, <1>4, ElementOfSeq
    <2> HIDE DEF n
    <2>3. m + 2 \in Int /\ n \in Int
      BY <1>2, <2>1
    <2>4. /\ SubSeq(s, m + 2, n) \in Seq(T)
          /\ Len(SubSeq(s, m + 2, n)) = IF m + 2 <= n THEN n - (m + 2) + 1 ELSE 0
          /\ \A k \in 1 .. n - (m + 2) + 1 : SubSeq(s, m + 2, n)[k] = s[m + 2 + k - 1]
      BY <2>2, <2>3, SubSeqProperties
    <2>5. Len(SubSeq(s, m + 2, n)) = Len(b) /\ n - (m + 2) + 1 = Len(b)
      BY <1>2, <1>4, <2>1, <2>4
    <2>6. \A k \in 1 .. Len(b) : m + 2 + k - 1 = m + 1 + k
      BY <1>2
    <2>7. \A k \in 1 .. Len(b) : SubSeq(s, m + 2, n)[k] = b[k]
      BY <1>7, <2>4, <2>5, <2>6
    <2>8. QED BY <2>4, <2>5, <2>7, SeqEqual DEF n
  <1>10. QED BY <1>2, <1>3, <1>5, <1>6, <1>7, <1>8, <1>9 DEF s, m

(* Leaving out the point joins what stands before it and behind it.        *)
LEMMA PointLeftOut ==
    ASSUME NEW a \in Seq(DigitChars \union {"-"}), NEW b \in Seq(DigitChars)
    PROVE  HundredthsOf(a \o <<".">> \o b) = IntOf(a \o b)
  <1> DEFINE s == a \o <<".">> \o b
             T == DigitChars \union {"-", "."}
             p == CHOOSE k \in DOMAIN s : s[k] = "."
  <1>1. a \in Seq(T) /\ b \in Seq(T) /\ "." \in T
    OBVIOUS
  <1>2. \A k \in 1 .. Len(a) : a[k] # "."
    <2>1. \A k \in 1 .. Len(a) : a[k] \in DigitChars \union {"-"}
      BY ElementOfSeq
    <2>2. "." \notin DigitChars \union {"-"}
      BY DigitsAreNoSigns
    <2>3. QED BY <2>1, <2>2
  <1>3. \A k \in 1 .. Len(b) : b[k] # "."
    <2>1. \A k \in 1 .. Len(b) : b[k] \in DigitChars
      BY ElementOfSeq
    <2>2. "." \notin DigitChars
      BY DigitsAreNoSigns
    <2>3. QED BY <2>1, <2>2
  <1>4. Len(a) \in Nat /\ Len(b) \in Nat
    OBVIOUS
  <1> HIDE DEF T
  <1>5. /\ s \in Seq(T) /\ Len(s) = Len(a) + 1 + Len(b)
        /\ \A k \in 1 .. Len(a) : s[k] = a[k]
        /\ s[Len(a) + 1] = "."
        /\ \A k \in 1 .. Len(b) : s[Len(a) + 1 + k] = b[k]
        /\ SubSeq(s, 1, Len(a)) = a
        /\ SubSeq(s, Len(a) + 2, Len(s)) = b
    BY <1>1, Around
  <1> HIDE DEF s
  <1>6. DOMAIN s = 1 .. Len(a) + 1 + Len(b)
    BY <1>5, LenProperties
  <1>7. ASSUME NEW k \in DOMAIN s, s[k] = "." PROVE k = Len(a) + 1
    <2>1. CASE k <= Len(a)
      BY <1>2, <1>4, <1>5, <1>6, <1>7, <2>1
    <2>2. CASE k > Len(a) + 1
      <3>1. k - Len(a) - 1 \in 1 .. Len(b) /\ Len(a) + 1 + (k - Len(a) - 1) = k
        BY <1>4, <1>6, <2>2
      <3>2. QED BY <1>3, <1>5, <1>7, <3>1
    <2>3. QED BY <1>4, <1>6, <2>1, <2>2
  <1>8. p = Len(a) + 1
    <2>1. Len(a) + 1 \in DOMAIN s
      BY <1>4, <1>6
    <2>2. QED BY <1>5, <1>7, <2>1
  <1> HIDE DEF p
  <1>9. p - 1 = Len(a) /\ p + 1 = Len(a) + 2
    BY <1>4, <1>8
  <1>10. RemoveAt(s, p) = a \o b
    BY <1>5, <1>9 DEF RemoveAt
  <1>11. QED BY <1>10 DEF HundredthsOf, s, p

LEMMA Pairs ==
    ASSUME NEW T, NEW x \in T, NEW y \in T
    PROVE  /\ <<x>> \o <<y>> = <<x, y>> /\ Append(<<x>>, y) = <<x, y>>
           /\ <<x, y>> \in Seq(T) /\ Len(<<x, y>>) = 2
  <1>1. <<x>> \in Seq(T) /\ <<y>> \in Seq(T) /\ <<x, y>> \in Seq(T) /\ Len(<<x, y>>) = 2
    OBVIOUS
  <1>2. Append(<<x>>, y) = <<x, y>>
    <2> DEFINE a == Append(<<x>>, y)
               b == <<x, y>>
    <2>1. Len(<<x>>) = 1 /\ <<x>>[1] = x /\ b[1] = x /\ b[2] = y
      OBVIOUS
    <2>2. a \in Seq(T) /\ Len(a) = 2 /\ a[1] = x /\ a[2] = y
      BY <1>1, <2>1, AppendProperties
    <2>3. b \in Seq(T) /\ Len(b) = 2
      BY <1>1
    <2> HIDE DEF a, b
    <2>4. \A k \in 1 .. 2 : a[k] = b[k]
      BY <2>1, <2>2
    <2>5. a = b
      BY <2>2, <2>3, <2>4, SeqEqual
    <2>6. QED BY <2>5 DEF a, b
  <1>3. Append(<<x>>, y) = <<x>> \o <<y>>
    BY <1>1, AppendIsConcat
  <1>4. QED BY <1>1, <1>2, <1>3

(* "%02d" of a number below one hundred is its two digits.                 *)
LEMMA TwoPlaces ==
    ASSUME NEW r \in 0 .. 99
    PROVE  PutInt(r, 2, "0") = <<DigitChar[(r \div 10) + 1], DigitChar[(r % 10) + 1]>>
  <1>1. r \in Nat /\ Digits[r] = DigitStep(Digits, r) /\ ~ (r < 0)
    BY DigitsEquation
  <1>2. PutInt(r, 2, "0") = Padded(Digits[r], 2, "0")
    BY <1>1 DEF PutInt, PutUint
  <1>3. CASE r < 10
    <2>1. Digits[r] = <<DigitChar[r + 1]>> /\ Len(Digits[r]) = 1
      BY <1>1, <1>3 DEF DigitStep
    <2>2. [k \in 1 .. 2 - 1 |-> "0"] = <<"0">>
      OBVIOUS
    <2>3. Padded(Digits[r], 2, "0") = <<"0">> \o <<DigitChar[r + 1]>>
      BY <2>1, <2>2 DEF Padded
    <2>4. r \div 10 = 0 /\ r % 10 = r
      BY <1>3
    <2>5. DigitChar[1] = "0"
      BY DEF DigitChar
    <2>6. "0" \in DigitChars /\ DigitChar[r + 1] \in DigitChars
      BY <1>3, <2>5 DEF DigitChars
    <2>7. <<"0">> \o <<DigitChar[r + 1]>> = <<"0", DigitChar[r + 1]>>
      BY <2>6, Pairs
    <2>8. QED BY <1>2, <2>3, <2>4, <2>5, <2>7
  <1>4. CASE ~ (r < 10)
    <2> DEFINE q == r \div 10
               d == DigitChar[(r % 10) + 1]
    <2>1. q \in Nat /\ q < 10
      BY <1>4
    <2>2. Digits[r] = Append(Digits[q], d)
      BY <1>1, <1>4 DEF DigitStep
    <2> HIDE DEF q, d
    <2>3. Digits[q] = <<DigitChar[q + 1]>>
      BY <2>1, DigitsEquation DEF DigitStep
    <2>4. Digits[r] = <<DigitChar[q + 1], d>> /\ Len(Digits[r]) = 2
      <3> DEFINE c == DigitChar[q + 1]
      <3>1. d \in DigitChars /\ c \in DigitChars
        BY <1>1, <2>1, TenthIsSmaller DEF d
      <3>2. Digits[q] = <<c>>
        BY <2>3
      <3> HIDE DEF c
      <3>3. Append(<<c>>, d) = <<c, d>> /\ Len(<<c, d>>) = 2
        BY <3>1, Pairs
      <3>4. Digits[r] = <<c, d>>
        BY <2>2, <3>2, <3>3
      <3>5. QED BY <3>3, <3>4 DEF c
    <2>5. Padded(Digits[r], 2, "0") = Digits[r]
      BY <2>4 DEF Padded
    <2>6. QED BY <1>2, <2>4, <2>5 DEF q, d
  <1>5. QED BY <1>3, <1>4

(* Two more digits make a hundred times as much, and themselves.           *)
LEMMA TwoMoreDigits ==
    ASSUME NEW a \in Seq(DigitChars), NEW q \in Nat, ReadsAs(a, q), NEW r \in 0 .. 99
    PROVE  LET s == a \o PutInt(r, 2, "0") IN
           s \in Seq(DigitChars) /\ Len(s) >= 1 /\ ReadsAs(s, 100 * q + r)
  <1> DEFINE d == r \div 10
             e == r % 10
             x == DigitChar[d + 1]
             y == DigitChar[e + 1]
             u == Append(a, x)
             s == Append(u, y)
  <1>1. d \in 0 .. 9 /\ e \in 0 .. 9 /\ r = 10 * d + e
    OBVIOUS
  <1>2. PutInt(r, 2, "0") = <<x, y>>
    BY TwoPlaces
  <1> HIDE DEF d, e
  <1>3. x \in DigitChars /\ y \in DigitChars
    BY <1>1 DEF DigitChars
  <1>4. ReadsAs(u, 10 * q + d)
    BY <1>1, ReadsAppended
  <1>5. u \in Seq(DigitChars) /\ 10 * q + d \in Nat
    BY <1>1, <1>3
  <1>6. ReadsAs(s, 10 * (10 * q + d) + e)
    <2> HIDE DEF u, x
    <2>1. QED BY <1>1, <1>4, <1>5, ReadsAppended
  <1>7. 10 * (10 * q + d) + e = 100 * q + r
    BY <1>1
  <1> HIDE DEF x, y
  <1>8. s \in Seq(DigitChars) /\ Len(s) >= 1
    BY <1>3, <1>5
  <1>9. a \o <<x, y>> = s
    BY <1>3
  <1>10. QED BY <1>2, <1>6, <1>7, <1>8, <1>9

(* What the reader makes of the text of a coordinate.                      *)
LEMMA HundredthsAreRead ==
    ASSUME NEW c \in Int
    PROVE  HundredthsOf(Hundredths(c)) = IF c \in -99 .. -1 THEN -c ELSE c
  <1> DEFINE n == Magnitude(c)
             q == n \div 100
             r == n % 100
             b == PutInt(r, 2, "0")
             s == Digits[q] \o b
  <1>1. n \in Nat /\ n = (IF c < 0 THEN -c ELSE c)
    BY DEF Magnitude
  <1>2. /\ q \in Nat /\ r \in 0 .. 99 /\ n = 100 * q + r
        /\ Quotient(c, 100) = IF c < 0 THEN -q ELSE q
        /\ Magnitude(c) % 100 = r
    <2>1. q \in Nat /\ r \in 0 .. 99 /\ n = 100 * q + r
      BY <1>1
    <2>2. Quotient(c, 100) = IF c < 0 THEN -q ELSE q
      BY <1>1 DEF Quotient
    <2>3. Magnitude(c) % 100 = r
      OBVIOUS
    <2> HIDE DEF q, r, n
    <2>4. QED BY <2>1, <2>2, <2>3
  <1> HIDE DEF q, r, n
  <1>3. Digits[q] \in Seq(DigitChars) /\ Len(Digits[q]) >= 1 /\ ReadsAs(Digits[q], q)
    BY <1>2, DigitsType, DigitsNotEmpty, DigitsRead
  <1>4. s \in Seq(DigitChars) /\ Len(s) >= 1 /\ ReadsAs(s, n) /\ n \in Nat
    <2>1. s \in Seq(DigitChars) /\ Len(s) >= 1 /\ ReadsAs(s, 100 * q + r)
      BY <1>2, <1>3, TwoMoreDigits
    <2>2. n \in Nat /\ n = 100 * q + r
      BY <1>1, <1>2, Zenon
    <2>3. QED BY <2>1, <2>2, Zenon
  <1>5. b \in Seq(DigitChars)
    <2>1. /\ r \div 10 + 1 \in 1 .. 10 /\ (r % 10) + 1 \in 1 .. 10
      BY <1>2
    <2>2. DigitChar[(r \div 10) + 1] \in DigitChars /\ DigitChar[(r % 10) + 1] \in DigitChars
      BY <2>1 DEF DigitChars
    <2>3. b = <<DigitChar[(r \div 10) + 1], DigitChar[(r % 10) + 1]>>
      BY <1>2, TwoPlaces
    <2> DEFINE x == DigitChar[(r \div 10) + 1]
               y == DigitChar[(r % 10) + 1]
    <2>4. x \in DigitChars /\ y \in DigitChars /\ b = <<x, y>>
      BY <2>2, <2>3
    <2> HIDE DEF x, y, b
    <2>5. QED BY <2>4, Pairs
  <1>6. PutUint(q, 0, " ") = Digits[q] /\ PutUint(q, 0 - 1, " ") = Digits[q]
    <2>1. ~ (Len(Digits[q]) < 0) /\ ~ (Len(Digits[q]) < 0 - 1)
      BY <1>3
    <2>2. QED BY <2>1 DEF PutUint, Padded
  <1>7. IntOf(s) = n /\ IntOf(<<"-">> \o s) = -n
    BY <1>4, SignIsRead
  <1> HIDE DEF b
  <1>8. CASE c >= 0 \/ q = 0
    <2>1. PutInt(Quotient(c, 100), 0, " ") = Digits[q]
      <3>1. Quotient(c, 100) = q /\ ~ (q < 0)
        BY <1>2, <1>8
      <3>2. PutInt(q, 0, " ") = PutUint(q, 0, " ")
        BY <3>1 DEF PutInt
      <3>3. QED BY <1>6, <3>1, <3>2
    <2>2. Hundredths(c) = Digits[q] \o <<".">> \o b
      BY <1>2, <2>1 DEF Hundredths, b
    <2>3. Digits[q] \in Seq(DigitChars \union {"-"})
      BY <1>3
    <2>4. HundredthsOf(Hundredths(c)) = n
      BY <1>5, <1>7, <2>2, <2>3, PointLeftOut
    <2>5. n = IF c \in -99 .. -1 THEN -c ELSE c
      BY <1>1, <1>2, <1>8
    <2>6. QED BY <2>4, <2>5
  <1>9. CASE c < 0 /\ q # 0
    <2> DEFINE a == <<"-">> \o Digits[q]
    <2>1. -q < 0 /\ -(-q) = q
      BY <1>2, <1>9
    <2>2. PutInt(Quotient(c, 100), 0, " ") = a
      BY <1>2, <1>6, <1>9, <2>1 DEF PutInt
    <2>3. <<"-">> \in Seq(DigitChars \union {"-"}) /\ Digits[q] \in Seq(DigitChars \union {"-"})
          /\ b \in Seq(DigitChars \union {"-"})
      BY <1>3, <1>5
    <2>4. a \in Seq(DigitChars \union {"-"})
      BY <2>3, ConcatProperties
    <2>5. a \o b = <<"-">> \o s
      <3> DEFINE T == DigitChars \union {"-"}
                 m == <<"-">>
                 d == Digits[q]
      <3>1. m \in Seq(T) /\ d \in Seq(T) /\ b \in Seq(T)
        BY <2>3
      <3> HIDE DEF T, m, d
      <3>2. (m \o d) \o b = m \o (d \o b)
        BY <3>1, ConcatAssociative
      <3>3. QED BY <3>2 DEF m, d
    <2> HIDE DEF a
    <2>6. Hundredths(c) = a \o <<".">> \o b
      BY <1>2, <2>2 DEF Hundredths, b
    <2>7. HundredthsOf(Hundredths(c)) = -n
      BY <1>5, <1>7, <2>4, <2>5, <2>6, PointLeftOut
    <2>8. -n = c /\ c \notin -99 .. -1
      BY <1>1, <1>2, <1>9
    <2>9. QED BY <2>7, <2>8
  <1>10. QED BY <1>2, <1>8, <1>9

-----------------------------------------------------------------------------
(* Arithmetic: quotients and remainders.                                   *)
LEMMA QuotientBounds ==
    ASSUME NEW a \in Int, NEW b \in Nat, b > 0
    PROVE  /\ a \div b \in Int
           /\ b * (a \div b) <= a /\ a < b * (a \div b) + b
  <1>1. a \div b \in Int
    OBVIOUS
  <1>2. b * (a \div b) <= a /\ a < b * (a \div b) + b
    OBVIOUS
  <1>3. QED BY <1>1, <1>2

LEMMA RemainderBounds ==
    ASSUME NEW a \in Int, NEW b \in Nat, b > 0
    PROVE  /\ a % b \in Int /\ 0 <= a % b /\ a % b < b
           /\ a \div b \in Int /\ a = b * (a \div b) + (a % b)
  <1>1. a % b \in Int
    OBVIOUS
  <1>2. 0 <= a % b /\ a % b < b
    OBVIOUS
  <1>3. a \div b \in Int
    OBVIOUS
  <1>4. a = b * (a \div b) + (a % b)
    OBVIOUS
  <1>5. QED BY <1>1, <1>2, <1>3, <1>4

LEMMA QuotientInRange ==
    ASSUME NEW a \in Nat, NEW b \in Nat, b > 0, NEW c \in Nat, a <= b * c
    PROVE  a \div b \in 0 .. c
  OBVIOUS

LEMMA MultipleHasNoRemainder ==
    ASSUME NEW k \in Int, NEW b \in Nat, b > 0
    PROVE  (b * k) % b = 0
  OBVIOUS

LEMMA Distribute ==
    ASSUME NEW b \in Int, NEW k \in Int, NEW q \in Int
    PROVE  /\ b * (k + q) = b * k + b * q /\ b * (k - q) = b * k - b * q
           /\ b * (k + 1) = b * k + b /\ b * (k - 1) = b * k - b
  OBVIOUS

LEMMA Monotonic ==
    ASSUME NEW b \in Nat, NEW k \in Int, NEW q \in Int, k <= q
    PROVE  b * k <= b * q
  OBVIOUS

LEMMA Constants ==
    /\ Orbit \in Nat /\ Orbit > 0 /\ Sunlit \in Nat
    /\ ChargeTicks \in Nat /\ ChargeTicks > 0 /\ DrainTicks \in Nat /\ DrainTicks > 0
    /\ EpsPeriod \in Nat /\ AdcsPeriod \in Nat /\ TlmPeriod \in Nat
    /\ EpsPeriod > 0 /\ AdcsPeriod > 0 /\ TlmPeriod > 0
    /\ LonSpan \in Nat /\ LonSpan > 0 /\ TickMod \in Nat /\ TickMod > 0
    /\ BatteryMin \in Nat /\ BatteryMax \in Nat /\ BatteryStart \in BatteryMin .. BatteryMax
    /\ LatAmp \in Nat /\ LonRate \in Nat /\ RollAmp \in Nat /\ LockLimit \in Nat
    /\ MaxLate \in Nat /\ MaxTicks \in Nat
    /\ RollPeriod \in Nat /\ RollPeriod >= 2
  <1>1. /\ Orbit \in Nat \ {0} /\ ChargeTicks \in Nat \ {0} /\ DrainTicks \in Nat \ {0}
        /\ EpsPeriod \in Nat \ {0} /\ AdcsPeriod \in Nat \ {0} /\ TlmPeriod \in Nat \ {0}
        /\ LonSpan \in Nat \ {0} /\ TickMod \in Nat \ {0}
    BY HousekeepingAssumption
  <1>2. /\ Sunlit \in Nat /\ BatteryMin \in Nat /\ BatteryMax \in Nat /\ LatAmp \in Nat
        /\ LonRate \in Nat /\ RollAmp \in Nat /\ LockLimit \in Nat /\ MaxLate \in Nat
        /\ MaxTicks \in Nat
    BY HousekeepingAssumption
  <1>3. BatteryStart \in BatteryMin .. BatteryMax /\ RollPeriod \in Nat /\ RollPeriod >= 2
    BY HousekeepingAssumption
  <1>4. QED BY <1>1, <1>2, <1>3

(* An orbit is four quarters, a period of the roll two halves.             *)
LEMMA Quarters ==
    /\ Quarter \in Nat /\ Quarter > 0 /\ Orbit = 4 * Quarter
    /\ RollPeriod \div 2 \in Nat /\ RollPeriod \div 2 > 0
    /\ RollPeriod = 2 * (RollPeriod \div 2)
  <1>1. Orbit % 4 = 0 /\ RollPeriod % 2 = 0
    BY HousekeepingAssumption
  <1>2. Quarter \in Nat /\ Quarter > 0 /\ Orbit = 4 * Quarter
    BY <1>1, Constants DEF Quarter
  <1>3. RollPeriod \div 2 \in Nat /\ RollPeriod \div 2 > 0
        /\ RollPeriod = 2 * (RollPeriod \div 2)
    BY <1>1, Constants
  <1>4. QED BY <1>2, <1>3

-----------------------------------------------------------------------------
(* The latitude.  Reach is the place on the orbit as a signed distance     *)
(* from the equator, in ticks: up, down, down, up.                         *)
Reach(phase) ==
    IF phase < Quarter THEN phase
    ELSE IF phase < 3 * Quarter THEN 2 * Quarter - phase
    ELSE phase - 4 * Quarter

(* The fraction of an amplitude that C's division, towards zero, yields.   *)
Part(y, amp, b) == IF y < 0 THEN -(((-y) * amp) \div b) ELSE (y * amp) \div b

LEMMA PhaseRange ==
    ASSUME NEW t \in Nat
    PROVE  Phase(t) \in 0 .. 4 * Quarter - 1
  <1>1. t % Orbit \in Int /\ 0 <= t % Orbit /\ t % Orbit < Orbit
    BY Constants, RemainderBounds
  <1>2. QED BY <1>1, Quarters DEF Phase

LEMMA ReachRange ==
    ASSUME NEW p \in 0 .. 4 * Quarter - 1
    PROVE  Reach(p) \in Int /\ -Quarter <= Reach(p) /\ Reach(p) <= Quarter
  BY Quarters DEF Reach

(* The four branches are one function of the reach, also at the two places *)
(* where it is zero or the branch changes.                                 *)
LEMMA LatitudeIsPart ==
    ASSUME NEW p \in 0 .. 4 * Quarter - 1
    PROVE  Latitude(p) = Part(Reach(p), LatAmp, Quarter)
  <1>1. CASE p < Quarter
    BY <1>1, Quarters DEF Latitude, Part, Reach
  <1>2. CASE ~ (p < Quarter) /\ p < 2 * Quarter
    BY <1>2, Quarters DEF Latitude, Part, Reach
  <1>3. CASE ~ (p < 2 * Quarter) /\ p < 3 * Quarter
    <2>1. Latitude(p) = -(((p - 2 * Quarter) * LatAmp) \div Quarter)
      BY <1>3, Quarters DEF Latitude
    <2>2. CASE p = 2 * Quarter
      <3>1. (0 * LatAmp) \div Quarter = 0
        BY Quarters, Constants
      <3>2. Reach(p) = 0 /\ p - 2 * Quarter = 0
        BY <2>2, Quarters DEF Reach
      <3>3. QED BY <2>1, <3>1, <3>2 DEF Part
    <2>3. CASE p # 2 * Quarter
      <3>1. Reach(p) < 0 /\ -Reach(p) = p - 2 * Quarter
        BY <1>3, <2>3, Quarters DEF Reach
      <3>2. QED BY <2>1, <3>1 DEF Part
    <2>4. QED BY <2>2, <2>3
  <1>4. CASE ~ (p < 3 * Quarter)
    <2>1. Latitude(p) = -(((4 * Quarter - p) * LatAmp) \div Quarter)
      BY <1>4, Quarters DEF Latitude, UntilEnd
    <2>2. Reach(p) < 0 /\ -Reach(p) = 4 * Quarter - p
      BY <1>4, Quarters DEF Reach
    <2>3. QED BY <2>1, <2>2 DEF Part
  <1>5. QED BY <1>1, <1>2, <1>3, <1>4, Quarters

LEMMA PartRange ==
    ASSUME NEW b \in Nat, b > 0, NEW amp \in Nat, NEW y \in Int, -b <= y, y <= b
    PROVE  Part(y, amp, b) \in -amp .. amp
  <1>1. CASE y < 0
    <2>1. -y \in Nat /\ -y <= b
      BY <1>1
    <2>2. (-y) * amp \in Nat /\ (-y) * amp <= b * amp
      BY <2>1
    <2>3. ((-y) * amp) \div b \in 0 .. amp
      BY <2>2, QuotientInRange
    <2>4. QED BY <1>1, <2>3 DEF Part
  <1>2. CASE ~ (y < 0)
    <2>1. y * amp \in Nat /\ y * amp <= b * amp
      BY <1>2
    <2>2. (y * amp) \div b \in 0 .. amp
      BY <2>1, QuotientInRange
    <2>3. QED BY <1>2, <2>2 DEF Part
  <1>3. QED BY <1>1, <1>2

LEMMA LatitudeRange ==
    ASSUME NEW t \in Nat
    PROVE  Latitude(Phase(t)) \in -LatAmp .. LatAmp
  <1> DEFINE p == Phase(t)
             y == Reach(p)
  <1>1. p \in 0 .. 4 * Quarter - 1
    BY PhaseRange
  <1> HIDE DEF p
  <1>2. y \in Int /\ -Quarter <= y /\ y <= Quarter /\ Latitude(p) = Part(y, LatAmp, Quarter)
    BY <1>1, ReachRange, LatitudeIsPart
  <1> HIDE DEF y
  <1>3. Part(y, LatAmp, Quarter) \in -LatAmp .. LatAmp
    BY <1>2, PartRange, Quarters, Constants
  <1> QED
    BY <1>2, <1>3 DEF p

(* The triangle wave of the attitude.                                      *)
Rise(t, period) ==
    LET p == t % period IN IF p < period \div 2 THEN p ELSE period - p

LEMMA TriIsQuotient ==
    ASSUME NEW t, NEW period, NEW amp
    PROVE  Tri(t, period, amp) = (Rise(t, period) * amp * 2) \div (period \div 2) - amp
  BY DEF Tri, Rise, Falling

LEMMA RiseRange ==
    ASSUME NEW t \in Nat
    PROVE  Rise(t, RollPeriod) \in 0 .. RollPeriod \div 2
  <1> DEFINE h == RollPeriod \div 2
             p == t % RollPeriod
  <1>1. p \in Int /\ 0 <= p /\ p < RollPeriod
    BY Constants, RemainderBounds
  <1>2. h \in Nat /\ RollPeriod = 2 * h
    BY Quarters
  <1>3. Rise(t, RollPeriod) = IF p < h THEN p ELSE RollPeriod - p
    BY DEF Rise
  <1> HIDE DEF h, p
  <1>4. (IF p < h THEN p ELSE RollPeriod - p) \in 0 .. h
    BY <1>1, <1>2
  <1>5. QED BY <1>3, <1>4 DEF h

LEMMA TriRange ==
    ASSUME NEW t \in Nat
    PROVE  Tri(t, RollPeriod, RollAmp) \in -RollAmp .. RollAmp
  <1> DEFINE h == RollPeriod \div 2
             v == Rise(t, RollPeriod)
             a == v * RollAmp * 2
  <1>1. v \in 0 .. h /\ h \in Nat /\ h > 0 /\ RollAmp \in Nat
    BY RiseRange, Quarters, Constants
  <1>2. Tri(t, RollPeriod, RollAmp) = a \div h - RollAmp
    BY TriIsQuotient
  <1> HIDE DEF h, v
  <1>3. v * RollAmp \in Nat /\ v * RollAmp <= h * RollAmp
    BY <1>1
  <1>4. a \in Nat /\ a <= h * (2 * RollAmp) /\ 2 * RollAmp \in Nat
    BY <1>1, <1>3
  <1> HIDE DEF a
  <1>5. a \div h \in 0 .. 2 * RollAmp
    BY <1>1, <1>4, QuotientInRange
  <1>6. QED BY <1>1, <1>2, <1>5

LEMMA LongitudeRange ==
    ASSUME NEW t \in Nat
    PROVE  Longitude(t) \in -LonSpan .. LonSpan
  <1> DEFINE m == (t * LonRate) % TickMod
             c == m % LonSpan
             d == LonSpan \div 2
  <1>1. t * LonRate \in Int
    BY Constants
  <1>2. m \in Int
    BY <1>1, Constants, RemainderBounds
  <1>3. Longitude(t) = c - d
    BY DEF Longitude
  <1> HIDE DEF m
  <1>4. c \in Int /\ 0 <= c /\ c < LonSpan
    BY <1>2, Constants, RemainderBounds
  <1>5. d \in Int /\ 0 <= d /\ d <= LonSpan
    BY Constants
  <1> HIDE DEF c, d
  <1>6. QED BY <1>3, <1>4, <1>5, Constants

LEMMA BatteryRange ==
    ASSUME NEW pct \in BatteryMin .. BatteryMax, NEW t
    PROVE  BatteryAfter(pct, t) \in BatteryMin .. BatteryMax
  BY Constants DEF BatteryAfter, CanCharge

-----------------------------------------------------------------------------
(* A sample is not from the future, its task sleeps for its period after   *)
(* it, and is not kept from the CPU for longer than MaxLate.               *)
Timely(at, until, period) ==
    at <= g_ticks /\ at <= until /\ until <= at + period /\ g_ticks <= until + MaxLate

WakeInv ==
    /\ Timely(g_eps.at, wake.eps, EpsPeriod)
    /\ Timely(g_adcs.at, wake.adcs, AdcsPeriod)
    /\ Timely(g_tlm.at, wake.tlm, TlmPeriod)

(* After its task's first update a structure holds what its sample says.   *)
SampleInv ==
    /\ wake.adcs > g_adcs.at => g_adcs.roll_mdeg = Tri(g_adcs.at, RollPeriod, RollAmp)
    /\ g_tlm.pkt_count > 0 => /\ g_tlm.lat_cdeg = Latitude(Phase(g_tlm.at))
                              /\ g_tlm.lon_cdeg = Longitude(g_tlm.at)

(* The next beacon is due as many periods after the start as there were    *)
(* beacons, and later by as many delays at most.                           *)
BeaconInv ==
    \E start \in StartTicks :
        /\ start + TlmPeriod * g_tlm.pkt_count <= wake.tlm
        /\ wake.tlm <= start + (TlmPeriod + MaxLate) * g_tlm.pkt_count
        /\ g_tlm.pkt_count > 0 => wake.tlm = g_tlm.at + TlmPeriod

HkInv == HkTypeOK /\ WakeInv /\ SampleInv /\ BeaconInv

LEMMA HkInitInv == HkInit => HkInv
  <1> SUFFICES ASSUME HkInit PROVE HkInv
    OBVIOUS
  <1>1. g_ticks \in StartTicks /\ g_ticks \in 0 .. MaxTicks
    BY HousekeepingAssumption DEF HkInit
  <1>2. HkTypeOK
    <2>1. 0 \in -RollAmp .. RollAmp /\ 0 \in -LatAmp .. LatAmp /\ 0 \in -LonSpan .. LonSpan
      BY Constants
    <2>2. /\ g_eps \in [battery_pct : BatteryMin .. BatteryMax, charging : BOOLEAN,
                        at : 0 .. MaxTicks]
          /\ g_adcs \in [roll_mdeg : -RollAmp .. RollAmp, locked : BOOLEAN, at : 0 .. MaxTicks]
          /\ g_tlm \in [lat_cdeg : -LatAmp .. LatAmp, lon_cdeg : -LonSpan .. LonSpan,
                        orbit_num : Nat, pkt_count : Nat, at : 0 .. MaxTicks]
      BY <1>1, <2>1, Constants DEF HkInit
    <2>3. wake \in [{"eps", "adcs", "tlm"} -> Nat]
      BY <1>1 DEF HkInit
    <2>4. sunset_pct \in BatteryMin .. BatteryMax
      BY Constants DEF HkInit
    <2>5. QED BY <1>1, <2>2, <2>3, <2>4 DEF HkTypeOK
  <1>3. WakeInv
    BY <1>1, Constants DEF HkInit, WakeInv, Timely
  <1>4. SampleInv
    BY <1>1 DEF HkInit, SampleInv
  <1>5. BeaconInv
    <2>1. g_ticks + TlmPeriod * 0 <= g_ticks /\ g_ticks <= g_ticks + (TlmPeriod + MaxLate) * 0
      BY <1>1, Constants
    <2>2. wake.tlm = g_ticks /\ g_tlm.pkt_count = 0 /\ ~ (0 > 0)
      BY DEF HkInit
    <2>3. QED BY <1>1, <2>1, <2>2 DEF BeaconInv
  <1>6. QED BY <1>2, <1>3, <1>4, <1>5 DEF HkInv

(* The typing facts the steps need.                                        *)
LEMMA HkTypes ==
    ASSUME HkTypeOK
    PROVE  /\ g_ticks \in Nat /\ g_ticks <= MaxTicks
           /\ wake.eps \in Nat /\ wake.adcs \in Nat /\ wake.tlm \in Nat
           /\ g_eps.at \in Nat /\ g_adcs.at \in Nat /\ g_tlm.at \in Nat
           /\ g_eps.battery_pct \in BatteryMin .. BatteryMax
           /\ g_tlm.pkt_count \in Nat
           /\ g_tlm.at <= MaxTicks
  BY Constants DEF HkTypeOK

LEMMA TickKeepsInv ==
    ASSUME HkInv, HkTick
    PROVE  HkInv'
  <1> USE DEF HkInv, HkTick
  <1>1. g_ticks' = g_ticks + 1 /\ g_ticks' \in 0 .. MaxTicks
    BY HkTypes, Constants
  <1>2. HkTypeOK'
    BY <1>1 DEF HkTypeOK
  <1>3. WakeInv'
    <2>1. DOMAIN wake = {"eps", "adcs", "tlm"}
      BY DEF HkTypeOK
    <2>2. /\ g_ticks < wake.eps + MaxLate /\ g_ticks < wake.adcs + MaxLate
          /\ g_ticks < wake.tlm + MaxLate
      BY <2>1
    <2>3. QED BY <1>1, <2>2, HkTypes, Constants DEF WakeInv, Timely
  <1>4. SampleInv' /\ BeaconInv'
    BY DEF SampleInv, BeaconInv
  <1>5. QED BY <1>2, <1>3, <1>4

LEMMA EpsKeepsInv ==
    ASSUME HkInv, EpsTask
    PROVE  HkInv'
  <1> USE DEF HkInv, EpsTask
  <1>1. /\ g_ticks \in 0 .. MaxTicks /\ wake.eps <= g_ticks /\ g_ticks + EpsPeriod \in Nat
        /\ wake \in [{"eps", "adcs", "tlm"} -> Nat]
    BY HkTypes, Constants DEF HkTypeOK, Due
  <1>2. /\ wake'.eps = g_ticks + EpsPeriod /\ wake'.adcs = wake.adcs /\ wake'.tlm = wake.tlm
        /\ wake' \in [{"eps", "adcs", "tlm"} -> Nat]
    BY <1>1 DEF EpsSleep
  <1>3. HkTypeOK'
    <2>1. BatteryAfter(g_eps.battery_pct, g_ticks) \in BatteryMin .. BatteryMax
      BY HkTypes, BatteryRange
    <2>2. (Phase(g_ticks) < Sunlit) \in BOOLEAN
      OBVIOUS
    <2>3. g_eps' \in [battery_pct : BatteryMin .. BatteryMax, charging : BOOLEAN,
                      at : 0 .. MaxTicks]
      BY <1>1, <2>1, <2>2
    <2>4. QED BY <1>2, <2>3 DEF HkTypeOK
  <1>4. WakeInv'
    <2>1. g_eps'.at = g_ticks
      OBVIOUS
    <2>2. QED BY <1>1, <1>2, <2>1, HkTypes, Constants DEF WakeInv, Timely
  <1>5. SampleInv' /\ BeaconInv'
    BY <1>2 DEF SampleInv, BeaconInv
  <1>6. QED BY <1>3, <1>4, <1>5

LEMMA AdcsKeepsInv ==
    ASSUME HkInv, AdcsTask
    PROVE  HkInv'
  <1> USE DEF HkInv, AdcsTask
  <1>1. /\ g_ticks \in 0 .. MaxTicks /\ wake.adcs <= g_ticks /\ g_ticks + AdcsPeriod \in Nat
        /\ wake \in [{"eps", "adcs", "tlm"} -> Nat]
    BY HkTypes, Constants DEF HkTypeOK, Due
  <1>2. /\ wake'.adcs = g_ticks + AdcsPeriod /\ wake'.eps = wake.eps /\ wake'.tlm = wake.tlm
        /\ wake' \in [{"eps", "adcs", "tlm"} -> Nat]
    BY <1>1
  <1>3. HkTypeOK'
    <2>1. Tri(g_ticks, RollPeriod, RollAmp) \in -RollAmp .. RollAmp
      BY HkTypes, TriRange
    <2>2. (Magnitude(Tri(g_ticks, RollPeriod, RollAmp)) < LockLimit) \in BOOLEAN
      OBVIOUS
    <2>3. g_adcs' \in [roll_mdeg : -RollAmp .. RollAmp, locked : BOOLEAN, at : 0 .. MaxTicks]
      BY <1>1, <2>1, <2>2
    <2>4. QED BY <1>2, <2>3 DEF HkTypeOK
  <1>4. g_adcs'.at = g_ticks /\ g_adcs'.roll_mdeg = Tri(g_ticks, RollPeriod, RollAmp)
    OBVIOUS
  <1>5. WakeInv'
    BY <1>1, <1>2, <1>4, HkTypes, Constants DEF WakeInv, Timely
  <1>6. SampleInv' /\ BeaconInv'
    BY <1>2, <1>4 DEF SampleInv, BeaconInv
  <1>7. QED BY <1>3, <1>5, <1>6

LEMMA TlmKeepsInv ==
    ASSUME HkInv, TlmTask
    PROVE  HkInv'
  <1> USE DEF HkInv, TlmTask
  <1>1. /\ g_ticks \in 0 .. MaxTicks /\ wake.tlm <= g_ticks /\ g_ticks + TlmPeriod \in Nat
        /\ wake \in [{"eps", "adcs", "tlm"} -> Nat]
    BY HkTypes, Constants DEF HkTypeOK, Due
  <1>2. /\ wake'.tlm = g_ticks + TlmPeriod /\ wake'.eps = wake.eps /\ wake'.adcs = wake.adcs
        /\ wake' \in [{"eps", "adcs", "tlm"} -> Nat]
    BY <1>1
  <1>3. HkTypeOK'
    <2>1. /\ Latitude(Phase(g_ticks)) \in -LatAmp .. LatAmp
          /\ Longitude(g_ticks) \in -LonSpan .. LonSpan
      BY HkTypes, LatitudeRange, LongitudeRange
    <2>2. 1 + g_ticks \div Orbit \in Nat /\ NextCount \in Nat
      BY HkTypes, Constants DEF NextCount
    <2>3. g_tlm' \in [lat_cdeg : -LatAmp .. LatAmp, lon_cdeg : -LonSpan .. LonSpan,
                      orbit_num : Nat, pkt_count : Nat, at : 0 .. MaxTicks]
      BY <1>1, <2>1, <2>2
    <2>4. QED BY <1>2, <2>3 DEF HkTypeOK
  <1>4. /\ g_tlm'.at = g_ticks /\ g_tlm'.pkt_count = g_tlm.pkt_count + 1
        /\ g_tlm'.lat_cdeg = Latitude(Phase(g_ticks)) /\ g_tlm'.lon_cdeg = Longitude(g_ticks)
    BY DEF NextCount
  <1>5. WakeInv'
    BY <1>1, <1>2, <1>4, HkTypes, Constants DEF WakeInv, Timely
  <1>6. SampleInv'
    BY <1>2, <1>4 DEF SampleInv
  <1>7. BeaconInv'
    <2>1. PICK start \in StartTicks :
             /\ start + TlmPeriod * g_tlm.pkt_count <= wake.tlm
             /\ wake.tlm <= start + (TlmPeriod + MaxLate) * g_tlm.pkt_count
      BY DEF BeaconInv
    <2> DEFINE k == g_tlm.pkt_count
               late == TlmPeriod + MaxLate
    <2>2. k \in Int /\ TlmPeriod \in Int /\ late \in Int /\ start \in Int
      BY HkTypes, Constants, HousekeepingAssumption
    <2>3. g_ticks <= wake.tlm + MaxLate
      BY DEF WakeInv, Timely
    <2> HIDE DEF k, late
    <2>4. TlmPeriod * (k + 1) = TlmPeriod * k + TlmPeriod /\ late * (k + 1) = late * k + late
      BY <2>2, Distribute
    <2>5. /\ start + TlmPeriod * (k + 1) <= g_ticks + TlmPeriod
          /\ g_ticks + TlmPeriod <= start + late * (k + 1)
      <3>1. start + TlmPeriod * k <= wake.tlm /\ wake.tlm <= start + late * k
        BY <2>1 DEF k, late
      <3>2. late = TlmPeriod + MaxLate
        BY DEF late
      <3> DEFINE a == TlmPeriod * k
                 b == late * k
      <3>3. a \in Int /\ b \in Int
        BY <2>2
      <3>4. g_ticks \in Int /\ wake.tlm \in Int /\ MaxLate \in Int
        BY HkTypes, Constants
      <3> HIDE DEF a, b
      <3>5. /\ start + (a + TlmPeriod) <= g_ticks + TlmPeriod
            /\ g_ticks + TlmPeriod <= start + (b + late)
        <4>1. start + a <= wake.tlm /\ wake.tlm <= start + b
          BY <3>1 DEF a, b
        <4>2. QED BY <1>1, <2>2, <2>3, <3>2, <3>3, <3>4, <4>1
      <3>6. QED BY <2>4, <3>5 DEF a, b
    <2>6. /\ start + TlmPeriod * g_tlm'.pkt_count <= wake'.tlm
          /\ wake'.tlm <= start + (TlmPeriod + MaxLate) * g_tlm'.pkt_count
          /\ wake'.tlm = g_tlm'.at + TlmPeriod
      BY <1>2, <1>4, <2>5 DEF k, late
    <2>7. QED BY <2>6 DEF BeaconInv
  <1>8. QED BY <1>3, <1>5, <1>6, <1>7

LEMMA HkStutters ==
    ASSUME HkInv, UNCHANGED hkVars
    PROVE  HkInv'
  BY DEF hkVars, HkInv, HkTypeOK, WakeInv, Timely, SampleInv, BeaconInv

LEMMA HkInvariance == HkSpec => []HkInv
  <1>1. HkInv /\ [HkStep \/ ShellPolls]_hkVars => HkInv'
    BY TickKeepsInv, EpsKeepsInv, AdcsKeepsInv, TlmKeepsInv, HkStutters DEF HkStep, ShellPolls
  <1>2. QED BY HkInitInv, <1>1, PTL DEF HkSpec

-----------------------------------------------------------------------------
(* The battery, the attitude and the position stay in their ranges,        *)
(* whatever the delays of the tasks.                                       *)
THEOREM HkTypeCorrect == HkSpec => []HkTypeOK
  <1>1. HkInv => HkTypeOK
    BY DEF HkInv
  <1>2. QED BY HkInvariance, <1>1, PTL

(* A beacon's number bounds the time since the start from both sides: no   *)
(* beacon is lost and none is counted twice.                               *)
LEMMA BeaconTellsTime == HkInv => BeaconNumberTellsTime
  <1> SUFFICES ASSUME HkInv, g_tlm.pkt_count > 0
      PROVE \E start \in StartTicks :
               g_tlm.at \in start + TlmPeriod * (g_tlm.pkt_count - 1)
                            .. start + (TlmPeriod + MaxLate) * (g_tlm.pkt_count - 1) + MaxLate
    BY DEF BeaconNumberTellsTime
  <1> DEFINE k == g_tlm.pkt_count
             late == TlmPeriod + MaxLate
  <1>1. PICK start \in StartTicks :
           /\ start + TlmPeriod * k <= wake.tlm /\ wake.tlm <= start + late * k
           /\ wake.tlm = g_tlm.at + TlmPeriod
    BY DEF HkInv, BeaconInv
  <1>2. /\ k \in Int /\ TlmPeriod \in Int /\ late \in Int /\ start \in Int
        /\ g_tlm.at \in Int /\ MaxLate \in Int /\ late = TlmPeriod + MaxLate
    BY HkTypes, Constants, HousekeepingAssumption DEF HkInv
  <1> HIDE DEF k, late
  <1>3. TlmPeriod * (k - 1) = TlmPeriod * k - TlmPeriod /\ late * (k - 1) = late * k - late
    BY <1>2, Distribute
  <1> DEFINE a == TlmPeriod * k
             b == late * k
  <1>4. a \in Int /\ b \in Int
    BY <1>2
  <1>5. start + a <= g_tlm.at + TlmPeriod /\ g_tlm.at + TlmPeriod <= start + b
    BY <1>1
  <1> HIDE DEF a, b
  <1>6. start + (a - TlmPeriod) <= g_tlm.at /\ g_tlm.at <= start + (b - late) + MaxLate
    BY <1>2, <1>4, <1>5
  <1>7. start + (a - TlmPeriod) \in Int /\ start + (b - late) + MaxLate \in Int
    BY <1>2, <1>4
  <1>8. g_tlm.at \in start + (a - TlmPeriod) .. start + (b - late) + MaxLate
    BY <1>2, <1>6, <1>7
  <1>9. g_tlm.at \in start + TlmPeriod * (k - 1) .. start + late * (k - 1) + MaxLate
    BY <1>3, <1>8 DEF a, b
  <1>10. QED BY <1>9 DEF k, late


(* As the property a run checks.                                           *)
THEOREM BeaconsCountTime == HkSpec => []BeaconNumberTellsTime
  BY HkInvariance, BeaconTellsTime, PTL

-----------------------------------------------------------------------------
(* Continuity.  A quotient grows by at most one more than its numerator's  *)
(* growth is worth, and never falls.                                       *)
LEMMA QuotientSlope ==
    ASSUME NEW a \in Int, NEW c \in Int, NEW b \in Nat, b > 0, c <= a
    PROVE  c \div b <= a \div b /\ b * ((a \div b) - (c \div b) - 1) <= a - c
  <1> DEFINE m == a \div b
             n == c \div b
  <1>1. /\ m \in Int /\ b * m <= a /\ a < b * m + b
        /\ n \in Int /\ b * n <= c /\ c < b * n + b
    BY QuotientBounds
  <1> HIDE DEF m, n
  <1>2. n <= m
    <2> SUFFICES ASSUME m + 1 <= n PROVE FALSE
      BY <1>1
    <2>1. b * (m + 1) <= b * n /\ b * (m + 1) = b * m + b
      BY <1>1, Monotonic, Distribute
    <2>2. QED BY <1>1, <2>1
  <1>3. b * (m - n - 1) = b * m - b * n - b
    <2>1. b * (m - n - 1) = b * (m - n) - b /\ b * (m - n) = b * m - b * n
      BY <1>1, Distribute
    <2>2. QED BY <2>1
  <1>4. b * (m - n - 1) <= a - c
    BY <1>1, <1>3
  <1>5. QED BY <1>2, <1>4 DEF m, n

(* Within a period a phase goes on by the time that passes, or starts over *)
(* once.                                                                   *)
LEMMA PhaseStep ==
    ASSUME NEW t \in Nat, NEW u \in Nat, t <= u, NEW p \in Nat, p > 0, u - t < p
    PROVE  u % p = (t % p) + (u - t) \/ u % p = (t % p) + (u - t) - p
  <1> DEFINE i == t \div p
             j == u \div p
             x == t % p
             y == u % p
  <1>1. /\ i \in Int /\ x \in Int /\ 0 <= x /\ x < p /\ t = p * i + x
        /\ j \in Int /\ y \in Int /\ 0 <= y /\ y < p /\ u = p * j + y
    BY RemainderBounds
  <1> HIDE DEF i, j, x, y
  <1>2. p * (j - i) = p * j - p * i
    BY <1>1, Distribute
  <1>3. u - t = p * (j - i) + (y - x)
    BY <1>1, <1>2
  <1>4. j - i <= 1
    <2> SUFFICES ASSUME 2 <= j - i PROVE FALSE
      BY <1>1
    <2>1. p * 2 <= p * (j - i)
      BY <1>1, Monotonic
    <2>2. QED BY <1>1, <1>3, <2>1
  <1>5. 0 <= j - i
    <2> SUFFICES ASSUME j - i <= -1 PROVE FALSE
      BY <1>1
    <2>1. p * (j - i) <= p * (-1)
      BY <1>1, Monotonic
    <2>2. QED BY <1>1, <1>3, <2>1
  <1>6. CASE j - i = 0
    <2>1. p * (j - i) = 0
      BY <1>6
    <2>2. QED BY <1>1, <1>3, <2>1 DEF x, y
  <1>7. CASE j - i = 1
    <2>1. p * (j - i) = p
      BY <1>7
    <2>2. QED BY <1>1, <1>3, <2>1 DEF x, y
  <1>8. QED BY <1>1, <1>4, <1>5, <1>6, <1>7

(* The triangle wave's argument moves no faster than time, also where it   *)
(* turns and where the period starts over.                                 *)
LEMMA RiseSlope ==
    ASSUME NEW t \in Nat, NEW u \in Nat, t <= u
    PROVE  /\ Rise(u, RollPeriod) - Rise(t, RollPeriod) <= u - t
           /\ Rise(t, RollPeriod) - Rise(u, RollPeriod) <= u - t
  <1> DEFINE h == RollPeriod \div 2
             x == t % RollPeriod
             y == u % RollPeriod
             v == Rise(t, RollPeriod)
             w == Rise(u, RollPeriod)
  <1>1. h \in Nat /\ h > 0 /\ RollPeriod = 2 * h
    BY Quarters
  <1>2. v \in 0 .. h /\ w \in 0 .. h
    BY RiseRange
  <1>3. CASE u - t >= h
    <2> HIDE DEF h, v, w
    <2>1. w - v <= u - t /\ v - w <= u - t
      BY <1>1, <1>2, <1>3
    <2>2. QED BY <2>1 DEF v, w
  <1>4. CASE ~ (u - t >= h)
    <2>1. u - t < RollPeriod
      BY <1>1, <1>4
    <2>2. y = x + (u - t) \/ y = x + (u - t) - RollPeriod
      <3>1. RollPeriod \in Nat /\ RollPeriod > 0
        BY Constants
      <3> HIDE DEF h
      <3>2. QED BY <2>1, <3>1, PhaseStep
    <2>3. x \in Int /\ 0 <= x /\ x < RollPeriod /\ y \in Int /\ 0 <= y /\ y < RollPeriod
      BY Constants, RemainderBounds
    <2>4. /\ v = (IF x < h THEN x ELSE RollPeriod - x)
          /\ w = (IF y < h THEN y ELSE RollPeriod - y)
      BY DEF Rise
    <2> HIDE DEF h, x, y, v, w
    <2>5. w - v <= u - t /\ v - w <= u - t
      BY <1>1, <1>4, <2>2, <2>3, <2>4
    <2>6. QED BY <2>5 DEF v, w
  <1>5. QED BY <1>3, <1>4

(* One direction of the wave's slope.                                      *)
LEMMA WaveSlope ==
    ASSUME NEW h \in Nat, h > 0, NEW amp \in Nat, NEW v \in Int, NEW w \in Int,
           NEW d \in Nat, v <= w, w - v <= d
    PROVE  LET m == (v * amp * 2) \div h
               n == (w * amp * 2) \div h
           IN  m \in Int /\ n \in Int /\ m <= n /\ h * (n - m - 1) <= 2 * amp * d
  <1> DEFINE a == v * amp * 2
             c == w * amp * 2
             m == a \div h
             n == c \div h
  <1>1. a \in Int /\ c \in Int
    OBVIOUS
  <1>2. a <= c /\ c - a <= 2 * amp * d
    <2>1. amp * (w - v) <= amp * d /\ amp * (w - v) = amp * w - amp * v
      BY Monotonic, Distribute
    <2>2. 0 <= amp * (w - v)
      OBVIOUS
    <2>3. QED BY <2>1, <2>2
  <1> HIDE DEF a, c
  <1>3. m <= n /\ h * (n - m - 1) <= c - a /\ m \in Int /\ n \in Int
    BY <1>1, <1>2, QuotientSlope, QuotientBounds
  <1>4. h * (n - m - 1) \in Int /\ 2 * amp * d \in Int
    BY <1>3
  <1>5. h * (n - m - 1) <= 2 * amp * d
    BY <1>1, <1>2, <1>3, <1>4
  <1>6. QED BY <1>3, <1>5 DEF a, c

LEMMA TriSlope ==
    ASSUME NEW t \in Nat, NEW u \in Nat, t <= u
    PROVE  RollPeriod * (Magnitude(Tri(u, RollPeriod, RollAmp) - Tri(t, RollPeriod, RollAmp)) - 1)
              <= 4 * RollAmp * (u - t)
  <1> DEFINE h == RollPeriod \div 2
             v == Rise(t, RollPeriod)
             w == Rise(u, RollPeriod)
             d == u - t
             m == (v * RollAmp * 2) \div h
             n == (w * RollAmp * 2) \div h
             g == Magnitude(n - m)
  <1>1. h \in Nat /\ h > 0 /\ RollPeriod = 2 * h /\ RollAmp \in Nat /\ d \in Nat
    BY Quarters, Constants
  <1>2. v \in Int /\ w \in Int /\ w - v <= d /\ v - w <= d
    BY RiseRange, RiseSlope, Quarters
  <1>3. Magnitude(Tri(u, RollPeriod, RollAmp) - Tri(t, RollPeriod, RollAmp))
           = Magnitude((n - RollAmp) - (m - RollAmp))
    BY TriIsQuotient
  <1> HIDE DEF h, v, w, d
  <1>4. m \in Int /\ n \in Int /\ g \in Int /\ h * (g - 1) <= 2 * RollAmp * d
    <2>1. CASE v <= w
      <3>1. m \in Int /\ n \in Int /\ m <= n /\ h * (n - m - 1) <= 2 * RollAmp * d
        BY <1>1, <1>2, <2>1, WaveSlope
      <3>2. g = n - m
        BY <3>1 DEF Magnitude
      <3>3. QED BY <3>1, <3>2
    <2>2. CASE w <= v
      <3>1. m \in Int /\ n \in Int /\ n <= m /\ h * (m - n - 1) <= 2 * RollAmp * d
        BY <1>1, <1>2, <2>2, WaveSlope
      <3>2. g = m - n
        BY <3>1 DEF Magnitude
      <3>3. QED BY <3>1, <3>2
    <2>3. QED BY <1>2, <2>1, <2>2
  <1> HIDE DEF m, n
  <1>5. Magnitude((n - RollAmp) - (m - RollAmp)) = g
    <2>1. (n - RollAmp) - (m - RollAmp) = n - m
      BY <1>1, <1>4
    <2>2. QED BY <2>1
  <1> HIDE DEF g
  <1>6. RollPeriod * (g - 1) <= 4 * RollAmp * d
    <2> DEFINE e == h * (g - 1)
               f == RollAmp * d
    <2>1. e \in Int /\ f \in Int /\ RollPeriod * (g - 1) = 2 * e
          /\ 2 * RollAmp * d = 2 * f /\ 4 * RollAmp * d = 4 * f
      BY <1>1, <1>4
    <2>2. e <= 2 * f
      BY <1>4, <2>1
    <2> HIDE DEF e, f
    <2>3. QED BY <2>1, <2>2
  <1>7. QED BY <1>3, <1>5, <1>6 DEF d


(* The attitude moves continuously, over the turns of the triangle wave    *)
(* and where it starts over, however late its task runs.                   *)
THEOREM AttitudeMovesContinuously == HkSpec => AttitudeContinuous
  <1>1. ASSUME HkInv, [HkStep \/ ShellPolls]_hkVars,
               g_adcs'.at > g_adcs.at, wake.adcs > g_adcs.at
        PROVE  RollPeriod * (Magnitude(g_adcs'.roll_mdeg - g_adcs.roll_mdeg) - 1)
                  <= 4 * RollAmp * (g_adcs'.at - g_adcs.at)
    <2>1. g_adcs.at \in Nat /\ g_ticks \in Nat
      BY <1>1, HkTypes DEF HkInv
    <2>2. g_adcs' # g_adcs
      BY <1>1, <2>1
    <2>3. AdcsTask
      BY <1>1, <2>2 DEF HkStep, HkTick, EpsTask, TlmTask, ShellPolls, hkVars
    <2>4. g_adcs'.at = g_ticks /\ g_adcs'.roll_mdeg = Tri(g_ticks, RollPeriod, RollAmp)
      BY <2>3 DEF AdcsTask
    <2>5. g_adcs.roll_mdeg = Tri(g_adcs.at, RollPeriod, RollAmp) /\ g_adcs.at <= g_ticks
      BY <1>1 DEF HkInv, SampleInv, WakeInv, Timely
    <2>6. QED BY <2>1, <2>4, <2>5, TriSlope
  <1>2. HkInv /\ [HkStep \/ ShellPolls]_hkVars =>
           [g_adcs'.at > g_adcs.at /\ wake.adcs > g_adcs.at =>
              RollPeriod * (Magnitude(g_adcs'.roll_mdeg - g_adcs.roll_mdeg) - 1)
                 <= 4 * RollAmp * (g_adcs'.at - g_adcs.at)]_hkVars
    BY <1>1
  <1>3. QED BY HkInvariance, <1>2, PTL DEF HkSpec, AttitudeContinuous

-----------------------------------------------------------------------------
(* The reach moves no faster than time, over the seams of the branches and *)
(* of the orbit.                                                           *)
LEMMA ReachSlope ==
    ASSUME NEW t \in Nat, NEW u \in Nat, t <= u
    PROVE  /\ Reach(Phase(u)) - Reach(Phase(t)) <= u - t
           /\ Reach(Phase(t)) - Reach(Phase(u)) <= u - t
  <1> DEFINE x == Phase(t)
             y == Phase(u)
             v == Reach(x)
             w == Reach(y)
  <1>1. Quarter \in Nat /\ Quarter > 0 /\ Orbit = 4 * Quarter
    BY Quarters
  <1>2. x \in 0 .. 4 * Quarter - 1 /\ y \in 0 .. 4 * Quarter - 1
    BY PhaseRange
  <1>3. /\ v \in Int /\ -Quarter <= v /\ v <= Quarter
        /\ w \in Int /\ -Quarter <= w /\ w <= Quarter
    BY <1>2, ReachRange
  <1>4. CASE u - t >= 2 * Quarter
    <2> HIDE DEF v, w
    <2>1. w - v <= u - t /\ v - w <= u - t
      BY <1>1, <1>3, <1>4
    <2>2. QED BY <2>1 DEF v, w
  <1>5. CASE ~ (u - t >= 2 * Quarter)
    <2>1. y = x + (u - t) \/ y = x + (u - t) - 4 * Quarter
      <3>1. Orbit \in Nat /\ Orbit > 0 /\ u - t < Orbit
        BY <1>1, <1>5
      <3>2. u % Orbit = (t % Orbit) + (u - t) \/ u % Orbit = (t % Orbit) + (u - t) - Orbit
        BY <3>1, PhaseStep
      <3>3. QED BY <1>1, <3>2 DEF Phase
    <2>2. /\ v = (IF x < Quarter THEN x ELSE IF x < 3 * Quarter THEN 2 * Quarter - x
                  ELSE x - 4 * Quarter)
          /\ w = (IF y < Quarter THEN y ELSE IF y < 3 * Quarter THEN 2 * Quarter - y
                  ELSE y - 4 * Quarter)
      BY DEF Reach
    <2> HIDE DEF x, y, v, w
    <2>3. w - v <= u - t /\ v - w <= u - t
      BY <1>1, <1>2, <1>5, <2>1, <2>2
    <2>4. QED BY <2>3 DEF v, w, x, y
  <1>6. QED BY <1>4, <1>5, Zenon

(* Division towards zero never falls, and grows as its quotient does, on   *)
(* both sides of zero and across it.                                       *)
LEMMA PartSlope ==
    ASSUME NEW b \in Nat, b > 0, NEW amp \in Nat, NEW y \in Int, NEW z \in Int, z <= y
    PROVE  /\ Part(y, amp, b) \in Int /\ Part(z, amp, b) \in Int
           /\ Part(z, amp, b) <= Part(y, amp, b)
           /\ b * (Part(y, amp, b) - Part(z, amp, b) - 1) <= amp * (y - z)
  <1>1. CASE 0 <= z
    <2> DEFINE a == y * amp
               c == z * amp
    <2>1. a \in Int /\ c \in Int /\ c <= a /\ a - c = amp * (y - z)
      <3>1. amp * z <= amp * y /\ amp * (y - z) = amp * y - amp * z
        BY Monotonic, Distribute
      <3>2. QED BY <3>1
    <2>2. Part(y, amp, b) = a \div b /\ Part(z, amp, b) = c \div b
      BY <1>1 DEF Part
    <2> HIDE DEF a, c
    <2>3. QED BY <2>1, <2>2, QuotientSlope, QuotientBounds
  <1>2. CASE y < 0
    <2> DEFINE a == (-y) * amp
               c == (-z) * amp
               m == a \div b
               n == c \div b
    <2>1. a \in Int /\ c \in Int /\ a <= c /\ c - a = amp * (y - z)
      <3>1. amp * z <= amp * y /\ amp * (y - z) = amp * y - amp * z
        BY Monotonic, Distribute
      <3>2. a = -(amp * y) /\ c = -(amp * z) /\ amp * y \in Int /\ amp * z \in Int
        OBVIOUS
      <3>3. QED BY <3>1, <3>2
    <2>2. Part(y, amp, b) = -m /\ Part(z, amp, b) = -n
      BY <1>2 DEF Part
    <2> HIDE DEF a, c
    <2>3. m \in Int /\ n \in Int /\ m <= n /\ b * (n - m - 1) <= c - a
      BY <2>1, QuotientSlope, QuotientBounds
    <2> HIDE DEF m, n
    <2>4. (-m) - (-n) - 1 = n - m - 1 /\ -n <= -m /\ -m \in Int /\ -n \in Int
      BY <2>3
    <2>5. QED BY <2>1, <2>2, <2>3, <2>4
  <1>3. CASE z < 0 /\ 0 <= y
    <2> DEFINE a == y * amp
               c == (-z) * amp
               m == a \div b
               n == c \div b
    <2>1. a \in Nat /\ c \in Nat /\ a + c = amp * (y - z)
      <3>1. amp * (y - z) = amp * y - amp * z
        BY Distribute
      <3>2. a = amp * y /\ c = -(amp * z) /\ amp * y \in Int /\ amp * z \in Int
        OBVIOUS
      <3>3. a \in Nat /\ c \in Nat
        BY <1>3
      <3>4. QED BY <3>1, <3>2, <3>3
    <2>2. Part(y, amp, b) = m /\ Part(z, amp, b) = -n
      BY <1>3 DEF Part
    <2>3. /\ m \in Int /\ b * m <= a /\ n \in Int /\ b * n <= c
          /\ 0 <= m /\ 0 <= n
      <3> HIDE DEF a, c
      <3>1. m \in Int /\ b * m <= a /\ n \in Int /\ b * n <= c
        BY <2>1, QuotientBounds
      <3>2. 0 <= m /\ 0 <= n
        BY <2>1
      <3>3. QED BY <3>1, <3>2
    <2> HIDE DEF a, c, m, n
    <2>4. b * (m + n) = b * m + b * n /\ b * (m + n - 1) = b * (m + n) - b
      BY <2>3, Distribute
    <2>5. m - (-n) - 1 = m + n - 1 /\ -n <= m /\ -n \in Int
      BY <2>3
    <2>6. b * (m + n - 1) <= a + c
      <3> DEFINE f == b * m
                 g == b * n
      <3>1. f \in Int /\ g \in Int /\ f <= a /\ g <= c
        BY <2>3
      <3>2. b * (m + n - 1) = f + g - b
        BY <2>3, <2>4, <3>1
      <3> HIDE DEF f, g
      <3>3. QED BY <2>1, <3>1, <3>2
    <2>7. QED BY <2>1, <2>2, <2>3, <2>5, <2>6
  <1>4. QED BY <1>1, <1>2, <1>3

LEMMA LatitudeSlope ==
    ASSUME NEW t \in Nat, NEW u \in Nat, t <= u
    PROVE  Quarter * (Magnitude(Latitude(Phase(u)) - Latitude(Phase(t))) - 1)
              <= (u - t) * LatAmp
  <1> DEFINE v == Reach(Phase(t))
             w == Reach(Phase(u))
             m == Part(v, LatAmp, Quarter)
             n == Part(w, LatAmp, Quarter)
             d == u - t
             g == Magnitude(n - m)
  <1>1. Quarter \in Nat /\ Quarter > 0 /\ LatAmp \in Nat /\ d \in Nat
    BY Quarters, Constants
  <1>2. v \in Int /\ w \in Int /\ w - v <= d /\ v - w <= d
    BY PhaseRange, ReachRange, ReachSlope
  <1>3. Latitude(Phase(u)) = n /\ Latitude(Phase(t)) = m
    BY PhaseRange, LatitudeIsPart
  <1> HIDE DEF v, w, d
  <1>4. Quarter * (g - 1) <= LatAmp * d
    <2>1. CASE v <= w
      <3>1. m \in Int /\ n \in Int /\ m <= n /\ Quarter * (n - m - 1) <= LatAmp * (w - v)
        BY <1>1, <1>2, <2>1, PartSlope
      <3>2. LatAmp * (w - v) <= LatAmp * d
        BY <1>1, <1>2, Monotonic
      <3>3. g = n - m
        BY <3>1 DEF Magnitude
      <3> HIDE DEF m, n, g
      <3>4. Quarter * (g - 1) \in Int /\ LatAmp * (w - v) \in Int /\ LatAmp * d \in Int
        BY <1>1, <1>2, <3>1, <3>3
      <3>5. Quarter * (g - 1) <= LatAmp * (w - v)
        BY <3>1, <3>3
      <3>6. QED BY <3>2, <3>4, <3>5
    <2>2. CASE w <= v
      <3>1. m \in Int /\ n \in Int /\ n <= m /\ Quarter * (m - n - 1) <= LatAmp * (v - w)
        BY <1>1, <1>2, <2>2, PartSlope
      <3>2. LatAmp * (v - w) <= LatAmp * d
        BY <1>1, <1>2, Monotonic
      <3>3. g = m - n
        BY <3>1 DEF Magnitude
      <3> HIDE DEF m, n, g
      <3>4. Quarter * (g - 1) \in Int /\ LatAmp * (v - w) \in Int /\ LatAmp * d \in Int
        BY <1>1, <1>2, <3>1, <3>3
      <3>5. Quarter * (g - 1) <= LatAmp * (v - w)
        BY <3>1, <3>3
      <3>6. QED BY <3>2, <3>4, <3>5
    <2>3. QED BY <1>2, <2>1, <2>2
  <1>5. LatAmp * d = d * LatAmp
    BY <1>1
  <1>6. QED BY <1>3, <1>4, <1>5 DEF d

(* Before the product wraps, the longitude advances by LonRate per tick,   *)
(* modulo a turn.                                                          *)
NoLongitudeWrap == LonRate * MaxTicks < TickMod

LEMMA LongitudeSlope ==
    ASSUME NoLongitudeWrap, NEW t \in 0 .. MaxTicks, NEW u \in 0 .. MaxTicks
    PROVE  (Longitude(u) - Longitude(t) - LonRate * (u - t)) % LonSpan = 0
  <1> DEFINE a == t * LonRate
             c == u * LonRate
             i == a \div LonSpan
             j == c \div LonSpan
  <1>1. a \in Nat /\ c \in Nat /\ a < TickMod /\ c < TickMod
    <2>1. LonRate * t <= LonRate * MaxTicks /\ LonRate * u <= LonRate * MaxTicks
      BY Constants, Monotonic
    <2>2. LonRate * t = a /\ LonRate * u = c /\ a \in Nat /\ c \in Nat
      BY Constants
    <2>3. LonRate * MaxTicks \in Int /\ LonRate * MaxTicks < TickMod
      BY Constants DEF NoLongitudeWrap
    <2> HIDE DEF a, c
    <2>4. QED BY <2>1, <2>2, <2>3, Constants
  <1>2. LonRate * (u - t) = c - a
    BY Constants, Distribute
  <1>3. Longitude(t) = ((a % TickMod) % LonSpan) - (LonSpan \div 2)
    BY DEF Longitude
  <1>4. Longitude(u) = ((c % TickMod) % LonSpan) - (LonSpan \div 2)
    BY DEF Longitude
  <1> HIDE DEF a, c
  <1>5. a % TickMod = a /\ c % TickMod = c
    BY <1>1, Constants
  <1>6. /\ i \in Int /\ a % LonSpan \in Int /\ a = LonSpan * i + (a % LonSpan)
        /\ j \in Int /\ c % LonSpan \in Int /\ c = LonSpan * j + (c % LonSpan)
    BY <1>1, Constants, RemainderBounds
  <1>7. LonSpan \div 2 \in Int
    BY Constants
  <1> HIDE DEF i, j
  <1>8. LonSpan * (i - j) = LonSpan * i - LonSpan * j
    BY <1>6, Constants, Distribute
  <1>9. Longitude(u) - Longitude(t) - (c - a) = LonSpan * (i - j)
    <2> DEFINE x == a % LonSpan
               y == c % LonSpan
               e == LonSpan \div 2
               f == LonSpan * i
               g == LonSpan * j
    <2>1. Longitude(u) = y - e /\ Longitude(t) = x - e
      BY <1>3, <1>4, <1>5
    <2>2. /\ x \in Int /\ y \in Int /\ e \in Int /\ f \in Int /\ g \in Int
          /\ a = f + x /\ c = g + y
      BY <1>6, <1>7, Constants
    <2> HIDE DEF x, y, e, f, g
    <2>3. (y - e) - (x - e) - ((g + y) - (f + x)) = f - g
      BY <2>2
    <2>4. QED BY <1>8, <2>1, <2>2, <2>3 DEF f, g
  <1>10. (LonSpan * (i - j)) % LonSpan = 0
    BY <1>6, Constants, MultipleHasNoRemainder
  <1>11. QED BY <1>2, <1>9, <1>10

(* The ground track: between two beacons the latitude moves as far as the  *)
(* time allows, over all seams, and the longitude exactly so.              *)
THEOREM TrackMovesContinuously ==
    ASSUME NoLongitudeWrap
    PROVE  HkSpec => GroundTrackContinuous
  <1> DEFINE Moves ==
         g_tlm'.pkt_count > g_tlm.pkt_count /\ g_tlm.pkt_count > 0 =>
           LET dt == g_tlm'.at - g_tlm.at IN
           /\ Quarter * (Magnitude(g_tlm'.lat_cdeg - g_tlm.lat_cdeg) - 1) <= dt * LatAmp
           /\ (g_tlm'.lon_cdeg - g_tlm.lon_cdeg - LonRate * dt) % LonSpan = 0
  <1>1. ASSUME HkInv, [HkStep \/ ShellPolls]_hkVars,
               g_tlm'.pkt_count > g_tlm.pkt_count, g_tlm.pkt_count > 0
        PROVE  /\ Quarter * (Magnitude(g_tlm'.lat_cdeg - g_tlm.lat_cdeg) - 1)
                     <= (g_tlm'.at - g_tlm.at) * LatAmp
               /\ (g_tlm'.lon_cdeg - g_tlm.lon_cdeg - LonRate * (g_tlm'.at - g_tlm.at))
                     % LonSpan = 0
    <2>1. g_tlm.at \in 0 .. MaxTicks /\ g_ticks \in 0 .. MaxTicks /\ g_tlm.pkt_count \in Nat
      BY <1>1, HkTypes DEF HkInv
    <2>2. g_tlm' # g_tlm
      BY <1>1, <2>1
    <2>3. TlmTask
      BY <1>1, <2>2 DEF HkStep, HkTick, EpsTask, AdcsTask, ShellPolls, hkVars
    <2>4. /\ g_tlm'.at = g_ticks /\ g_tlm'.lat_cdeg = Latitude(Phase(g_ticks))
          /\ g_tlm'.lon_cdeg = Longitude(g_ticks)
      BY <2>3 DEF TlmTask
    <2>5. /\ g_tlm.lat_cdeg = Latitude(Phase(g_tlm.at)) /\ g_tlm.lon_cdeg = Longitude(g_tlm.at)
          /\ g_tlm.at <= g_ticks
      BY <1>1 DEF HkInv, SampleInv, WakeInv, Timely
    <2>6. g_tlm.at \in Nat /\ g_ticks \in Nat
      BY <2>1, Constants
    <2>7. QED BY <2>1, <2>4, <2>5, <2>6, LatitudeSlope, LongitudeSlope
  <1>2. HkInv /\ [HkStep \/ ShellPolls]_hkVars => [Moves]_hkVars
    BY <1>1
  <1>3. QED BY HkInvariance, <1>2, PTL DEF HkSpec, GroundTrackContinuous

(* The position a beacon prints can be read from its text, for all         *)
(* coordinates, up to the sign of those that print as -0.                  *)
THEOREM BeaconsAreReadable == HkSpec => []BeaconReadable
  <1>1. HkTypeOK => BeaconReadable
    <2>1. HkTypeOK => g_tlm.lat_cdeg \in Int /\ g_tlm.lon_cdeg \in Int
      BY Constants DEF HkTypeOK
    <2>2. QED BY <2>1, HundredthsAreRead DEF BeaconReadable
  <1>2. QED BY HkTypeCorrect, <1>1, PTL
=============================================================================
