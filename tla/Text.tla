-------------------------------- MODULE Text ---------------------------------
(***************************************************************************)
(* Numbers as text: the conversions of kprintf (src/kprintf.c) and         *)
(* ksnprintf (src/kstring.c), and how a reader turns the text back.  A     *)
(* character is a string; a keyword of a format ("LAT=") counts as one.    *)
(***************************************************************************)
EXTENDS Integers, SequencesExt

DigitChar == <<"0", "1", "2", "3", "4", "5", "6", "7", "8", "9">>

(* The loop on n % 10 and n / 10, with the order already reversed.         *)
Digits[n \in Nat] ==
    IF n < 10 THEN <<DigitChar[n + 1]>>
    ELSE Append(Digits[n \div 10], DigitChar[(n % 10) + 1])

(* Mutant of Padded: the width is ignored.                                 *)
PaddedNever(s, width, pad) == s

(* while (i < width) buf[i++] = pad                                        *)
Padded(s, width, pad) ==
    IF Len(s) < width THEN [k \in 1 .. width - Len(s) |-> pad] \o s ELSE s

(* put_uint and put_int of kprintf: the sign stands before the padding.    *)
PutUint(n, width, pad) == Padded(Digits[n], width, pad)

PutInt(n, width, pad) ==
    IF n < 0 THEN <<"-">> \o PutUint(-n, width - 1, pad) ELSE PutUint(n, width, pad)

(* %u and %d of ksnprintf, where it stands behind.                         *)
SnprintfInt(n, width, pad) ==
    Padded(IF n < 0 THEN <<"-">> \o Digits[-n] ELSE Digits[n], width, pad)

(* C's division, which truncates towards zero.                             *)
Quotient(a, b) == IF a < 0 THEN -((-a) \div b) ELSE a \div b

Magnitude(n) == IF n < 0 THEN -n ELSE n

(* "%d.%02d" of a number of hundredths, as telemetry_print forms it.       *)
Hundredths(c) ==
    PutInt(Quotient(c, 100), 0, " ") \o <<".">> \o PutInt(Magnitude(c) % 100, 2, "0")

-----------------------------------------------------------------------------
(* The reader.                                                             *)
IsNumber(s) ==
    LET body == IF s # <<>> /\ s[1] = "-" THEN Tail(s) ELSE s
    IN  body # <<>> /\ \A k \in DOMAIN body : Contains(DigitChar, body[k])

DigitValue(c) == CHOOSE d \in 0 .. 9 : DigitChar[d + 1] = c

NatOf(s) ==
    LET value[k \in 0 .. Len(s)] ==
            IF k = 0 THEN 0 ELSE 10 * value[k - 1] + DigitValue(s[k])
    IN  value[Len(s)]

(* The integer a text stands for.                                          *)
IntOf(s) == IF s[1] = "-" THEN -NatOf(Tail(s)) ELSE NatOf(s)

(* The number a decimal text with two places stands for, in hundredths:    *)
(* leaving out the point multiplies by one hundred.                        *)
HundredthsOf(s) == IntOf(RemoveAt(s, CHOOSE k \in DOMAIN s : s[k] = "."))

(* What stands between a keyword and the next one, or the end.             *)
FieldAfter(s, key, keys) ==
    LET from == CHOOSE k \in DOMAIN s : s[k] = key
        stop == {k \in from + 1 .. Len(s) : s[k] \in keys} \union {Len(s) + 1}
    IN  SubSeq(s, from + 1, (CHOOSE k \in stop : \A j \in stop : k <= j) - 1)
=============================================================================
