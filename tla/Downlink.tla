------------------------------- MODULE Downlink ------------------------------
(***************************************************************************)
(* The shell command `downlink' (cmd_downlink in src/command.c): a text    *)
(* made of the last samples of the three subsystems (module Housekeeping)  *)
(* becomes a CCSDS packet (src/ccsds.c) that goes down the serial line to  *)
(* a ground station, which reads it by the format of ccsds.h.              *)
(*                                                                         *)
(* A packet is a structure of fixed layout: 14 bytes of headers, MAX_DATA  *)
(* bytes of data, 2 of CRC.  A byte is a tuple that says what it is part   *)
(* of; a text byte holds a character.  The command makes no call of the    *)
(* scheduler, so that it is one step of the system; the ticks it takes are *)
(* in Housekeeping's MaxLate.                                              *)
(***************************************************************************)
EXTENDS Housekeeping

CONSTANTS
    MAX_DATA,      \* CCSDS_MAX_DATA (256)
    SeqCounts      \* the sequence count has 14 bits (16384)

ASSUME DownlinkAssumption ==
    /\ MAX_DATA \in Nat
    /\ SeqCounts \in Nat \ {0}

VARIABLES
    s_seq_count,   \* the counter of ccsds.c
    rx,            \* the frame the ground has just received, and, as history,
                   \* the structures it was made of; or NoFrame
    rx_seq         \* history: the sequence count of the last frame

vars == <<hkVars, s_seq_count, rx, rx_seq>>

NoFrame == [bytes |-> <<>>, of |-> <<>>]

Init == HkInit /\ s_seq_count = 0 /\ rx = NoFrame /\ rx_seq = -1

-----------------------------------------------------------------------------
Keywords == {"BAT=", "LAT=", "LON=", "ROLL="}

(* The text of a packet.  ALT, PITCH and YAW are left out: they are three  *)
(* more numbers of the same samples, converted in the same way.  It has    *)
(* fewer than the 128 characters of its buffer, whatever the numbers.      *)
Text == <<"BAT=">> \o SnprintfInt(g_eps.battery_pct, 0, " ") \o <<"%", " ", "LAT=">>
            \o SnprintfInt(g_tlm.lat_cdeg, 0, " ") \o <<" ", "LON=">>
            \o SnprintfInt(g_tlm.lon_cdeg, 0, " ") \o <<" ", "ROLL=">>
            \o SnprintfInt(g_adcs.roll_mdeg, 0, " ")

(* What the CRC computes, as an ideal: different bytes, different CRC.     *)
Crc16(bytes) == <<<<"crc", 1, bytes>>, <<"crc", 2, bytes>>>>

(* Mutant of DataLength: one too small.                                    *)
DataLengthShort(n) == 8 + n + 2 - 2

(* ph_data_len for n bytes of data.                                        *)
DataLength(n) == 8 + n + 2 - 1

Header(seq, len, coarse) == [k \in 1 .. 14 |-> <<"header", k, seq, len, coarse>>]

(* ccsds_build: the structure as bytes.  What the payload leaves of data   *)
(* is uninitialised stack; one byte that is part of no CRC stands for it.  *)
Build(seq, coarse, payload) ==
    LET n    == IF Len(payload) > MAX_DATA THEN MAX_DATA ELSE Len(payload)
        head == Header(seq, DataLength(n), coarse)
        data == [k \in 1 .. MAX_DATA |-> IF k <= n THEN <<"text", payload[k]>>
                                                  ELSE <<"stack", k>>]
    IN  head \o data \o Crc16(head \o SubSeq(data, 1, n))

(* The fields of a packet's header.                                        *)
SeqCountOf(bytes) == bytes[1][3]
LenOf(bytes)      == bytes[1][4]
CoarseOf(bytes)   == bytes[1][5]

PacketLen(bytes) == 6 + LenOf(bytes) + 1

(* What ccsds_send puts into a frame: the first bytes of the structure.    *)
Sent(pkt) == SubSeq(pkt, 1, PacketLen(pkt))

(* Mutant of SeqField: the mask is one too small.                          *)
SeqFieldShort == s_seq_count % (SeqCounts - 1)

SeqField == s_seq_count % SeqCounts

(* cmd_downlink: text, ccsds_build, ccsds_send.                            *)
CmdDownlink ==
    /\ LET pkt == Build(SeqField, g_ticks, Text) IN
       /\ rx' = [bytes |-> Sent(pkt), of |-> <<g_eps, g_adcs, g_tlm>>]
       /\ rx_seq' = SeqCountOf(pkt)
    /\ s_seq_count' = (s_seq_count + 1) % (4 * SeqCounts)
    /\ UNCHANGED hkVars

(* Everything else the satellite does; the ground has dealt with rx.       *)
Other ==
    /\ HkStep \/ ShellPolls
    /\ rx' = NoFrame
    /\ UNCHANGED <<s_seq_count, rx_seq>>

Next == Other \/ CmdDownlink

Spec == Init /\ [][Next]_vars

-----------------------------------------------------------------------------
(* The ground station: "Packet: [Primary(6)] [Secondary(8)] [Data(N)]      *)
(* [CRC-16(2)]", where the primary header holds the total length - 7.      *)
DataOf(bytes)    == SubSeq(bytes, 15, LenOf(bytes) + 7 - 2)
TrailerOf(bytes) == SubSeq(bytes, LenOf(bytes) + 7 - 1, LenOf(bytes) + 7)

(* What no reading is.                                                     *)
NoNumber == -1000000

(* The number behind a keyword of the last frame, if a number stands there.*)
Reading(key) ==
    LET data  == DataOf(rx.bytes)
        chars == [k \in DOMAIN data |-> IF data[k][1] = "text" THEN data[k][2] ELSE "?"]
        field == FieldAfter(chars, key, Keywords \union {"%", " "})
    IN  IF IsNumber(field) THEN IntOf(field) ELSE NoNumber

(* The types of the variables.                                             *)
TypeOK ==
    /\ HkTypeOK
    /\ s_seq_count \in 0 .. 4 * SeqCounts - 1
    /\ rx_seq \in -1 .. SeqCounts - 1
    /\ Len(rx.bytes) <= 14 + MAX_DATA + 2

(* The ground reads from a frame exactly the numbers the satellite put     *)
(* into it, whatever their sign and length, from the length field alone.   *)
ReadingsRecovered ==
    rx # NoFrame =>
        /\ Len(rx.bytes) = LenOf(rx.bytes) + 7
        /\ Reading("BAT=") = rx.of[1].battery_pct
        /\ Reading("LAT=") = rx.of[3].lat_cdeg
        /\ Reading("LON=") = rx.of[3].lon_cdeg
        /\ Reading("ROLL=") = rx.of[2].roll_mdeg

(* Successive packets have successive sequence counts, so that a gap tells *)
(* the ground of a lost one, also where the 14-bit field or the 16-bit     *)
(* counter wraps.                                                          *)
SeqCountGapFree ==
    [][rx_seq # -1 /\ rx' # NoFrame => rx_seq' = (rx_seq + 1) % SeqCounts]_vars

(* The samples a packet mixes were taken at different times, none after    *)
(* the packet's own time and each within its task's period of it.          *)
SamplesFresh ==
    rx # NoFrame =>
        LET age(k) == CoarseOf(rx.bytes) - rx.of[k].at IN
        /\ age(1) \in 0 .. EpsPeriod + MaxLate
        /\ age(2) \in 0 .. AdcsPeriod + MaxLate
        /\ age(3) \in 0 .. TlmPeriod + MaxLate

(* Every frame ends with the CRC of the packet ("Packet: ... [CRC-16(2)]", *)
(* ccsds.h), by which the ground could reject a corrupted one.             *)
FrameCarriesCrc ==
    rx # NoFrame =>
        TrailerOf(rx.bytes) = Crc16(SubSeq(rx.bytes, 1, LenOf(rx.bytes) + 7 - 2))
=============================================================================
