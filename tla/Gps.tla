-------------------------------- MODULE Gps --------------------------------
(***************************************************************************)
(* gpsThread (GpsTimeHandler.c): it looks for the '$' that begins a        *)
(* sentence, compares the type that follows with "GPZDA," and reads the    *)
(* date at its place, without timeout and without the checksum at the end  *)
(* of the sentence.  The receiver sends a sentence a second, each with the *)
(* date of its second; the line loses bursts of bytes.                     *)
(***************************************************************************)
EXTENDS Naturals, Sequences

CONSTANTS TypeLength,    \* "GPZDA,"
          DateLength,    \* ZDA_DATE_LENGTH
          TailLength,    \* the rest of a sentence, with its checksum
          Dates,         \* dates of the sentences, which come round
          MaxBurst,      \* bound: bytes lost in a row
          MaxBursts      \* bound: bursts

VARIABLES date, zda,     \* the date and the type of the sentence being sent
          at,            \* bytes of it already sent or lost
          whole,         \* none of its bytes was lost
          bursts,        \* bursts so far
          reading,       \* what gpsThread reads: "header", "type", "date"
          buf,           \* what it has read of it
          outcome,       \* what gpsThread did on this byte
          clock,         \* the date last given to rtcSetTime
          missed         \* history: whole ZDA sentences, since the last burst,
                         \* whose date is not in the clock at their end

senderVars == <<date, zda, at, whole, bursts>>
gpsVars == <<senderVars, reading, buf, outcome, clock, missed>>

ASSUME GpsAssumption ==
  /\ TypeLength \in Nat \ {0} /\ DateLength \in Nat \ {0} /\ TailLength \in Nat
  /\ Dates \in Nat \ {0} /\ MaxBurst \in Nat /\ MaxBursts \in Nat

SentenceLength == 1 + TypeLength + DateLength + TailLength

\* Byte k of a sentence
Byte(k) == [place |-> k, date |-> date, zda |-> zda]
Header(byte) == byte.place = 1

Init ==
  /\ date = 0 /\ zda \in BOOLEAN /\ at \in 0 .. (SentenceLength - 1)
  /\ whole = (at = 0) /\ bursts = 0
  /\ reading = "header" /\ buf = <<>> /\ outcome = "nothing"
  /\ clock = Dates /\ missed = 0

\* strncmp(buf, GPS_MESSAGE_TYPE, gps_type_size) is 0.
IsZda(bytes) ==
  \A k \in 1 .. TypeLength : bytes[k].zda /\ bytes[k].place = k + 1

\* setRTCfromGpsBuffer: the date that is written at its place, whatever
\* other bytes give being no date (Dates)
DateOf(bytes) ==
  IF \A k \in 1 .. DateLength :
       /\ bytes[k].place = 1 + TypeLength + k
       /\ bytes[k].zda /\ bytes[k].date = bytes[1].date
    THEN bytes[1].date ELSE Dates

\* Faulty variant: the sentence is read to its end.
NeededToTheEnd(what) == IF what = "type" THEN TypeLength ELSE DateLength + TailLength + 1

Needed(what) == IF what = "type" THEN TypeLength ELSE DateLength

(* What gpsThread does of one byte: the header ...                          *)
ReadsHeader(byte) ==
  /\ reading = "header"
  /\ reading' = IF Header(byte) THEN "type" ELSE "header"
  /\ outcome' = "nothing"
  /\ UNCHANGED <<buf, clock>>

(* ... or one more byte of what it reads, ...                               *)
ReadsMore(byte) ==
  /\ reading # "header" /\ Len(buf) + 1 < Needed(reading)
  /\ buf' = Append(buf, byte) /\ outcome' = "nothing"
  /\ UNCHANGED <<reading, clock>>

(* ... the last byte of the type, ...                                       *)
ReadsType(byte) ==
  /\ reading = "type" /\ Len(buf) + 1 = Needed("type")
  /\ IF IsZda(Append(buf, byte))
       THEN reading' = "date" /\ outcome' = "nothing"
       ELSE reading' = "header" /\ outcome' = "wrong message"
  /\ buf' = <<>>
  /\ UNCHANGED clock

(* ... or the last byte of the date.                                        *)
ReadsDate(byte) ==
  /\ reading = "date" /\ Len(buf) + 1 = Needed("date")
  /\ clock' = DateOf(Append(buf, byte)) /\ outcome' = "clock set"
  /\ reading' = "header" /\ buf' = <<>>

\* The receiver goes on to the next byte, of the next sentence after the
\* last: n bytes further.
GoesOn(n, lost) ==
  LET ends == at + n >= SentenceLength
  IN  /\ IF ends THEN date' = (date + 1) % Dates /\ zda' \in BOOLEAN
                 ELSE UNCHANGED <<date, zda>>
      /\ at' = (at + n) % SentenceLength
      /\ whole' = IF ends THEN ~lost \/ at' = 0 ELSE whole /\ ~lost

(* A byte arrives.                                                          *)
ByteArrives ==
  /\ LET byte == Byte(at + 1)
     IN  ReadsHeader(byte) \/ ReadsMore(byte) \/ ReadsType(byte) \/ ReadsDate(byte)
  /\ GoesOn(1, FALSE)
  /\ missed' = IF at + 1 = SentenceLength /\ zda /\ whole
                 THEN IF clock' = date THEN 0 ELSE missed + 1
                 ELSE missed
  /\ UNCHANGED bursts

(* A burst of bytes is lost.                                                *)
BurstLost ==
  /\ bursts < MaxBursts /\ bursts' = bursts + 1
  /\ \E n \in 1 .. MaxBurst : GoesOn(n, TRUE)
  /\ missed' = 0
  /\ UNCHANGED <<reading, buf, outcome, clock>>

(* No byte comes for TIME_OUT_READ_GPS.                                     *)
Timeout ==
  /\ at = 0 /\ reading = "header"
  /\ outcome' = "wrong message"
  /\ UNCHANGED <<senderVars, reading, buf, clock, missed>>

Next == ByteArrives \/ BurstLost \/ Timeout

Spec == Init /\ [][Next]_gpsVars

-----------------------------------------------------------------------------
(* The clock holds the date of each ZDA sentence at its end, other          *)
(* sentences between them or not; after a burst, which may leave a wrong    *)
(* date in the clock, at most one whole sentence is swallowed.              *)
ClockFollows == missed <= IF bursts = 0 THEN 0 ELSE 1
=============================================================================
