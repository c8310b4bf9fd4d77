--------------------------- MODULE AntennaFrames ---------------------------
(***************************************************************************)
(* The frames that command the antenna, as bytes (TrameAntennaConstructor):*)
(* SYN, the digits of the power and of the mode, the encoder steps of the  *)
(* two axes in hexadecimal, CR.                                            *)
(*                                                                         *)
(* The trigonometry is external: "x" and "y" are the steps that asin and   *)
(* acos give for the direction, "y" counted from the vertical.             *)
(***************************************************************************)
EXTENDS Integers, Sequences

SYN == 22        \* HEADER_ANTENNA
CR  == 13        \* TAIL_ANTENNA
CHAR_ZERO == 48
CHAR_A_OFFSET == 7

PUISSANCE_STATUS      == 4
PUISSANCE_ACTIVATE    == 8
PUISSANCE_DESACTIVATE == 0

MODE_ANTENNA_STANDBY  == 0
MODE_ANTENNA_CALAGE   == 1
MODE_ANTENNA_EPHEM    == 2
MODE_ANTENNA_SURVIE   == 4
MODE_ANTENNA_POSITION == 6

MAX_EL_ANGLE  == 90
MIN_EL_ANGLE  == 10
MAX_ENCODER_X == 28235
MAX_ENCODER_Y == 31435

\* A step count as the uint16_t it is cast to, and as the int16_t it is
Unsigned(steps) == steps % 2^16
Signed(word) == IF word >= 2^15 THEN word - 2^16 ELSE word

checkElevation(el) == MIN_EL_ANGLE < el /\ el < MAX_EL_ANGLE

\* Faulty variant: the limit of an axis is tested on one side only.
BeyondAbove(X, Y) == X > MAX_ENCODER_X \/ Y > MAX_ENCODER_Y

Beyond(X, Y) ==
  \/ X > MAX_ENCODER_X \/ X < -MAX_ENCODER_X
  \/ Y > MAX_ENCODER_Y \/ Y < -MAX_ENCODER_Y

\* Behind the antenna (azimuths from 90 to 270) the second axis leans back.
computeXYencoderFromAzEl(x, y, behind, el) ==
  LET Y == IF behind THEN -y ELSE y
  IN  IF ~checkElevation(el) \/ Beyond(x, Y) THEN <<0, 0>> ELSE <<x, Y>>

\* Faulty variant: the digits above nine follow the nine.
AsciiDecimal(digit) == CHAR_ZERO + digit

\* A digit of the power, and of "%04X"
Ascii(digit) == CHAR_ZERO + digit + (digit \div 10) * CHAR_A_OFFSET

Hexadecimal(word) == [i \in 1 .. 4 |-> Ascii((word \div 16^(4 - i)) % 16)]

computeAntennaMessage(puissance, mode, steps) ==
  <<SYN, Ascii(puissance), CHAR_ZERO + mode>>
    \o Hexadecimal(Unsigned(steps[1])) \o Hexadecimal(Unsigned(steps[2]))
    \o <<CR>>

\* The frames that have a name, as the strings of the header
DESACTIVATE == <<SYN, 48, 48, 48, 48, 48, 48, 48, 48, 48, 48, CR>>
SURVIE      == [DESACTIVATE EXCEPT ![2] = 56, ![3] = 52]
REINI       == [DESACTIVATE EXCEPT ![2] = 56]
CALLAGE     == [DESACTIVATE EXCEPT ![2] = 56, ![3] = 49]
-----------------------------------------------------------------------------
\* What the antenna reads in four digits (external)
DigitOf(char) == IF char >= 65 THEN char - 65 + 10 ELSE char - CHAR_ZERO
StepsRead(chars) ==
  Signed(DigitOf(chars[1]) * 4096 + DigitOf(chars[2]) * 256
           + DigitOf(chars[3]) * 16 + DigitOf(chars[4]))

\* The frames of a trajectory and of AskGoTo
Point(mode, x, y, behind, el) ==
  computeAntennaMessage(PUISSANCE_ACTIVATE, mode,
                        computeXYencoderFromAzEl(x, y, behind, el))

\* A frame commands the steps of its direction, or none if the antenna cannot
\* point there, and neither the firmware nor the antenna takes it for another.
Commands(mode, x, y, behind, el) ==
  LET frame == Point(mode, x, y, behind, el)
      steps == <<StepsRead(SubSeq(frame, 4, 7)), StepsRead(SubSeq(frame, 8, 11))>>
      back  == IF behind THEN -1 ELSE 1
  IN  /\ steps = IF el \in 11 .. 89 /\ -28235 <= x /\ x <= 28235 /\ y <= 31435
                   THEN <<x, back * y>> ELSE <<0, 0>>
      /\ Len(frame) = Len(SURVIE) /\ frame[1] = SYN /\ frame[12] = CR
      /\ \A i \in 2 .. 11 : frame[i] \in 48 .. 57 \union 65 .. 70
      /\ frame \notin {DESACTIVATE, SURVIE, REINI, CALLAGE}

\* The frames of a mission command their directions, on every step of either
\* axis, and the frames that have a name are those of their power and mode.
PointsCommand ==
  /\ \A x \in -2^15 .. 2^15 - 1 : Commands(MODE_ANTENNA_EPHEM, x, 7, x % 2 = 0, 45)
  /\ \A y \in 0 .. 2^15 - 1 : \A behind \in BOOLEAN :
       Commands(MODE_ANTENNA_POSITION, 7, y, behind, 45)
  /\ \A el \in -10 .. 100 : Commands(MODE_ANTENNA_EPHEM, 7, 7, FALSE, el)
  /\ LET still(puissance, mode) == computeAntennaMessage(puissance, mode, <<0, 0>>)
     IN  /\ SURVIE = still(PUISSANCE_ACTIVATE, MODE_ANTENNA_SURVIE)
         /\ CALLAGE = still(PUISSANCE_ACTIVATE, MODE_ANTENNA_CALAGE)
         /\ REINI = still(PUISSANCE_ACTIVATE, MODE_ANTENNA_STANDBY)
         /\ DESACTIVATE = still(PUISSANCE_DESACTIVATE, MODE_ANTENNA_STANDBY)
         /\ still(PUISSANCE_ACTIVATE + PUISSANCE_STATUS, MODE_ANTENNA_STANDBY)
              \notin {SURVIE, CALLAGE, REINI, DESACTIVATE}
=============================================================================
