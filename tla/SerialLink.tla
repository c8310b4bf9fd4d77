----------------------------- MODULE SerialLink -----------------------------
(***************************************************************************)
(* readMessage at the other end of a serial line that damages some bytes.  *)
(* The sender writes one frame after the other; a step is one byte.        *)
(*                                                                         *)
(* readMessage has timeouts, but they change nothing: before the header it *)
(* is called again, and after it the loops go on until enough bytes have   *)
(* come.  The bytes of the line are all that matters.                      *)
(***************************************************************************)
EXTENDS Frames, AntennaFrames

CONSTANTS Payloads,      \* payloads that are sent
          NoiseBytes,    \* values a damaged byte may take
          MaxDamages,    \* bound: bytes damaged
          MaxLost        \* frames a damage may cost

VARIABLES payload,       \* payload of the frame being sent
          at,            \* bytes of it already sent
          damaged,       \* a byte of this frame was damaged
          damages,       \* bytes damaged so far
          buf,           \* buffer of readMessage
          outcome,       \* what readMessage returned on this byte
          lost,          \* history: undamaged frames not received in a row
          wrong          \* history: messages handed over that were not being sent

lineVars == <<payload, at, damaged, damages>>
linkVars == <<lineVars, buf, outcome, lost, wrong>>

ASSUME LinkAssumption ==
  /\ \A p \in Payloads :
       p \in Seq(Octet) /\ Len(p) = getPayloadLength(p[1]) /\ CRC(p) \in Octet
  /\ NoiseBytes \subseteq Octet
  /\ MaxDamages \in Nat /\ MaxLost \in Nat

Nothing  == [kind |-> "nothing"]
CrcError == [kind |-> "crc error"]
Received(bytes) == [kind |-> "message", bytes |-> bytes]

Init ==
  /\ payload \in Payloads /\ at = 0 /\ damaged = FALSE /\ damages = 0
  /\ buf = <<>> /\ outcome = Nothing /\ lost = 0 /\ wrong = 0

\* Faulty variant: the length is not capped.
ExpectedUncapped(bytes) == bytes[2]

\* The length that readMessage believes, capped to its buffer
Expected(bytes) ==
  IF bytes[2] > MAX_PAYLOAD_MESSAGE_LENGTH THEN MAX_PAYLOAD_MESSAGE_LENGTH ELSE bytes[2]

\* message is zero where no byte was copied.
Filled(bytes) ==
  [i \in 1 .. MAX_PAYLOAD_MESSAGE_LENGTH |-> IF i <= Len(bytes) THEN bytes[i] ELSE 0]

\* Faulty variant: the copy goes one byte too far, where the CRC does not look.
CheckCopiesCrc(bytes) ==
  LET message == SubSeq(bytes, 3, Len(bytes) - 1)
  IN  IF CRC(message) = bytes[Len(bytes)] THEN Received(Filled(Append(message, CRC(message))))
      ELSE CrcError

\* What readMessage makes of its buffer once it is complete
Check(bytes) ==
  LET message == SubSeq(bytes, 3, Len(bytes) - 1)
  IN  IF CRC(message) = bytes[Len(bytes)] THEN Received(Filled(message)) ELSE CrcError

Complete(bytes) == Len(bytes) > 2 /\ Len(bytes) = Expected(bytes) + 3

\* The buffer and the outcome of readMessage after one more byte
NextBuf(byte) ==
  LET bytes == Append(buf, byte)
  IN  IF bytes[1] # HEADER_BYTE \/ Complete(bytes) THEN <<>> ELSE bytes
NextOutcome(byte) ==
  LET bytes == Append(buf, byte)
  IN  IF Complete(bytes) THEN Check(bytes) ELSE Nothing

readByte(byte) == buf' = NextBuf(byte) /\ outcome' = NextOutcome(byte)

Frame == encodePayload(payload)
LastByte == at + 1 = Len(payload) + 3   \* with header, length and CRC

\* readMessage hands over something else than what is being sent.
Deceived == outcome'.kind = "message" /\ outcome'.bytes # Filled(payload)
Counted == wrong' = IF Deceived THEN wrong + 1 ELSE wrong

\* The sender goes on to its next byte, or to its next frame.
Sent(damage) ==
  /\ IF LastByte THEN payload' \in Payloads /\ at' = 0 /\ damaged' = FALSE
     ELSE UNCHANGED payload /\ at' = at + 1 /\ damaged' = (damaged \/ damage)
  /\ lost' = IF outcome' = Received(Filled(payload)) \/ damages' = 0 THEN 0
             ELSE IF LastByte /\ ~damaged /\ ~damage THEN lost + 1 ELSE lost
  /\ Counted

(* A byte arrives as it was sent, ...                                       *)
ByteArrives ==
  /\ readByte(Frame[at + 1])
  /\ UNCHANGED damages
  /\ Sent(FALSE)

(* ... is changed, ...                                                      *)
ByteChanged ==
  /\ damages < MaxDamages
  /\ \E byte \in NoiseBytes \ {Frame[at + 1]} : readByte(byte)
  /\ damages' = damages + 1
  /\ Sent(TRUE)

(* ... is lost, ...                                                         *)
ByteLost ==
  /\ damages < MaxDamages
  /\ outcome' = Nothing /\ UNCHANGED buf
  /\ damages' = damages + 1
  /\ Sent(TRUE)

(* ... or arrives although it was not sent, between two frames or inside.   *)
ByteAdded ==
  /\ damages < MaxDamages
  /\ \E byte \in NoiseBytes : readByte(byte)
  /\ damages' = damages + 1 /\ damaged' = (damaged \/ at > 0)
  /\ Counted
  /\ UNCHANGED <<payload, at, lost>>

Next == ByteArrives \/ ByteChanged \/ ByteLost \/ ByteAdded

Spec == Init /\ [][Next]_linkVars

-----------------------------------------------------------------------------
(* The CRC checks the communication (messages.c) but does not cover the     *)
(* length: a changed or lost byte may make readMessage end a message where  *)
(* the CRC is the next byte by chance, and hand over what nobody sent.  It  *)
(* hands over what is being sent otherwise: a damage deceives it once.      *)
DamageDeceivesOnce == wrong <= damages

(* The last byte of a frame whose header and length arrived as they were    *)
(* sent, with as many bytes after them                                      *)
Framed == LastByte /\ Len(buf) = at /\ buf[1] = Frame[1] /\ buf[2] = Frame[2]

(* One changed byte after the length never deceives the CRC: the frame is   *)
(* refused then, and handed over as it was sent if nothing was changed.     *)
OneChangeDetected ==
  [][outcome' # Nothing /\ at' # at /\ damages' <= 1 /\ Framed =>
       outcome' = IF damaged \/ damages' # damages THEN CrcError
                  ELSE Received(Filled(payload))]_linkVars

(* What the end of a disturbance rests on.  A damage costs at most:  the    *)
(* message that readMessage then believes in swallows five frames of four   *)
(* bytes, and ends within a sixth.  And no byte of a frame but the first    *)
(* may be taken for the beginning of one.                                   *)
DamageCost == 6
LostAllowed == DamageCost * MaxDamages <= MaxLost
HeaderOnlyFirst ==
  \A p \in Payloads : \A i \in 2 .. Len(p) + 3 : encodePayload(p)[i] # HEADER_BYTE

(* After a damage the receiver finds the beginning of a frame again: no     *)
(* more than MaxLost undamaged frames in a row are lost.                    *)
Resynchronises == lost <= MaxLost

\* The line before its first damage, while it has sent whole frames only
Untouched == damages = 0 /\ at = 0

(* The frames of a mission command what they were computed for, for every   *)
(* step of either axis, the impossible ones included, on both sides of the  *)
(* limits of the elevation; none is a frame that the firmware knows by name *)
(* (an EPHEM or POSITION frame is never an emergency), and the frames that  *)
(* have a name are those of their power and mode (TrameAntennaConstructor). *)
PointsAreCommands == Untouched => PointsCommand
=============================================================================
