----------------------------- MODULE LinkProofs -----------------------------
(***************************************************************************)
(* The serial link: after a damage, readMessage finds the beginning of a   *)
(* frame again, whatever the payloads, the CRC and the values of the       *)
(* damaged bytes.  The frames of the antenna: each commands the steps of   *)
(* its direction, whatever the steps.                                      *)
(***************************************************************************)
EXTENDS SerialLink, SequenceTheorems, TLAPS

TypeOK ==
  /\ payload \in Payloads /\ at \in 0 .. Len(payload) + 2
  /\ damaged \in BOOLEAN /\ damages \in 0 .. MaxDamages /\ lost \in Nat /\ wrong \in Nat
  /\ buf \in Seq(Octet)

(* readMessage keeps a buffer that begins with a header and is incomplete.  *)
Open(bytes) ==
  bytes # <<>> =>
    /\ bytes[1] = HEADER_BYTE
    /\ Len(bytes) >= 2 => Len(bytes) < Expected(bytes) + 3

(* It has read what was sent of the frame, and nothing else.                *)
Aligned == Len(buf) = at /\ \A i \in 1 .. at : buf[i] = Frame[i]

(* Where readMessage is in the frame that is being sent: where the sender   *)
(* is, ...                                                                  *)
InStep == ~damaged /\ lost <= DamageCost * damages /\ Aligned
(* ... anywhere, in a frame that was damaged, ...                           *)
Disturbed == damaged /\ damages > 0 /\ lost <= DamageCost * (damages - 1)
(* ... inside a message that began before the frame, ...                    *)
Behind ==
  /\ ~damaged /\ damages > 0 /\ buf # <<>>
  /\ \E since \in Nat : /\ lost <= DamageCost * (damages - 1) + since
                        /\ 4 * since + at + 1 <= Len(buf)
(* ... or waiting for the header of the next one.                           *)
Scanning ==
  ~damaged /\ damages > 0 /\ buf = <<>> /\ at > 0 /\ lost < DamageCost * damages

LinkInv == TypeOK /\ Open(buf) /\ (InStep \/ Disturbed \/ Behind \/ Scanning)

(* What keeps the messages that nobody sent fewer than the damages: only a  *)
(* message that did not begin with the frame can be one, and the damage it  *)
(* comes from is then still to be counted.                                  *)
DeceitInv == wrong <= damages /\ (Aligned \/ buf = <<>> \/ wrong < damages)

-----------------------------------------------------------------------------
(* Every payload has one byte at least, and fits in the buffer.             *)
LEMMA ArgumentsLengths ==
  ASSUME NEW id
  PROVE  ArgumentsLength(id) \in {0, 1, 2, 7, ANTENNA_MESSAGE_LENGTH}
BY Zenon DEF ArgumentsLength

LEMMA PayloadLengths ==
  ASSUME NEW id
  PROVE  getPayloadLength(id) \in Nat /\ 1 <= getPayloadLength(id) /\ getPayloadLength(id) <= 20
BY ArgumentsLengths DEF getPayloadLength, BASE_LOG_LENGTH, BASE_MESSAGE_LENGTH,
                        ANTENNA_MESSAGE_LENGTH

LEMMA Sizes ==
  ASSUME NEW p \in Payloads
  PROVE  /\ p \in Seq(Octet) /\ CRC(p) \in Octet
         /\ Len(p) \in Nat /\ 1 <= Len(p) /\ Len(p) <= 20
<1>1. p \in Seq(Octet) /\ Len(p) = getPayloadLength(p[1]) /\ CRC(p) \in Octet
  BY LinkAssumption
<1> QED
  BY <1>1, PayloadLengths

LEMMA SmallOctets ==
  ASSUME NEW n \in Nat, n <= 255
  PROVE  n \in Octet
BY DEF Octet

(* The bytes of a frame.                                                    *)
LEMMA FrameBytes ==
  ASSUME NEW p \in Payloads
  PROVE  /\ encodePayload(p) \in Seq(Octet)
         /\ Len(encodePayload(p)) = Len(p) + 3
         /\ encodePayload(p)[1] = HEADER_BYTE
         /\ encodePayload(p)[2] = Len(p)
         /\ \A i \in 1 .. Len(p) : encodePayload(p)[i + 2] = p[i]
         /\ encodePayload(p)[Len(p) + 3] = CRC(p)
<1> DEFINE head == <<HEADER_BYTE, Len(p)>>
<1> DEFINE tail == <<CRC(p)>>
<1>1. /\ p \in Seq(Octet) /\ CRC(p) \in Octet
      /\ Len(p) \in Nat /\ 1 <= Len(p) /\ Len(p) <= 20
  BY Sizes
<1>2. /\ head \in Seq(Octet) /\ Len(head) = 2
      /\ head[1] = HEADER_BYTE /\ head[2] = Len(p)
  <2>1. HEADER_BYTE \in Octet /\ Len(p) \in Octet
    BY <1>1, SmallOctets DEF HEADER_BYTE
  <2> QED BY <2>1
<1>3. tail \in Seq(Octet) /\ Len(tail) = 1 /\ tail[1] = CRC(p)
  BY <1>1
<1>4. encodePayload(p) = (head \o p) \o tail
  BY DEF encodePayload
<1> HIDE DEF head, tail
<1>5. /\ head \o p \in Seq(Octet)
      /\ Len(head \o p) = Len(p) + 2
      /\ \A i \in 1 .. Len(p) + 2 :
           (head \o p)[i] = IF i <= 2 THEN head[i] ELSE p[i - 2]
  <2>1. /\ head \o p \in Seq(Octet)
        /\ Len(head \o p) = Len(head) + Len(p)
        /\ \A i \in 1 .. Len(head) + Len(p) :
             (head \o p)[i] = IF i <= Len(head) THEN head[i] ELSE p[i - Len(head)]
    BY <1>1, <1>2, ConcatProperties, Zenon
  <2>2. Len(head) = 2 /\ Len(head) + Len(p) = Len(p) + 2
    BY <1>1, <1>2
  <2> QED BY <2>1, <2>2
<1> DEFINE start == head \o p
<1>6. /\ start \o tail \in Seq(Octet)
      /\ Len(start \o tail) = Len(p) + 3
      /\ \A i \in 1 .. Len(p) + 3 :
           (start \o tail)[i] = IF i <= Len(p) + 2 THEN start[i] ELSE tail[i - (Len(p) + 2)]
  <2> HIDE DEF start
  <2>1. start \in Seq(Octet) /\ Len(start) = Len(p) + 2
    BY <1>5 DEF start
  <2>2. Len(start) + Len(tail) = Len(p) + 3
    BY <1>1, <1>3, <2>1
  <2>3. /\ start \o tail \in Seq(Octet)
        /\ Len(start \o tail) = Len(start) + Len(tail)
        /\ \A i \in 1 .. Len(start) + Len(tail) :
             (start \o tail)[i] = IF i <= Len(start) THEN start[i] ELSE tail[i - Len(start)]
    BY <1>3, <2>1, ConcatProperties, Zenon
  <2> QED BY <2>1, <2>2, <2>3
<1>7. \A i \in 1 .. Len(p) + 2 :
        encodePayload(p)[i] = IF i <= 2 THEN head[i] ELSE p[i - 2]
  <2> TAKE i \in 1 .. Len(p) + 2
  <2>1. i \in 1 .. Len(p) + 3 /\ i <= Len(p) + 2
    BY <1>1
  <2> QED BY <1>4, <1>5, <1>6, <2>1
<1>8. encodePayload(p)[1] = HEADER_BYTE /\ encodePayload(p)[2] = Len(p)
  BY <1>1, <1>2, <1>7
<1>9. \A i \in 1 .. Len(p) : encodePayload(p)[i + 2] = p[i]
  <2> TAKE i \in 1 .. Len(p)
  <2>1. i + 2 \in 1 .. Len(p) + 2 /\ ~(i + 2 <= 2) /\ (i + 2) - 2 = i
    BY <1>1
  <2> QED BY <1>7, <2>1
<1>10. encodePayload(p)[Len(p) + 3] = CRC(p)
  <2>1. /\ Len(p) + 3 \in 1 .. Len(p) + 3
        /\ ~(Len(p) + 3 <= Len(p) + 2)
        /\ (Len(p) + 3) - (Len(p) + 2) = 1
    BY <1>1
  <2> QED BY <1>3, <1>4, <1>6, <2>1
<1> QED BY <1>4, <1>6, <1>8, <1>9, <1>10

-----------------------------------------------------------------------------
(* The buffer of readMessage.                                               *)
LEMMA ExpectedBounds ==
  ASSUME NEW bytes, bytes[2] \in Octet
  PROVE  Expected(bytes) \in Nat /\ Expected(bytes) <= 20
<1>1. bytes[2] \in Nat
  BY DEF Octet
<1>2. CASE bytes[2] > MAX_PAYLOAD_MESSAGE_LENGTH
  BY <1>2 DEF Expected, MAX_PAYLOAD_MESSAGE_LENGTH
<1>3. CASE ~(bytes[2] > MAX_PAYLOAD_MESSAGE_LENGTH)
  <2>1. Expected(bytes) = bytes[2]
    BY <1>3 DEF Expected
  <2> QED BY <1>1, <1>3, <2>1 DEF MAX_PAYLOAD_MESSAGE_LENGTH
<1> QED BY <1>2, <1>3

LEMMA OpenIsShort ==
  ASSUME NEW bytes \in Seq(Octet), Open(bytes)
  PROVE  Len(bytes) \in Nat /\ Len(bytes) <= 22
<1>1. Len(bytes) \in Nat
  OBVIOUS
<1>2. CASE Len(bytes) < 2
  BY <1>1, <1>2
<1>3. CASE Len(bytes) >= 2
  <2>1. bytes # <<>> /\ bytes[2] \in Octet
    BY <1>1, <1>3, ElementOfSeq
  <2>2. Expected(bytes) \in Nat /\ Expected(bytes) <= 20
    BY <2>1, ExpectedBounds
  <2>3. Len(bytes) < Expected(bytes) + 3
    BY <1>3, <2>1 DEF Open
  <2> QED BY <1>1, <2>2, <2>3
<1> QED BY <1>1, <1>2, <1>3

LEMMA NextBufOpen ==
  ASSUME buf \in Seq(Octet), Open(buf), NEW byte \in Octet
  PROVE  /\ NextBuf(byte) \in Seq(Octet)
         /\ Open(NextBuf(byte))
         /\ NextBuf(byte) # <<>> => NextBuf(byte) = Append(buf, byte)
<1> DEFINE bytes == Append(buf, byte)
<1>1. bytes \in Seq(Octet) /\ Len(bytes) = Len(buf) + 1 /\ Len(bytes) \in Nat
  BY AppendProperties
<1>2. CASE bytes[1] # HEADER_BYTE \/ Complete(bytes)
  BY <1>2 DEF NextBuf, Open
<1>3. CASE ~(bytes[1] # HEADER_BYTE \/ Complete(bytes))
  <2>1. NextBuf(byte) = bytes
    BY <1>3 DEF NextBuf
  <2>2. bytes[1] = HEADER_BYTE /\ ~Complete(bytes)
    BY <1>3
  <2>3. ASSUME Len(bytes) >= 2 PROVE Len(bytes) < Expected(bytes) + 3
    <3>1. bytes[2] \in Octet
      BY <1>1, <2>3, ElementOfSeq
    <3>2. Expected(bytes) \in Nat
      BY <3>1, ExpectedBounds
    <3>3. CASE Len(bytes) = 2
      BY <3>2, <3>3
    <3>4. CASE Len(bytes) > 2
      <4>1. Len(bytes) # Expected(bytes) + 3
        BY <2>2, <3>4 DEF Complete
      <4>2. CASE Len(bytes) = 3
        BY <3>2, <4>1, <4>2
      <4>3. CASE Len(bytes) > 3
        <5>1. Len(buf) \in Nat /\ Len(buf) >= 2 /\ buf # <<>>
          BY <1>1, <4>3
        <5>2. bytes[2] = buf[2]
          BY <5>1, AppendProperties
        <5>3. Expected(bytes) = Expected(buf)
          BY <5>2 DEF Expected
        <5>4. Len(buf) < Expected(buf) + 3
          BY <5>1 DEF Open
        <5> QED BY <1>1, <3>2, <4>1, <5>1, <5>3, <5>4
      <4> QED BY <1>1, <3>4, <4>2, <4>3
    <3> QED BY <1>1, <2>3, <3>3, <3>4
  <2> QED BY <1>1, <2>1, <2>2, <2>3 DEF Open
<1> QED BY <1>2, <1>3

-----------------------------------------------------------------------------
(* The frame that is being sent.                                            *)
LEMMA FrameOf ==
  ASSUME TypeOK
  PROVE  /\ Frame \in Seq(Octet) /\ Len(Frame) = Len(payload) + 3
         /\ Frame[1] = HEADER_BYTE /\ Frame[2] = Len(payload)
         /\ \A i \in 1 .. Len(payload) : Frame[i + 2] = payload[i]
         /\ Frame[Len(Frame)] = CRC(payload)
         /\ payload \in Seq(Octet) /\ Len(payload) \in Nat
         /\ 1 <= Len(payload) /\ Len(payload) <= 20
         /\ at \in Nat /\ at + 1 <= Len(Frame) /\ Frame[at + 1] \in Octet
<1>1. payload \in Payloads /\ at \in 0 .. Len(payload) + 2
  BY DEF TypeOK
<1>2. /\ payload \in Seq(Octet)
      /\ Len(payload) \in Nat /\ 1 <= Len(payload) /\ Len(payload) <= 20
  BY <1>1, Sizes
<1>3. /\ Frame \in Seq(Octet) /\ Len(Frame) = Len(payload) + 3
      /\ Frame[1] = HEADER_BYTE /\ Frame[2] = Len(payload)
      /\ \A i \in 1 .. Len(payload) : Frame[i + 2] = payload[i]
      /\ Frame[Len(payload) + 3] = CRC(payload)
  BY <1>1, FrameBytes DEF Frame
<1>4. at \in Nat /\ at + 1 <= Len(Frame)
  BY <1>1, <1>2, <1>3
<1>5. at + 1 \in 1 .. Len(Frame)
  BY <1>2, <1>3, <1>4
<1>6. Frame[at + 1] \in Octet
  BY <1>3, <1>5, ElementOfSeq
<1> QED BY <1>2, <1>3, <1>4, <1>6

(* Aligned, the buffer stays the beginning of the frame until its last byte,*)
(* on which the message is received.                                        *)
LEMMA AlignedArrives ==
  ASSUME TypeOK, Aligned
  PROVE  /\ ~LastByte => NextBuf(Frame[at + 1]) = Append(buf, Frame[at + 1])
         /\ LastByte => /\ NextBuf(Frame[at + 1]) = <<>>
                        /\ NextOutcome(Frame[at + 1]) = Received(Filled(payload))
<1> DEFINE bytes == Append(buf, Frame[at + 1])
<1>1. /\ Frame \in Seq(Octet) /\ Len(Frame) = Len(payload) + 3
      /\ Frame[1] = HEADER_BYTE /\ Frame[2] = Len(payload)
      /\ payload \in Seq(Octet) /\ Len(payload) \in Nat
      /\ 1 <= Len(payload) /\ Len(payload) <= 20
      /\ at \in Nat /\ at + 1 <= Len(Frame) /\ Frame[at + 1] \in Octet
  BY FrameOf
<1>2. buf \in Seq(Octet) /\ Len(buf) = at /\ \A i \in 1 .. at : buf[i] = Frame[i]
  BY DEF TypeOK, Aligned
<1>3. bytes \in Seq(Octet) /\ Len(bytes) = at + 1
  BY <1>1, <1>2, AppendProperties
<1>4. \A i \in 1 .. at + 1 : bytes[i] = Frame[i]
  <2>1. \A i \in 1 .. at : bytes[i] = buf[i]
    BY <1>1, <1>2, AppendProperties
  <2>2. bytes[at + 1] = Frame[at + 1]
    BY <1>1, <1>2, AppendProperties
  <2> QED BY <1>1, <1>2, <2>1, <2>2
<1> HIDE DEF bytes
<1>5. bytes[1] = HEADER_BYTE
  BY <1>1, <1>4
<1>6. ASSUME Len(bytes) >= 2 PROVE Expected(bytes) = Len(payload)
  <2>1. bytes[2] = Len(payload)
    BY <1>1, <1>3, <1>4, <1>6
  <2> QED BY <1>1, <2>1 DEF Expected, MAX_PAYLOAD_MESSAGE_LENGTH
<1>7. Complete(bytes) <=> LastByte
  BY <1>1, <1>3, <1>6 DEF Complete, LastByte
<1>8. ASSUME ~LastByte PROVE NextBuf(Frame[at + 1]) = bytes
  BY <1>5, <1>7, <1>8 DEF NextBuf, bytes
<1>9. ASSUME LastByte
      PROVE  /\ NextBuf(Frame[at + 1]) = <<>>
             /\ NextOutcome(Frame[at + 1]) = Received(Filled(payload))
  <2>1. NextBuf(Frame[at + 1]) = <<>> /\ NextOutcome(Frame[at + 1]) = Check(bytes)
    BY <1>7, <1>9 DEF NextBuf, NextOutcome, bytes
  <2> DEFINE message == SubSeq(bytes, 3, Len(bytes) - 1)
  <2>2. at + 1 = Len(payload) + 3
    BY <1>1, <1>9 DEF LastByte
  <2>3. message = payload
    <3>1. Len(bytes) - 1 = Len(payload) + 2 /\ (Len(payload) + 2) - 3 + 1 = Len(payload)
      BY <1>1, <1>3, <2>2
    <3>2. \A i \in 3 .. Len(payload) + 2 : bytes[i] \in Octet
      BY <1>1, <1>3, <2>2, ElementOfSeq
    <3>3. /\ message \in Seq(Octet)
          /\ Len(message) = Len(payload)
          /\ \A i \in 1 .. Len(payload) : message[i] = bytes[3 + i - 1]
      BY <1>1, <3>1, <3>2, SubSeqProperties
    <3>4. \A i \in 1 .. Len(payload) : message[i] = payload[i]
      <4> TAKE i \in 1 .. Len(payload)
      <4>1. 3 + i - 1 = i + 2 /\ i + 2 \in 1 .. at + 1
        BY <1>1, <2>2
      <4>2. bytes[i + 2] = Frame[i + 2] /\ Frame[i + 2] = payload[i]
        BY <1>4, <4>1, FrameOf
      <4> QED BY <3>3, <4>1, <4>2
    <3> HIDE DEF message
    <3> QED BY <1>1, <3>3, <3>4, SeqEqual
  <2>4. bytes[Len(bytes)] = CRC(payload)
    <3>1. Frame[Len(Frame)] = CRC(payload)
      BY FrameOf
    <3> QED BY <1>1, <1>3, <1>4, <2>2, <3>1
  <2>5. Check(bytes) = Received(Filled(payload))
    BY <2>3, <2>4 DEF Check
  <2> QED BY <2>1, <2>5
<1> QED BY <1>8, <1>9 DEF bytes

-----------------------------------------------------------------------------
(* Every damage has its cost, and no more is lost.                          *)
LEMMA LostBounded ==
  ASSUME LinkInv
  PROVE  lost <= DamageCost * damages
<1>1. lost \in Nat /\ damages \in Nat
  BY LinkAssumption DEF LinkInv, TypeOK
<1>2. CASE InStep
  BY <1>2 DEF InStep
<1>3. CASE Disturbed
  BY <1>1, <1>3 DEF Disturbed, DamageCost
<1>4. CASE Behind
  <2>1. PICK since \in Nat : /\ lost <= DamageCost * (damages - 1) + since
                             /\ 4 * since + at + 1 <= Len(buf)
    BY <1>4 DEF Behind
  <2>2. Len(buf) \in Nat /\ Len(buf) <= 22
    BY OpenIsShort DEF LinkInv, TypeOK
  <2>3. at \in Nat
    BY FrameOf DEF LinkInv
  <2>4. since <= 5
    BY <2>1, <2>2, <2>3
  <2> QED BY <1>1, <2>1, <2>4 DEF DamageCost
<1>5. CASE Scanning
  BY <1>1, <1>5 DEF Scanning, DamageCost
<1> QED BY <1>2, <1>3, <1>4, <1>5 DEF LinkInv

(* The sender after a byte.                                                 *)
LEMMA SentTypes ==
  ASSUME TypeOK, NEW damage \in BOOLEAN, Sent(damage)
  PROVE  /\ payload' \in Payloads /\ at' \in 0 .. Len(payload') + 2
         /\ damaged' \in BOOLEAN
         /\ lost' \in Nat
         /\ LastByte => at' = 0 /\ damaged' = FALSE
         /\ ~LastByte => /\ payload' = payload /\ at' = at + 1
                         /\ damaged' = (damaged \/ damage)
         /\ lost' = lost \/ lost' = lost + 1 \/ lost' = 0
         /\ lost' = lost + 1 => LastByte /\ ~damaged /\ ~damage
         /\ outcome' = Received(Filled(payload)) \/ damages' = 0 => lost' = 0
<1>1. /\ payload \in Payloads /\ at \in 0 .. Len(payload) + 2 /\ damaged \in BOOLEAN
      /\ lost \in Nat
  BY DEF TypeOK
<1>2. /\ Len(payload) \in Nat /\ at \in Nat /\ at + 1 <= Len(Frame)
      /\ Len(Frame) = Len(payload) + 3
  BY FrameOf
<1>3. /\ lost' \in Nat
      /\ lost' = lost \/ lost' = lost + 1 \/ lost' = 0
      /\ lost' = lost + 1 => LastByte /\ ~damaged /\ ~damage
      /\ outcome' = Received(Filled(payload)) \/ damages' = 0 => lost' = 0
  <2>1. CASE outcome' = Received(Filled(payload)) \/ damages' = 0
    BY <1>1, <2>1 DEF Sent
  <2>2. CASE /\ ~(outcome' = Received(Filled(payload)) \/ damages' = 0)
             /\ LastByte /\ ~damaged /\ ~damage
    BY <1>1, <2>2 DEF Sent
  <2>3. CASE /\ ~(outcome' = Received(Filled(payload)) \/ damages' = 0)
             /\ ~(LastByte /\ ~damaged /\ ~damage)
    BY <1>1, <2>3 DEF Sent
  <2> QED BY <2>1, <2>2, <2>3
<1>4. CASE LastByte
  <2>1. payload' \in Payloads /\ at' = 0 /\ damaged' = FALSE
    BY <1>4 DEF Sent
  <2>2. Len(payload') \in Nat
    BY <2>1, Sizes
  <2>3. at' \in 0 .. Len(payload') + 2
    BY <2>1, <2>2
  <2> QED BY <1>4, <1>3, <2>1, <2>3
<1>5. CASE ~LastByte
  <2>1. payload' = payload /\ at' = at + 1 /\ damaged' = (damaged \/ damage)
    BY <1>5 DEF Sent
  <2>2. at + 1 \in 0 .. Len(payload) + 2
    BY <1>2, <1>5 DEF LastByte
  <2>3. damaged' \in BOOLEAN
    BY <2>1
  <2>4. payload' \in Payloads /\ at' \in 0 .. Len(payload') + 2
    BY <1>1, <2>1, <2>2
  <2> QED BY <1>5, <1>3, <2>1, <2>3, <2>4
<1> QED BY <1>4, <1>5

(* Only a message is counted, and at most once.                             *)
LEMMA WrongCounted ==
  ASSUME wrong \in Nat, Counted
  PROVE  /\ wrong' = wrong \/ wrong' = wrong + 1
         /\ wrong' \in Nat /\ wrong' <= wrong + 1
         /\ ~Deceived => wrong' = wrong
<1>1. CASE Deceived
  BY <1>1 DEF Counted
<1>2. CASE ~Deceived
  BY <1>2 DEF Counted
<1> QED BY <1>1, <1>2

(* At the beginning of a frame, the receiver waits for it or is behind.     *)
LEMMA FrameBegins ==
  ASSUME buf' \in Seq(Octet), damaged' = FALSE, at' = 0,
         damages' \in Nat, damages' > 0, lost' \in Nat,
         lost' <= DamageCost * (damages' - 1)
  PROVE  (InStep \/ Behind)'
<1> DEFINE d == damages'
<1> DEFINE l == lost'
<1>1. l <= DamageCost * d /\ l <= DamageCost * (d - 1) + 0
  <2>1. d \in Nat /\ l \in Nat /\ l <= DamageCost * (d - 1)
    OBVIOUS
  <2> HIDE DEF d, l
  <2> QED BY <2>1 DEF DamageCost
<1>2. CASE buf' = <<>>
  <2>1. lost' <= DamageCost * damages'
    BY <1>1
  <2> QED BY <1>2, <2>1 DEF InStep, Aligned
<1>3. CASE buf' # <<>>
  <2>1. Len(buf') \in Nat /\ 1 <= Len(buf')
    BY <1>3
  <2>2. 4 * 0 + at' + 1 <= Len(buf')
    BY <2>1
  <2>3. lost' <= DamageCost * (damages' - 1) + 0
    BY <1>1
  <2> QED BY <1>3, <2>2, <2>3 DEF Behind
<1> QED BY <1>2, <1>3

-----------------------------------------------------------------------------
(* A byte arrives as it was sent.                                           *)
LEMMA StepByteArrives ==
  ASSUME HeaderOnlyFirst, LinkInv, ByteArrives
  PROVE  LinkInv'
<1> DEFINE byte == Frame[at + 1]
<1> USE DEF LinkInv
<1>1. byte \in Octet /\ at \in Nat /\ at + 1 <= Len(Frame) /\ Len(Frame) \in Nat
      /\ Len(Frame) = Len(payload) + 3 /\ 4 <= Len(Frame)
  BY FrameOf
<1>2. /\ damages' = damages /\ damages \in 0 .. MaxDamages /\ damages \in Nat
      /\ lost \in Nat /\ lost <= DamageCost * damages
      /\ buf \in Seq(Octet) /\ Len(buf) \in Nat /\ Len(buf) <= 22
  BY OpenIsShort, LostBounded, LinkAssumption DEF ByteArrives, TypeOK
<1>3. /\ payload' \in Payloads /\ at' \in 0 .. Len(payload') + 2
      /\ damaged' \in BOOLEAN
      /\ lost' \in Nat
      /\ LastByte => at' = 0 /\ damaged' = FALSE
      /\ ~LastByte => payload' = payload /\ at' = at + 1 /\ damaged' = damaged
      /\ lost' = lost \/ lost' = lost + 1 \/ lost' = 0
      /\ lost' = lost + 1 => LastByte /\ ~damaged
      /\ outcome' = Received(Filled(payload)) \/ damages' = 0 => lost' = 0
  <2>1. Sent(FALSE)
    BY DEF ByteArrives
  <2>2. damaged \in BOOLEAN
    BY DEF TypeOK
  <2> QED BY <2>1, <2>2, SentTypes
<1>4. buf' = NextBuf(byte) /\ outcome' = NextOutcome(byte)
  BY DEF ByteArrives, readByte
<1>5. /\ buf' \in Seq(Octet) /\ Open(buf')
      /\ buf' # <<>> => buf' = Append(buf, byte)
  <2> HIDE DEF byte
  <2>1. /\ NextBuf(byte) \in Seq(Octet)
        /\ Open(NextBuf(byte))
        /\ NextBuf(byte) # <<>> => NextBuf(byte) = Append(buf, byte)
    BY <1>1, NextBufOpen DEF TypeOK
  <2> QED BY <1>4, <2>1
<1>6. TypeOK' /\ Open(buf)'
  <2>1. wrong' \in Nat
    BY WrongCounted DEF ByteArrives, Sent, TypeOK
  <2> QED BY <1>2, <1>3, <1>5, <2>1 DEF TypeOK
<1> HIDE DEF byte
<1>7. CASE InStep
  <2>1. /\ Len(buf) = at /\ ~damaged
        /\ \A i \in 1 .. at : buf[i] = Frame[i]
    BY <1>7 DEF InStep, Aligned
  <2>2. CASE LastByte
    <3>1. buf' = <<>> /\ outcome' = Received(Filled(payload))
      BY <1>4, <1>7, <2>2, AlignedArrives DEF byte, InStep
    <3>2. lost' = 0 /\ at' = 0 /\ damaged' = FALSE
      BY <1>3, <2>2, <3>1
    <3>3. lost' <= DamageCost * damages'
      BY <1>2, <3>2 DEF DamageCost
    <3> QED BY <1>6, <3>1, <3>2, <3>3 DEF InStep, Aligned
  <2>3. CASE ~LastByte
    <3>1. buf' = Append(buf, byte)
      BY <1>4, <1>7, <2>3, AlignedArrives DEF byte, InStep
    <3>2. payload' = payload /\ at' = at + 1 /\ ~damaged' /\ lost' <= lost
      BY <1>2, <1>3, <2>1, <2>3
    <3>3. lost' <= DamageCost * damages'
      BY <1>2, <1>3, <3>2 DEF DamageCost
    <3>4. /\ Len(buf') = Len(buf) + 1
          /\ \A i \in 1 .. Len(buf) : buf'[i] = buf[i]
          /\ buf'[Len(buf) + 1] = byte
      BY <1>1, <1>2, <3>1, AppendProperties
    <3>5. \A i \in 1 .. at + 1 : buf'[i] = Frame[i]
      BY <1>1, <2>1, <3>4 DEF byte
    <3>6. Frame' = Frame
      BY <3>2 DEF Frame
    <3> QED BY <1>6, <2>1, <3>2, <3>3, <3>4, <3>5, <3>6 DEF InStep, Aligned
  <2> QED BY <2>2, <2>3
<1>8. CASE Disturbed
  <2>1. damaged /\ damages > 0 /\ lost <= DamageCost * (damages - 1)
    BY <1>8 DEF Disturbed
  <2>2. lost' <= DamageCost * (damages' - 1)
    BY <1>2, <1>3, <2>1 DEF DamageCost
  <2>3. CASE LastByte
    BY <1>2, <1>3, <1>5, <1>6, <2>1, <2>2, <2>3, FrameBegins
  <2>4. CASE ~LastByte
    BY <1>2, <1>3, <1>6, <2>1, <2>2, <2>4 DEF Disturbed
  <2> QED BY <2>3, <2>4
<1>9. CASE Behind
  <2>1. ~damaged /\ damages > 0 /\ buf # <<>>
    BY <1>9 DEF Behind
  <2>2. PICK since \in Nat : /\ lost <= DamageCost * (damages - 1) + since
                             /\ 4 * since + at + 1 <= Len(buf)
    BY <1>9 DEF Behind
  <2>3. since <= 5
    BY <1>1, <1>2, <2>2
  <2>4. lost' <= lost + 1 /\ (~LastByte => lost' <= lost)
    BY <1>2, <1>3
  <2>5. CASE buf' = <<>> /\ LastByte
    <3>1. lost' <= DamageCost * damages'
      BY <1>2, <1>3, <2>1, <2>2, <2>3, <2>4 DEF DamageCost
    <3> QED BY <1>3, <1>6, <2>5, <3>1 DEF InStep, Aligned
  <2>6. CASE buf' = <<>> /\ ~LastByte
    <3>1. lost' < DamageCost * damages'
      BY <1>2, <1>3, <2>1, <2>2, <2>3, <2>4, <2>6 DEF DamageCost
    <3>2. at' > 0
      BY <1>1, <1>3, <2>6
    <3> QED BY <1>2, <1>3, <1>6, <2>1, <2>6, <3>1, <3>2 DEF Scanning
  <2>7. ASSUME buf' # <<>> PROVE Behind'
    <3>1. buf' = Append(buf, byte)
      BY <1>5, <2>7
    <3>2. Len(buf') = Len(buf) + 1
      BY <1>1, <1>2, <3>1, AppendProperties
    <3>3. CASE LastByte
      <4>1. lost' <= DamageCost * (damages' - 1) + (since + 1)
        BY <1>2, <1>3, <2>2, <2>4 DEF DamageCost
      <4>2. at' = 0 /\ at + 1 = Len(Frame)
        BY <1>1, <1>3, <3>3 DEF LastByte
      <4>3. 4 * (since + 1) + at' + 1 <= Len(buf')
        BY <1>1, <1>2, <2>2, <3>2, <4>2
      <4> QED BY <1>2, <1>3, <2>1, <2>7, <3>3, <4>1, <4>3 DEF Behind
    <3>4. CASE ~LastByte
      <4>1. lost' <= DamageCost * (damages' - 1) + since
        BY <1>2, <1>3, <2>2, <2>4, <3>4 DEF DamageCost
      <4>2. 4 * since + at' + 1 <= Len(buf')
        BY <1>1, <1>2, <1>3, <2>2, <3>2, <3>4
      <4> QED BY <1>2, <1>3, <2>1, <2>7, <3>4, <4>1, <4>2 DEF Behind
    <3> QED BY <3>3, <3>4
  <2> QED BY <1>6, <2>5, <2>6, <2>7
<1>10. CASE Scanning
  <2>1. ~damaged /\ damages > 0 /\ buf = <<>> /\ at > 0 /\ lost < DamageCost * damages
    BY <1>10 DEF Scanning
  <2>2. byte # HEADER_BYTE
    <3>1. at + 1 \in 2 .. Len(payload) + 3 /\ payload \in Payloads
      BY <1>1, <2>1 DEF TypeOK
    <3> QED BY <3>1 DEF HeaderOnlyFirst, byte, Frame
  <2>3. buf' = <<>>
    <3>1. Append(buf, byte)[1] = byte
      BY <2>1
    <3> QED BY <1>4, <2>2, <3>1 DEF NextBuf
  <2>4. CASE LastByte
    <3>1. lost' <= DamageCost * damages'
      BY <1>2, <1>3, <2>1 DEF DamageCost
    <3> QED BY <1>3, <1>6, <2>3, <2>4, <3>1 DEF InStep, Aligned
  <2>5. CASE ~LastByte
    <3>1. lost' < DamageCost * damages'
      BY <1>2, <1>3, <2>1, <2>5 DEF DamageCost
    <3>2. at' > 0
      BY <1>1, <1>3, <2>5
    <3> QED BY <1>2, <1>3, <1>6, <2>1, <2>3, <2>5, <3>1, <3>2 DEF Scanning
  <2> QED BY <2>4, <2>5
<1> QED BY <1>7, <1>8, <1>9, <1>10

(* A byte is changed or lost: what is left of the buffer, and the sender.   *)
LEMMA StepDamaged ==
  ASSUME LinkInv, damages < MaxDamages, damages' = damages + 1, Sent(TRUE),
         buf' \in Seq(Octet), Open(buf')
  PROVE  LinkInv'
<1>1. /\ damages \in Nat /\ damages' \in 0 .. MaxDamages
      /\ damages' \in Nat /\ damages' > 0
      /\ lost \in Nat /\ lost <= DamageCost * damages
  BY LostBounded, LinkAssumption DEF LinkInv, TypeOK
<1>2. /\ payload' \in Payloads /\ at' \in 0 .. Len(payload') + 2
      /\ damaged' \in BOOLEAN
      /\ lost' \in Nat
      /\ LastByte => at' = 0 /\ damaged' = FALSE
      /\ ~LastByte => damaged' = (damaged \/ TRUE)
      /\ lost' = lost \/ lost' = lost + 1 \/ lost' = 0
      /\ lost' = lost + 1 => LastByte /\ ~damaged /\ ~TRUE
  BY SentTypes DEF LinkInv
<1>3. lost' <= DamageCost * (damages' - 1)
  BY <1>1, <1>2 DEF DamageCost
<1>4. TypeOK' /\ Open(buf)'
  <2>1. wrong' \in Nat
    BY WrongCounted DEF LinkInv, Sent, TypeOK
  <2> QED BY <1>1, <1>2, <2>1 DEF TypeOK
<1>5. CASE LastByte
  BY <1>1, <1>2, <1>3, <1>4, <1>5, FrameBegins DEF LinkInv
<1>6. CASE ~LastByte
  BY <1>1, <1>2, <1>3, <1>4, <1>6 DEF LinkInv, Disturbed
<1> QED BY <1>5, <1>6

LEMMA StepByteChanged ==
  ASSUME LinkInv, ByteChanged
  PROVE  LinkInv'
<1>1. PICK byte \in NoiseBytes : readByte(byte)
  BY DEF ByteChanged
<1>2. byte \in Octet
  BY LinkAssumption
<1>3. buf' \in Seq(Octet) /\ Open(buf')
  <2>1. NextBuf(byte) \in Seq(Octet) /\ Open(NextBuf(byte))
    BY <1>2, NextBufOpen DEF LinkInv, TypeOK
  <2> QED BY <1>1, <2>1 DEF readByte
<1>4. damages < MaxDamages /\ damages' = damages + 1 /\ Sent(TRUE)
  BY DEF ByteChanged
<1> QED BY <1>3, <1>4, StepDamaged

LEMMA StepByteLost ==
  ASSUME LinkInv, ByteLost
  PROVE  LinkInv'
<1>1. buf' \in Seq(Octet) /\ Open(buf')
  BY DEF ByteLost, LinkInv, TypeOK
<1> QED BY <1>1, StepDamaged DEF ByteLost

LEMMA StepByteAdded ==
  ASSUME LinkInv, ByteAdded
  PROVE  LinkInv'
<1>1. PICK byte \in NoiseBytes : readByte(byte)
  BY DEF ByteAdded
<1>2. byte \in Octet
  BY LinkAssumption
<1>3. buf' \in Seq(Octet) /\ Open(buf')
  <2>1. NextBuf(byte) \in Seq(Octet) /\ Open(NextBuf(byte))
    BY <1>2, NextBufOpen DEF LinkInv, TypeOK
  <2> QED BY <1>1, <2>1 DEF readByte
<1>4. /\ damages \in Nat /\ damages' \in 0 .. MaxDamages /\ damages' > 0
      /\ damages' = damages + 1
      /\ lost \in Nat /\ lost <= DamageCost * damages
  BY LostBounded, LinkAssumption DEF LinkInv, TypeOK, ByteAdded
<1>5. payload' = payload /\ at' = at /\ damaged' = (damaged \/ at > 0) /\ lost' = lost
  BY DEF ByteAdded
<1>6. lost' <= DamageCost * (damages' - 1)
  BY <1>4, <1>5 DEF DamageCost
<1>7. TypeOK' /\ Open(buf)'
  <2>1. wrong' \in Nat
    BY WrongCounted DEF ByteAdded, LinkInv, TypeOK
  <2> QED BY <1>3, <1>4, <1>5, <2>1 DEF LinkInv, TypeOK
<1>8. CASE damaged \/ at > 0
  BY <1>4, <1>5, <1>6, <1>7, <1>8 DEF LinkInv, Disturbed
<1>9. CASE ~(damaged \/ at > 0)
  <2>1. damaged' = FALSE /\ at' = 0 /\ lost' \in Nat /\ damages' \in Nat
    BY <1>4, <1>5, <1>9 DEF LinkInv, TypeOK
  <2> QED BY <1>3, <1>4, <1>6, <1>7, <2>1, FrameBegins DEF LinkInv
<1> QED BY <1>8, <1>9

LEMMA InitLink ==
  ASSUME Init
  PROVE  LinkInv
<1>1. /\ payload \in Payloads /\ at = 0 /\ damaged = FALSE /\ damages = 0
      /\ buf = <<>> /\ lost = 0 /\ wrong = 0
  BY DEF Init
<1>2. Len(payload) \in Nat
  BY <1>1, Sizes
<1>3. TypeOK
  <2>1. at \in 0 .. Len(payload) + 2
    BY <1>1, <1>2
  <2>2. damages \in 0 .. MaxDamages
    BY <1>1, LinkAssumption
  <2>3. buf \in Seq(Octet)
    BY <1>1
  <2> QED BY <1>1, <2>1, <2>2, <2>3 DEF TypeOK
<1>4. InStep
  BY <1>1 DEF InStep, Aligned, DamageCost
<1> QED BY <1>1, <1>3, <1>4 DEF LinkInv, Open

LEMMA NextLink ==
  ASSUME HeaderOnlyFirst, LinkInv, [Next]_linkVars
  PROVE  LinkInv'
<1>1. CASE Next
  BY <1>1, StepByteArrives, StepByteChanged, StepByteLost, StepByteAdded DEF Next
<1>2. CASE UNCHANGED linkVars
  BY <1>2 DEF linkVars, lineVars, LinkInv, TypeOK, Open, Expected, InStep, Aligned, Disturbed,
              Behind, Scanning, Frame
<1> QED BY <1>1, <1>2

-----------------------------------------------------------------------------
(* readMessage finds the beginning of a frame again within six undamaged    *)
(* frames of each damage, whatever the payloads, the CRC, the value of the  *)
(* damaged bytes and the moment of the damage, when only the first byte of  *)
(* a frame is a header.                                                     *)
THEOREM LinkResynchronises ==
  ASSUME HeaderOnlyFirst, LostAllowed
  PROVE  Spec => []Resynchronises
<1>1. Init => LinkInv
  BY InitLink
<1>2. LinkInv /\ [Next]_linkVars => LinkInv'
  BY NextLink
<1>3. LinkInv => Resynchronises
  <2> SUFFICES ASSUME LinkInv PROVE Resynchronises
    OBVIOUS
  <2>1. lost \in Nat /\ damages \in Nat /\ damages <= MaxDamages
    BY LinkAssumption DEF LinkInv, TypeOK
  <2> QED
    BY <2>1, LostBounded, LinkAssumption DEF LostAllowed, Resynchronises, DamageCost
<1> QED BY <1>1, <1>2, <1>3, PTL DEF Spec

-----------------------------------------------------------------------------
(* A message is handed over when the buffer is complete, and empties it.    *)
LEMMA MessageEmpties ==
  ASSUME NEW byte, readByte(byte), Deceived
  PROVE  buf' = <<>>
<1>1. outcome'.kind = "message" /\ outcome' = NextOutcome(byte) /\ buf' = NextBuf(byte)
  BY DEF readByte, Deceived
<1>2. Complete(Append(buf, byte))
  <2>1. Nothing.kind # "message"
    BY DEF Nothing
  <2> QED BY <1>1, <2>1 DEF NextOutcome
<1> QED BY <1>1, <1>2 DEF NextBuf

(* A damage allows one more, whatever is made of it.                        *)
LEMMA DamageAllows ==
  ASSUME TypeOK, DeceitInv, Counted, damages' = damages + 1, Deceived => buf' = <<>>
  PROVE  DeceitInv'
<1>1. /\ wrong \in Nat /\ damages \in Nat /\ damages' \in Nat /\ wrong <= damages
      /\ wrong' \in Nat /\ wrong' <= wrong + 1 /\ (~Deceived => wrong' = wrong)
  BY WrongCounted, LinkAssumption DEF TypeOK, DeceitInv
<1>2. CASE Deceived
  BY <1>1, <1>2 DEF DeceitInv
<1>3. CASE ~Deceived
  BY <1>1, <1>3 DEF DeceitInv
<1> QED BY <1>2, <1>3

(* A byte that arrives as it was sent can only end a message of another     *)
(* frame wrongly when a damage is left for it.                              *)
LEMMA ArrivalDeceives ==
  ASSUME HeaderOnlyFirst, LinkInv, DeceitInv, ByteArrives
  PROVE  DeceitInv'
<1> DEFINE byte == Frame[at + 1]
<1>1. /\ TypeOK /\ readByte(byte) /\ buf' = NextBuf(byte) /\ outcome' = NextOutcome(byte)
      /\ damages' = damages /\ Sent(FALSE) /\ Counted
  BY DEF LinkInv, ByteArrives, readByte, Sent
<1>2. /\ wrong \in Nat /\ damages \in Nat /\ wrong <= damages
      /\ wrong' \in Nat /\ wrong' <= wrong + 1 /\ (~Deceived => wrong' = wrong)
  BY <1>1, WrongCounted, LinkAssumption DEF TypeOK, DeceitInv
<1>3. at \in Nat /\ byte \in Octet /\ buf \in Seq(Octet) /\ Len(payload) \in Nat
  BY <1>1, FrameOf DEF TypeOK
<1>4. CASE Aligned /\ LastByte
  <2>1. buf' = <<>> /\ outcome' = Received(Filled(payload))
    BY <1>1, <1>4, AlignedArrives DEF byte
  <2>2. ~Deceived
    BY <2>1 DEF Deceived, Received
  <2> QED BY <1>1, <1>2, <2>1, <2>2 DEF DeceitInv
<1>5. CASE Aligned /\ ~LastByte
  <2>1. buf' = Append(buf, byte) /\ buf' # <<>>
    BY <1>1, <1>3, <1>5, AlignedArrives DEF byte
  <2>2. ~Deceived
    BY <1>1, <2>1, MessageEmpties
  <2>3. payload' = payload /\ at' = at + 1
    BY <1>1, <1>5, SentTypes
  <2>4. /\ Len(buf') = Len(buf) + 1
        /\ \A i \in 1 .. Len(buf) : buf'[i] = buf[i]
        /\ buf'[Len(buf) + 1] = byte
    BY <1>3, <2>1, AppendProperties
  <2>5. Len(buf) = at /\ \A i \in 1 .. at : buf[i] = Frame[i]
    BY <1>5 DEF Aligned
  <2>6. Len(buf') = at' /\ \A i \in 1 .. at + 1 : buf'[i] = Frame[i]
    BY <1>3, <2>3, <2>4, <2>5 DEF byte
  <2>7. Aligned'
    <3>1. Frame' = Frame
      BY <2>3 DEF Frame
    <3> QED BY <2>3, <2>6, <3>1 DEF Aligned
  <2> QED BY <1>1, <1>2, <2>2, <2>7 DEF DeceitInv
<1>6. CASE ~Aligned /\ buf = <<>>
  <2>1. at > 0
    BY <1>3, <1>6 DEF Aligned
  <2>2. byte # HEADER_BYTE
    <3>1. at + 1 <= Len(payload) + 3
      BY <1>1, FrameOf
    <3>2. at + 1 \in 2 .. Len(payload) + 3 /\ payload \in Payloads
      BY <1>1, <1>3, <2>1, <3>1 DEF TypeOK
    <3> QED BY <3>2 DEF HeaderOnlyFirst, byte, Frame
  <2> HIDE DEF byte
  <2>3. Append(buf, byte)[1] = byte /\ Len(Append(buf, byte)) = 1
    BY <1>6
  <2>4. buf' = <<>>
    BY <1>1, <2>2, <2>3 DEF NextBuf
  <2>5. ~Deceived
    <3>1. ~Complete(Append(buf, byte))
      BY <2>3 DEF Complete
    <3> QED BY <1>1, <3>1 DEF NextOutcome, Nothing, Deceived
  <2> QED BY <1>1, <1>2, <2>4, <2>5 DEF DeceitInv
<1>7. CASE ~Aligned /\ buf # <<>>
  <2>1. wrong < damages
    BY <1>7 DEF DeceitInv
  <2>2. CASE Deceived
    <3>1. buf' = <<>>
      BY <1>1, <2>2, MessageEmpties
    <3> QED BY <1>1, <1>2, <2>1, <3>1 DEF DeceitInv
  <2>3. CASE ~Deceived
    BY <1>1, <1>2, <2>1, <2>3 DEF DeceitInv
  <2> QED BY <2>2, <2>3
<1> QED BY <1>4, <1>5, <1>6, <1>7

LEMMA NextDeceives ==
  ASSUME HeaderOnlyFirst, LinkInv, DeceitInv, [Next]_linkVars
  PROVE  DeceitInv'
<1>1. CASE ByteArrives
  BY <1>1, ArrivalDeceives
<1>2. CASE ByteChanged
  <2>1. PICK byte \in NoiseBytes : readByte(byte)
    BY <1>2 DEF ByteChanged
  <2>2. Deceived => buf' = <<>>
    BY <2>1, MessageEmpties
  <2> QED BY <1>2, <2>2, DamageAllows DEF ByteChanged, Sent, LinkInv
<1>3. CASE ByteLost
  <2>1. ~Deceived
    BY <1>3 DEF ByteLost, Deceived, Nothing
  <2> QED BY <1>3, <2>1, DamageAllows DEF ByteLost, Sent, LinkInv
<1>4. CASE ByteAdded
  <2>1. PICK byte \in NoiseBytes : readByte(byte)
    BY <1>4 DEF ByteAdded
  <2>2. Deceived => buf' = <<>>
    BY <2>1, MessageEmpties
  <2> QED BY <1>4, <2>2, DamageAllows DEF ByteAdded, LinkInv
<1>5. CASE UNCHANGED linkVars
  BY <1>5 DEF linkVars, lineVars, DeceitInv, Aligned, Frame
<1> QED BY <1>1, <1>2, <1>3, <1>4, <1>5 DEF Next

(* A damage deceives readMessage once at most, whatever the payloads, the   *)
(* CRC, the value of the damaged bytes and the moment of the damage, when   *)
(* only the first byte of a frame is a header.                              *)
THEOREM DamagesDeceiveOnce ==
  ASSUME HeaderOnlyFirst
  PROVE  Spec => []DamageDeceivesOnce
<1>1. Init => LinkInv /\ DeceitInv
  <2>1. Init => DeceitInv
    BY DEF Init, DeceitInv
  <2> QED BY <2>1, InitLink
<1>2. LinkInv /\ DeceitInv /\ [Next]_linkVars => (LinkInv /\ DeceitInv)'
  BY NextLink, NextDeceives
<1>3. LinkInv /\ DeceitInv => DamageDeceivesOnce
  BY DEF DeceitInv, DamageDeceivesOnce
<1> QED BY <1>1, <1>2, <1>3, PTL DEF Spec

-----------------------------------------------------------------------------
(* The digits of an antenna frame.                                          *)
Digits == 48 .. 57 \union 65 .. 70

LEMMA PowersOf16 == 16^3 = 4096 /\ 16^2 = 256 /\ 16^1 = 16 /\ 16^0 = 1
OBVIOUS

LEMMA AsciiDigits ==
  ASSUME NEW digit \in 0 .. 15
  PROVE  /\ Ascii(digit) \in Digits
         /\ DigitOf(Ascii(digit)) = digit
<1>1. CASE digit < 10
  <2>1. digit \div 10 = 0
    BY <1>1
  <2>2. Ascii(digit) = 48 + digit
    BY <2>1 DEF Ascii, CHAR_ZERO, CHAR_A_OFFSET
  <2> QED BY <1>1, <2>2 DEF DigitOf, Digits, CHAR_ZERO
<1>2. CASE digit >= 10
  <2>1. digit \div 10 = 1
    BY <1>2
  <2>2. Ascii(digit) = 55 + digit
    BY <2>1 DEF Ascii, CHAR_ZERO, CHAR_A_OFFSET
  <2> QED BY <1>2, <2>2 DEF DigitOf, Digits, CHAR_ZERO
<1> QED BY <1>1, <1>2

(* For intervals whose ends are hidden from the provers.                    *)
LEMMA Interval ==
  ASSUME NEW a \in Int, NEW b \in Int, NEW x
  PROVE  x \in a .. b <=> x \in Int /\ a <= x /\ x <= b
OBVIOUS

(* The values of a uint16_t, of an int16_t, and those not negative.         *)
Word(n)    == n \in Nat /\ n <= 65535
Steps(x)   == x \in Int /\ -32768 <= x /\ x <= 32767
Upright(y) == y \in Nat /\ y <= 32767

(* Four hexadecimal digits are enough for a word.                           *)
LEMMA Quotients ==
  ASSUME NEW word \in Nat, word <= 65535
  PROVE  /\ word \div 256 = (word \div 16) \div 16
         /\ word \div 4096 = (word \div 256) \div 16
         /\ word \div 16 \in Nat /\ word \div 256 \in Nat /\ word \div 4096 \in Nat
         /\ word \div 4096 <= 15
         /\ word = 16 * (word \div 16) + (word % 16)
<1>1. word \div 256 = (word \div 16) \div 16
  OBVIOUS
<1>2. word \div 4096 = (word \div 256) \div 16
  OBVIOUS
<1>3. word \div 16 \in Nat /\ word \div 256 \in Nat /\ word \div 4096 \in Nat
  OBVIOUS
<1>4. word \div 4096 <= 15
  OBVIOUS
<1>5. word = 16 * (word \div 16) + (word % 16)
  OBVIOUS
<1> QED BY <1>1, <1>2, <1>3, <1>4, <1>5

LEMMA Recombined ==
  ASSUME NEW word \in Nat, word <= 65535
  PROVE  ((word \div 4096) % 16) * 4096 + ((word \div 256) % 16) * 256
           + ((word \div 16) % 16) * 16 + (word % 16) = word
<1> DEFINE a == word \div 16
<1> DEFINE b == word \div 256
<1> DEFINE c == word \div 4096
<1>1. /\ b = a \div 16 /\ c = b \div 16
      /\ a \in Nat /\ b \in Nat /\ c \in Nat /\ c <= 15
      /\ word = 16 * a + (word % 16)
  BY Quotients
<1> HIDE DEF a, b, c
<1>2. a = 16 * b + (a % 16)
  BY <1>1
<1>3. b = 16 * c + (b % 16)
  BY <1>1
<1>4. c % 16 = c
  BY <1>1
<1>5. word % 16 \in Nat /\ a % 16 \in Nat /\ b % 16 \in Nat
  BY <1>1
<1>6. (c % 16) * 4096 + (b % 16) * 256 + (a % 16) * 16 + (word % 16) = word
  BY <1>1, <1>2, <1>3, <1>4, <1>5
<1> QED BY <1>6 DEF a, b, c

LEMMA SignedUnsigned ==
  ASSUME NEW x, Steps(x)
  PROVE  Word(Unsigned(x)) /\ Signed(Unsigned(x)) = x
<1> USE DEF Steps, Word
<1>1. 2^15 = 32768 /\ 2^16 = 65536
  OBVIOUS
<1>2. Unsigned(x) = x % 65536
  BY <1>1 DEF Unsigned
<1>3. \A word \in Nat :
        /\ word >= 32768 => Signed(word) = word - 65536
        /\ word < 32768 => Signed(word) = word
  BY <1>1 DEF Signed
<1>4. CASE x >= 0
  <2>1. x % 65536 = x
    BY <1>4
  <2>2. Unsigned(x) = x
    BY <1>2, <2>1
  <2>3. x \in Nat /\ x < 32768
    BY <1>4
  <2>4. Signed(x) = x
    BY <1>3, <2>3
  <2> QED BY <2>2, <2>3, <2>4
<1>5. CASE x < 0
  <2>1. x % 65536 = x + 65536
    BY <1>5
  <2>2. Unsigned(x) = x + 65536
    BY <1>2, <2>1
  <2>3. x + 65536 \in Nat /\ x + 65536 >= 32768 /\ x + 65536 <= 65535
    BY <1>5
  <2>4. Signed(x + 65536) = (x + 65536) - 65536
    BY <1>3, <2>3
  <2>5. (x + 65536) - 65536 = x
    OBVIOUS
  <2> QED BY <2>2, <2>3, <2>4, <2>5
<1> QED BY <1>4, <1>5

ValueOf(hex) ==
  DigitOf(hex[1]) * 4096 + DigitOf(hex[2]) * 256 + DigitOf(hex[3]) * 16 + DigitOf(hex[4])

LEMMA HexadecimalDigits ==
  ASSUME NEW word, Word(word)
  PROVE  /\ Hexadecimal(word) \in Seq(Octet) /\ Len(Hexadecimal(word)) = 4
         /\ \A i \in 1 .. 4 : Hexadecimal(word)[i] \in Digits
         /\ ValueOf(Hexadecimal(word)) = word
<1> USE DEF Word
<1> DEFINE hex == Hexadecimal(word)
<1> DEFINE d1 == (word \div 4096) % 16
<1> DEFINE d2 == (word \div 256) % 16
<1> DEFINE d3 == (word \div 16) % 16
<1> DEFINE d4 == word % 16
<1>1. /\ d1 \in 0 .. 15 /\ d2 \in 0 .. 15 /\ d3 \in 0 .. 15 /\ d4 \in 0 .. 15
  <2>1. \A n \in Nat : n % 16 \in 0 .. 15
    OBVIOUS
  <2> QED BY <2>1, Quotients
<1>2. d1 * 4096 + d2 * 256 + d3 * 16 + d4 = word
  BY Recombined
<1>3. hex = [i \in 1 .. 4 |-> Ascii((word \div 16^(4 - i)) % 16)]
  BY DEF Hexadecimal
<1>4. /\ hex[1] = Ascii(d1) /\ hex[2] = Ascii(d2)
      /\ hex[3] = Ascii(d3) /\ hex[4] = Ascii(d4)
  <2>1. 4 - 1 = 3 /\ 4 - 2 = 2 /\ 4 - 3 = 1 /\ 4 - 4 = 0
    OBVIOUS
  <2>2. word \div 1 = word
    OBVIOUS
  <2>3. hex[1] = Ascii((word \div 16^3) % 16) /\ hex[2] = Ascii((word \div 16^2) % 16)
    BY <1>3, <2>1
  <2>4. hex[3] = Ascii((word \div 16^1) % 16) /\ hex[4] = Ascii((word \div 16^0) % 16)
    BY <1>3, <2>1
  <2> QED BY <2>2, <2>3, <2>4, PowersOf16
<1> HIDE DEF hex, d1, d2, d3, d4
<1>5. /\ hex[1] \in Digits /\ DigitOf(hex[1]) = d1
      /\ hex[2] \in Digits /\ DigitOf(hex[2]) = d2
      /\ hex[3] \in Digits /\ DigitOf(hex[3]) = d3
      /\ hex[4] \in Digits /\ DigitOf(hex[4]) = d4
  BY <1>1, <1>4, AsciiDigits
<1>6. \A i \in 1 .. 4 : hex[i] \in Digits
  <2> TAKE i \in 1 .. 4
  <2>1. i = 1 \/ i = 2 \/ i = 3 \/ i = 4
    OBVIOUS
  <2> QED BY <1>5, <2>1
<1>7. hex \in Seq(Octet) /\ Len(hex) = 4
  <2>1. \A i \in 1 .. 4 : hex[i] \in Octet
    BY <1>6 DEF Octet, Digits
  <2>2. hex = [i \in 1 .. 4 |-> hex[i]]
    BY <1>3
  <2>3. [i \in 1 .. 4 |-> hex[i]] \in Seq(Octet)
    BY <2>1, IsASeq
  <2>4. Len([i \in 1 .. 4 |-> hex[i]]) = 4
    OBVIOUS
  <2> QED BY <2>2, <2>3, <2>4
<1>8. ValueOf(hex) = word
  BY <1>2, <1>5 DEF ValueOf
<1> QED BY <1>6, <1>7, <1>8 DEF hex

(* The bytes of sequences put together.                                     *)
LEMMA Concatenated ==
  ASSUME NEW S, NEW s \in Seq(S), NEW t \in Seq(S)
  PROVE  /\ s \o t \in Seq(S) /\ Len(s \o t) = Len(s) + Len(t)
         /\ \A i \in 1 .. Len(s) : (s \o t)[i] = s[i]
         /\ \A i \in 1 .. Len(t) : (s \o t)[Len(s) + i] = t[i]
<1>1. /\ s \o t \in Seq(S) /\ Len(s \o t) = Len(s) + Len(t)
      /\ \A i \in 1 .. Len(s) + Len(t) :
           (s \o t)[i] = IF i <= Len(s) THEN s[i] ELSE t[i - Len(s)]
  BY ConcatProperties
<1>2. Len(s) \in Nat /\ Len(t) \in Nat
  OBVIOUS
<1>3. \A i \in 1 .. Len(s) : (s \o t)[i] = s[i]
  BY <1>1, <1>2
<1>4. \A i \in 1 .. Len(t) : (s \o t)[Len(s) + i] = t[i]
  <2> TAKE i \in 1 .. Len(t)
  <2>1. /\ Len(s) + i \in 1 .. Len(s) + Len(t) /\ ~(Len(s) + i <= Len(s))
        /\ (Len(s) + i) - Len(s) = i
    BY <1>2
  <2> QED BY <1>1, <2>1
<1> QED BY <1>1, <1>3, <1>4

LEMMA SecondPart ==
  ASSUME NEW S, NEW s \in Seq(S), NEW t \in Seq(S), NEW i \in 1 .. Len(t)
  PROVE  (s \o t)[Len(s) + i] = t[i]
BY Concatenated

LEMMA FourParts ==
  ASSUME NEW S, NEW s \in Seq(S), NEW t \in Seq(S), NEW v \in Seq(S), NEW w \in Seq(S)
  PROVE  /\ s \o t \o v \o w \in Seq(S)
         /\ Len(s \o t \o v \o w) = Len(s) + Len(t) + Len(v) + Len(w)
         /\ \A i \in 1 .. Len(s) : (s \o t \o v \o w)[i] = s[i]
         /\ \A j \in Len(s) + 1 .. Len(s) + Len(t) : (s \o t \o v \o w)[j] = t[j - Len(s)]
         /\ \A j \in Len(s) + Len(t) + 1 .. Len(s) + Len(t) + Len(v) :
              (s \o t \o v \o w)[j] = v[j - (Len(s) + Len(t))]
         /\ \A j \in Len(s) + Len(t) + Len(v) + 1 .. Len(s) + Len(t) + Len(v) + Len(w) :
              (s \o t \o v \o w)[j] = w[j - (Len(s) + Len(t) + Len(v))]
<1> DEFINE st == s \o t
<1> DEFINE stv == st \o v
<1> DEFINE stvw == stv \o w
<1>1. st \in Seq(S) /\ Len(st) = Len(s) + Len(t)
  BY Concatenated, Zenon
<1>2. \A i \in 1 .. Len(s) : st[i] = s[i]
  BY Concatenated, Zenon
<1>3. \A i \in 1 .. Len(t) : st[Len(s) + i] = t[i]
  BY SecondPart, Zenon
<1> HIDE DEF st
<1>4. st \in Seq(S)
  BY <1>1
<1>5. stv \in Seq(S) /\ Len(stv) = Len(st) + Len(v)
  BY <1>4, Concatenated, Zenon
<1>6. \A i \in 1 .. Len(st) : stv[i] = st[i]
  BY <1>4, Concatenated, Zenon
<1>7. \A i \in 1 .. Len(v) : stv[Len(st) + i] = v[i]
  BY <1>4, SecondPart, Zenon
<1> HIDE DEF stv
<1>8. stv \in Seq(S)
  BY <1>5
<1>9. stvw \in Seq(S) /\ Len(stvw) = Len(stv) + Len(w)
  BY <1>8, Concatenated, Zenon
<1>10. \A i \in 1 .. Len(stv) : stvw[i] = stv[i]
  BY <1>8, Concatenated, Zenon
<1>11. \A i \in 1 .. Len(w) : stvw[Len(stv) + i] = w[i]
  BY <1>8, SecondPart, Zenon
<1> HIDE DEF stvw
<1>12. /\ Len(s) \in Nat /\ Len(t) \in Nat /\ Len(v) \in Nat /\ Len(w) \in Nat
       /\ Len(st) \in Nat /\ Len(stv) \in Nat
  BY <1>4, <1>8
<1>13. \A i \in 1 .. Len(s) : stvw[i] = s[i]
  <2> TAKE i \in 1 .. Len(s)
  <2>1. i \in 1 .. Len(st) /\ i \in 1 .. Len(stv)
    BY <1>1, <1>5, <1>12
  <2> QED BY <1>2, <1>6, <1>10, <2>1
<1>14. \A i \in 1 .. Len(t) : stvw[Len(s) + i] = t[i]
  <2> TAKE i \in 1 .. Len(t)
  <2>1. Len(s) + i \in 1 .. Len(st) /\ Len(s) + i \in 1 .. Len(stv)
    BY <1>1, <1>5, <1>12
  <2> QED BY <1>3, <1>6, <1>10, <2>1
<1>15. \A i \in 1 .. Len(v) : stvw[Len(s) + Len(t) + i] = v[i]
  <2> TAKE i \in 1 .. Len(v)
  <2>1. Len(st) + i \in 1 .. Len(stv)
    BY <1>5, <1>12
  <2>2. stvw[Len(st) + i] = v[i]
    BY <1>7, <1>10, <2>1
  <2> QED BY <1>1, <2>2
<1>16. \A i \in 1 .. Len(w) : stvw[Len(s) + Len(t) + Len(v) + i] = w[i]
  BY <1>1, <1>5, <1>11
<1>17. Len(stvw) = Len(s) + Len(t) + Len(v) + Len(w)
  BY <1>1, <1>5, <1>9
<1>18. \A j \in Len(s) + 1 .. Len(s) + Len(t) : stvw[j] = t[j - Len(s)]
  <2> TAKE j \in Len(s) + 1 .. Len(s) + Len(t)
  <2>1. j - Len(s) \in 1 .. Len(t) /\ Len(s) + (j - Len(s)) = j
    BY <1>12
  <2> QED BY <1>14, <2>1
<1>19. \A j \in Len(s) + Len(t) + 1 .. Len(s) + Len(t) + Len(v) :
         stvw[j] = v[j - (Len(s) + Len(t))]
  <2> TAKE j \in Len(s) + Len(t) + 1 .. Len(s) + Len(t) + Len(v)
  <2>1. /\ j - (Len(s) + Len(t)) \in 1 .. Len(v)
        /\ Len(s) + Len(t) + (j - (Len(s) + Len(t))) = j
    BY <1>12
  <2> QED BY <1>15, <2>1
<1>20. \A j \in Len(s) + Len(t) + Len(v) + 1 .. Len(s) + Len(t) + Len(v) + Len(w) :
         stvw[j] = w[j - (Len(s) + Len(t) + Len(v))]
  <2> TAKE j \in Len(s) + Len(t) + Len(v) + 1 .. Len(s) + Len(t) + Len(v) + Len(w)
  <2>1. /\ j - (Len(s) + Len(t) + Len(v)) \in 1 .. Len(w)
        /\ Len(s) + Len(t) + Len(v) + (j - (Len(s) + Len(t) + Len(v))) = j
    BY <1>12
  <2> QED BY <1>16, <2>1
<1> QED BY <1>9, <1>13, <1>17, <1>18, <1>19, <1>20 DEF stvw, stv, st

(* The bytes of an antenna frame.                                           *)
HasBytes(frame, second, third, steps) ==
  /\ frame \in Seq(Octet) /\ Len(frame) = 12
  /\ frame[1] = SYN /\ frame[2] = second /\ frame[3] = third /\ frame[12] = CR
  /\ \A j \in 4 .. 7 : frame[j] = Hexadecimal(Unsigned(steps[1]))[j - 3]
  /\ \A j \in 8 .. 11 : frame[j] = Hexadecimal(Unsigned(steps[2]))[j - 7]

LEMMA MessageBytes ==
  ASSUME NEW puissance, Ascii(puissance) \in Octet,
         NEW mode, CHAR_ZERO + mode \in Octet, NEW steps,
         Word(Unsigned(steps[1])), Word(Unsigned(steps[2]))
  PROVE  HasBytes(computeAntennaMessage(puissance, mode, steps),
                  Ascii(puissance), CHAR_ZERO + mode, steps)
<1> DEFINE s == <<SYN, Ascii(puissance), CHAR_ZERO + mode>>
<1> DEFINE t == Hexadecimal(Unsigned(steps[1]))
<1> DEFINE v == Hexadecimal(Unsigned(steps[2]))
<1> DEFINE w == <<CR>>
<1> DEFINE frame == s \o t \o v \o w
<1>1. computeAntennaMessage(puissance, mode, steps) = frame
  BY DEF computeAntennaMessage
<1>2. /\ Len(s) = 3
      /\ s[1] = SYN /\ s[2] = Ascii(puissance) /\ s[3] = CHAR_ZERO + mode
  OBVIOUS
<1>3. s \in Seq(Octet)
  <2>1. SYN \in Octet
    BY DEF Octet, SYN
  <2> QED BY <2>1
<1>4. t \in Seq(Octet) /\ v \in Seq(Octet)
  BY HexadecimalDigits
<1>5. Len(t) = 4 /\ Len(v) = 4
  BY HexadecimalDigits
<1>6. w \in Seq(Octet)
  <2>1. CR \in Octet
    BY DEF Octet, CR
  <2> QED BY <2>1
<1>7. Len(w) = 1 /\ w[1] = CR
  OBVIOUS
<1> HIDE DEF s, t, v, w
<1>8. frame \in Seq(Octet)
  BY <1>3, <1>4, <1>6, FourParts, SMT
<1>9. Len(frame) = Len(s) + Len(t) + Len(v) + Len(w)
  BY <1>3, <1>4, <1>6, FourParts, SMT
<1>10. \A i \in 1 .. Len(s) : frame[i] = s[i]
  BY <1>3, <1>4, <1>6, FourParts, SMT
<1>11. \A j \in Len(s) + 1 .. Len(s) + Len(t) : frame[j] = t[j - Len(s)]
  BY <1>3, <1>4, <1>6, FourParts, SMT
<1>12. \A j \in Len(s) + Len(t) + 1 .. Len(s) + Len(t) + Len(v) :
         frame[j] = v[j - (Len(s) + Len(t))]
  BY <1>3, <1>4, <1>6, FourParts, SMT
<1>13. \A j \in Len(s) + Len(t) + Len(v) + 1 .. Len(s) + Len(t) + Len(v) + Len(w) :
         frame[j] = w[j - (Len(s) + Len(t) + Len(v))]
  BY <1>3, <1>4, <1>6, FourParts, SMT
<1> HIDE DEF frame
<1>14. frame[1] = s[1] /\ frame[2] = s[2] /\ frame[3] = s[3]
  BY <1>2, <1>10
<1>15. \A j \in 4 .. 7 : frame[j] = t[j - 3]
  BY <1>2, <1>5, <1>11
<1>16. \A j \in 8 .. 11 : frame[j] = v[j - 7]
  BY <1>2, <1>5, <1>12
<1>17. frame[12] = w[1]
  <2>1. \A j \in 12 .. 12 : frame[j] = w[j - 11]
    BY <1>2, <1>5, <1>7, <1>13
  <2>2. 12 \in 12 .. 12 /\ 12 - 11 = 1
    OBVIOUS
  <2> QED BY <2>1, <2>2
<1>18. Len(frame) = 12
  BY <1>2, <1>5, <1>7, <1>9
<1> QED
  BY <1>1, <1>2, <1>7, <1>8, <1>14, <1>15, <1>16, <1>17, <1>18 DEF HasBytes, t, v

LEMMA TwelveOctets ==
  ASSUME NEW frame \in Seq(Octet)
  PROVE  Len(frame) = 12 => \A k \in 1 .. 12 : frame[k] \in Octet
BY ElementOfSeq

(* What the antenna reads of the four digits that begin after a byte.       *)
LEMMA DigitsRead ==
  ASSUME NEW frame, \A k \in 1 .. 12 : frame[k] \in Octet,
         NEW before \in {3, 7}, NEW word, Word(word),
         \A j \in before + 1 .. before + 4 : frame[j] = Hexadecimal(word)[j - before]
  PROVE  StepsRead(SubSeq(frame, before + 1, before + 4)) = Signed(word)
<1> DEFINE chars == SubSeq(frame, before + 1, before + 4)
<1> DEFINE hex == Hexadecimal(word)
<1>1. \A i \in 1 .. 4 : chars[i] = frame[before + i]
  <2>1. /\ before + 1 \in Int /\ before + 4 \in Int
        /\ (before + 4) - (before + 1) + 1 = 4
    OBVIOUS
  <2>2. \A j \in before + 1 .. before + 4 : frame[j] \in Octet
    <3> TAKE j \in before + 1 .. before + 4
    <3>1. j \in 1 .. 12
      OBVIOUS
    <3> QED BY <3>1
  <2>3. \A i \in 1 .. (before + 4) - (before + 1) + 1 : chars[i] = frame[(before + 1) + i - 1]
    BY <2>1, <2>2, SubSeqProperties
  <2> TAKE i \in 1 .. 4
  <2>4. (before + 1) + i - 1 = before + i
    OBVIOUS
  <2> HIDE DEF chars
  <2> QED BY <2>1, <2>3, <2>4
<1>2. /\ chars[1] = hex[1] /\ chars[2] = hex[2]
      /\ chars[3] = hex[3] /\ chars[4] = hex[4]
  <2> HIDE DEF chars, hex
  <2>1. \A i \in 1 .. 4 : chars[i] = hex[i]
    <3> TAKE i \in 1 .. 4
    <3>1. before + i \in before + 1 .. before + 4 /\ (before + i) - before = i
      OBVIOUS
    <3>2. frame[before + i] = Hexadecimal(word)[(before + i) - before]
      BY <3>1
    <3> QED BY <1>1, <3>1, <3>2 DEF hex
  <2> QED BY <2>1
<1>3. ValueOf(hex) = word
  BY HexadecimalDigits
<1> HIDE DEF chars, hex
<1>4. StepsRead(chars) = Signed(word)
  BY <1>2, <1>3 DEF StepsRead, ValueOf
<1> QED BY <1>4 DEF chars

(* The steps of a direction that the antenna can point at, or none.         *)
Reachable(x, y, el) == el \in 11 .. 89 /\ -28235 <= x /\ x <= 28235 /\ y <= 31435

LEMMA StepsCommanded ==
  ASSUME NEW x \in Int, NEW y \in Nat, NEW behind \in BOOLEAN, NEW el \in Int
  PROVE  /\ Reachable(x, y, el) =>
              computeXYencoderFromAzEl(x, y, behind, el) = <<x, (IF behind THEN -1 ELSE 1) * y>>
         /\ ~Reachable(x, y, el) =>
              computeXYencoderFromAzEl(x, y, behind, el) = <<0, 0>>
<1> DEFINE Y == IF behind THEN -y ELSE y
<1>1. Y \in Int /\ Y = (IF behind THEN -1 ELSE 1) * y
  BY (-1) * y = -y, 1 * y = y
<1>2. checkElevation(el) <=> el \in 11 .. 89
  BY DEF checkElevation, MIN_EL_ANGLE, MAX_EL_ANGLE
<1>3. ~(x > 28235 \/ x < -28235 \/ Y > 31435 \/ Y < -31435)
        <=> -28235 <= x /\ x <= 28235 /\ y <= 31435
  OBVIOUS
<1>4. Beyond(x, Y) <=> x > 28235 \/ x < -28235 \/ Y > 31435 \/ Y < -31435
  <2> HIDE DEF Y
  <2> QED BY DEF Beyond, MAX_ENCODER_X, MAX_ENCODER_Y
<1>5. computeXYencoderFromAzEl(x, y, behind, el) =
        IF ~checkElevation(el) \/ Beyond(x, Y) THEN <<0, 0>> ELSE <<x, Y>>
  BY DEF computeXYencoderFromAzEl
<1> HIDE DEF Y
<1>6. Reachable(x, y, el) <=> checkElevation(el) /\ ~Beyond(x, Y)
  BY <1>2, <1>3, <1>4 DEF Reachable
<1>7. ASSUME Reachable(x, y, el)
      PROVE  computeXYencoderFromAzEl(x, y, behind, el) = <<x, Y>>
  BY <1>5, <1>6, <1>7
<1>8. ASSUME ~Reachable(x, y, el)
      PROVE  computeXYencoderFromAzEl(x, y, behind, el) = <<0, 0>>
  BY <1>5, <1>6, <1>8
<1> QED BY <1>1, <1>7, <1>8

(* Every direction, in every frame of a trajectory or of AskGoTo.           *)
LEMMA PointCommands ==
  ASSUME NEW mode \in {MODE_ANTENNA_EPHEM, MODE_ANTENNA_POSITION},
         NEW x, Steps(x), NEW y, Upright(y), NEW behind \in BOOLEAN, NEW el \in Int
  PROVE  Commands(mode, x, y, behind, el)
<1> DEFINE command == computeXYencoderFromAzEl(x, y, behind, el)
<1> DEFINE frame == computeAntennaMessage(PUISSANCE_ACTIVATE, mode, command)
<1> DEFINE back == IF behind THEN -1 ELSE 1
<1>1. /\ Reachable(x, y, el) => command = <<x, back * y>>
      /\ ~Reachable(x, y, el) => command = <<0, 0>>
  BY StepsCommanded DEF Steps, Upright
<1>2. Steps(back * y)
  BY (-1) * y = -y, 1 * y = y DEF Steps, Upright
<1> HIDE DEF command, back
<1>3. Steps(command[1]) /\ Steps(command[2]) /\ command = <<command[1], command[2]>>
  <2>1. CASE Reachable(x, y, el)
    BY <1>1, <1>2, <2>1
  <2>2. CASE ~Reachable(x, y, el)
    BY <1>1, <2>2 DEF Steps
  <2> QED BY <2>1, <2>2
<1>4. /\ Word(Unsigned(command[1])) /\ Signed(Unsigned(command[1])) = command[1]
      /\ Word(Unsigned(command[2])) /\ Signed(Unsigned(command[2])) = command[2]
  BY <1>3, SignedUnsigned
<1>5. /\ Ascii(PUISSANCE_ACTIVATE) \in Digits
      /\ Ascii(PUISSANCE_ACTIVATE) \in Octet
      /\ CHAR_ZERO + mode = 50 \/ CHAR_ZERO + mode = 54
      /\ CHAR_ZERO + mode \in Octet
  <2>1. PUISSANCE_ACTIVATE \in 0 .. 15
    BY DEF PUISSANCE_ACTIVATE
  <2>2. Ascii(PUISSANCE_ACTIVATE) \in Digits
    BY <2>1, AsciiDigits
  <2>3. CHAR_ZERO + mode = 50 \/ CHAR_ZERO + mode = 54
    BY DEF CHAR_ZERO, MODE_ANTENNA_EPHEM, MODE_ANTENNA_POSITION
  <2>4. Ascii(PUISSANCE_ACTIVATE) \in Octet /\ CHAR_ZERO + mode \in Octet
    BY <2>2, <2>3 DEF Octet, Digits
  <2> QED BY <2>2, <2>3, <2>4
<1>6. /\ frame \in Seq(Octet) /\ Len(frame) = 12
      /\ frame[1] = SYN /\ frame[2] = Ascii(PUISSANCE_ACTIVATE)
      /\ frame[3] = CHAR_ZERO + mode /\ frame[12] = CR
      /\ \A j \in 4 .. 7 : frame[j] = Hexadecimal(Unsigned(command[1]))[j - 3]
      /\ \A j \in 8 .. 11 : frame[j] = Hexadecimal(Unsigned(command[2]))[j - 7]
  <2>1. HasBytes(frame, Ascii(PUISSANCE_ACTIVATE), CHAR_ZERO + mode, command)
    BY <1>4, <1>5, MessageBytes, Zenon
  <2> QED BY <2>1, Zenon DEF HasBytes
<1> HIDE DEF frame
<1>7. \A k \in 1 .. 12 : frame[k] \in Octet
  <2>1. frame \in Seq(Octet) /\ Len(frame) = 12
    BY <1>6
  <2> QED BY <2>1, TwelveOctets
<1>8. /\ StepsRead(SubSeq(frame, 3 + 1, 3 + 4)) = command[1]
      /\ StepsRead(SubSeq(frame, 7 + 1, 7 + 4)) = command[2]
  <2>1. \A word :
          /\ Word(word)
          /\ \A j \in 3 + 1 .. 3 + 4 : frame[j] = Hexadecimal(word)[j - 3]
          => StepsRead(SubSeq(frame, 3 + 1, 3 + 4)) = Signed(word)
    BY <1>7, DigitsRead, 3 \in {3, 7}
  <2>2. \A word :
          /\ Word(word)
          /\ \A j \in 7 + 1 .. 7 + 4 : frame[j] = Hexadecimal(word)[j - 7]
          => StepsRead(SubSeq(frame, 7 + 1, 7 + 4)) = Signed(word)
    BY <1>7, DigitsRead, 7 \in {3, 7}
  <2> QED BY <1>4, <1>6, <2>1, <2>2
<1>9. /\ StepsRead(SubSeq(frame, 4, 7)) = command[1]
      /\ StepsRead(SubSeq(frame, 8, 11)) = command[2]
  BY <1>8
<1>10. \A i \in 2 .. 11 : frame[i] \in Digits
  <2> TAKE i \in 2 .. 11
  <2>1. ASSUME NEW word, Word(word)
        PROVE  \A k \in 1 .. 4 : Hexadecimal(word)[k] \in Digits
    BY <2>1, HexadecimalDigits, Zenon
  <2>2. CASE i = 2
    BY <1>5, <1>6, <2>2
  <2>3. CASE i = 3
    <3>1. frame[3] = 50 \/ frame[3] = 54
      BY <1>5, <1>6
    <3> QED BY <2>3, <3>1 DEF Digits
  <2>4. CASE i \in 4 .. 7
    <3>1. i - 3 \in 1 .. 4
      BY <2>4
    <3>2. frame[i] = Hexadecimal(Unsigned(command[1]))[i - 3]
      BY <1>6, <2>4
    <3>3. \A k \in 1 .. 4 : Hexadecimal(Unsigned(command[1]))[k] \in Digits
      BY <1>4, <2>1
    <3> QED BY <3>1, <3>2, <3>3
  <2>5. CASE i \in 8 .. 11
    <3>1. i - 7 \in 1 .. 4
      BY <2>5
    <3>2. frame[i] = Hexadecimal(Unsigned(command[2]))[i - 7]
      BY <1>6, <2>5
    <3>3. \A k \in 1 .. 4 : Hexadecimal(Unsigned(command[2]))[k] \in Digits
      BY <1>4, <2>1
    <3> QED BY <3>1, <3>2, <3>3
  <2> QED BY <2>2, <2>3, <2>4, <2>5
<1>11. frame \notin {DESACTIVATE, SURVIE, REINI, CALLAGE}
  <2>1. frame[3] = 50 \/ frame[3] = 54
    BY <1>5, <1>6
  <2>2. DESACTIVATE[3] = 48 /\ SURVIE[3] = 52 /\ REINI[3] = 48 /\ CALLAGE[3] = 49
    BY DEF DESACTIVATE, SURVIE, REINI, CALLAGE
  <2> QED BY <2>1, <2>2
<1>12. Len(SURVIE) = 12
  BY DEF SURVIE, DESACTIVATE
<1>13. <<StepsRead(SubSeq(frame, 4, 7)), StepsRead(SubSeq(frame, 8, 11))>> =
         IF el \in 11 .. 89 /\ -28235 <= x /\ x <= 28235 /\ y <= 31435
           THEN <<x, back * y>> ELSE <<0, 0>>
  <2>1. <<StepsRead(SubSeq(frame, 4, 7)), StepsRead(SubSeq(frame, 8, 11))>> = command
    BY <1>3, <1>9
  <2>2. CASE Reachable(x, y, el)
    BY <1>1, <2>1, <2>2 DEF Reachable
  <2>3. CASE ~Reachable(x, y, el)
    BY <1>1, <2>1, <2>3 DEF Reachable
  <2> QED BY <2>2, <2>3
<1>14. frame = Point(mode, x, y, behind, el)
  BY DEF frame, command, Point
<1> QED
  BY <1>6, <1>10, <1>11, <1>12, <1>13, <1>14 DEF Commands, Digits, back

(* The frames that have a name.                                             *)
Still(puissance, mode) == computeAntennaMessage(puissance, mode, <<0, 0>>)

LEMMA HexadecimalZero == \A i \in 1 .. 4 : Hexadecimal(0)[i] = 48
<1> DEFINE hex == Hexadecimal(0)
<1>1. hex = [i \in 1 .. 4 |-> Ascii((0 \div 16^(4 - i)) % 16)]
  BY DEF Hexadecimal
<1>2. Ascii(0) = 48
  BY DEF Ascii, CHAR_ZERO, CHAR_A_OFFSET
<1>3. 4 - 1 = 3 /\ 4 - 2 = 2 /\ 4 - 3 = 1 /\ 4 - 4 = 0
  OBVIOUS
<1>4. /\ hex[1] = Ascii((0 \div 16^3) % 16) /\ hex[2] = Ascii((0 \div 16^2) % 16)
      /\ hex[3] = Ascii((0 \div 16^1) % 16) /\ hex[4] = Ascii((0 \div 16^0) % 16)
  BY <1>1, <1>3
<1>5. /\ (0 \div 4096) % 16 = 0 /\ (0 \div 256) % 16 = 0
      /\ (0 \div 16) % 16 = 0 /\ (0 \div 1) % 16 = 0
  OBVIOUS
<1>6. hex[1] = 48 /\ hex[2] = 48 /\ hex[3] = 48 /\ hex[4] = 48
  BY <1>2, <1>4, <1>5, PowersOf16
<1> HIDE DEF hex
<1>7. \A i \in 1 .. 4 : hex[i] = 48
  <2> TAKE i \in 1 .. 4
  <2>1. i = 1 \/ i = 2 \/ i = 3 \/ i = 4
    OBVIOUS
  <2> QED BY <1>6, <2>1
<1> QED BY <1>7 DEF hex

StillHas(frame, second, third) ==
  /\ frame \in Seq(Octet) /\ Len(frame) = 12
  /\ frame[1] = 22 /\ frame[2] = second /\ frame[3] = third /\ frame[12] = 13
  /\ \A j \in 4 .. 11 : frame[j] = 48

LEMMA StillBytes ==
  ASSUME NEW puissance \in {0, 8, 12}, NEW mode \in {0, 1, 4}
  PROVE  StillHas(Still(puissance, mode), Ascii(puissance), 48 + mode)
<1> DEFINE steps == <<0, 0>>
<1> DEFINE frame == computeAntennaMessage(puissance, mode, steps)
<1>1. Unsigned(0) = 0
  BY DEF Unsigned
<1>2. steps[1] = 0 /\ steps[2] = 0
  OBVIOUS
<1>3. Ascii(puissance) \in Octet
  BY DEF Octet, Ascii, CHAR_ZERO, CHAR_A_OFFSET
<1>4. CHAR_ZERO + mode = 48 + mode /\ CHAR_ZERO + mode \in Octet
  BY DEF CHAR_ZERO, Octet
<1> HIDE DEF steps
<1>5. Word(Unsigned(steps[1])) /\ Word(Unsigned(steps[2]))
  BY <1>1, <1>2 DEF Word
<1>6. HasBytes(frame, Ascii(puissance), CHAR_ZERO + mode, steps)
  BY <1>3, <1>4, <1>5, MessageBytes, Zenon
<1>7. Still(puissance, mode) = frame
  BY DEF Still, steps
<1> HIDE DEF frame
<1>8. \A j \in 4 .. 7 : frame[j] = 48
  <2>1. \A j \in 4 .. 7 : frame[j] = Hexadecimal(0)[j - 3]
    BY <1>1, <1>2, <1>6 DEF HasBytes
  <2> QED BY <2>1, HexadecimalZero
<1>9. \A j \in 8 .. 11 : frame[j] = 48
  <2>1. \A j \in 8 .. 11 : frame[j] = Hexadecimal(0)[j - 7]
    BY <1>1, <1>2, <1>6 DEF HasBytes
  <2> QED BY <2>1, HexadecimalZero
<1>10. \A j \in 4 .. 11 : frame[j] = 48
  BY <1>8, <1>9
<1>11. /\ frame \in Seq(Octet) /\ Len(frame) = 12
       /\ frame[1] = 22 /\ frame[2] = Ascii(puissance)
       /\ frame[3] = 48 + mode /\ frame[12] = 13
  BY <1>4, <1>6 DEF HasBytes, SYN, CR
<1> QED BY <1>7, <1>10, <1>11, Zenon DEF StillHas

(* Two frames that command no steps are the same when their first three    *)
(* bytes and their last are.                                                *)
LEMMA SameFrame ==
  ASSUME NEW s, NEW t, NEW second, NEW third,
         StillHas(s, second, third), StillHas(t, second, third)
  PROVE  s = t
<1>1. s \in Seq(Octet) /\ t \in Seq(Octet) /\ Len(s) = Len(t)
  BY DEF StillHas
<1>2. \A j \in 1 .. Len(s) : s[j] = t[j]
  <2> TAKE j \in 1 .. Len(s)
  <2>1. j = 1 \/ j = 2 \/ j = 3 \/ j = 12 \/ j \in 4 .. 11
    BY DEF StillHas
  <2> QED BY <2>1 DEF StillHas
<1> QED BY <1>1, <1>2, SeqEqual

(* The frames with a name, as the strings of the header.                    *)
LEMMA NamedBytes ==
  ASSUME NEW second \in {48, 56}, NEW third \in {48, 49, 52}
  PROVE  StillHas(<<SYN, second, third, 48, 48, 48, 48, 48, 48, 48, 48, CR>>, second, third)
<1> DEFINE named == <<SYN, second, third, 48, 48, 48, 48, 48, 48, 48, 48, CR>>
<1>1. 22 \in Octet /\ 48 \in Octet /\ 13 \in Octet /\ second \in Octet /\ third \in Octet
  BY DEF Octet
<1>2. named \in Seq(Octet) /\ Len(named) = 12
  BY <1>1 DEF SYN, CR
<1>3. named[1] = 22 /\ named[2] = second /\ named[3] = third /\ named[12] = 13
  BY DEF SYN, CR
<1>4. /\ named[4] = 48 /\ named[5] = 48 /\ named[6] = 48 /\ named[7] = 48
      /\ named[8] = 48 /\ named[9] = 48 /\ named[10] = 48 /\ named[11] = 48
  OBVIOUS
<1> HIDE DEF named
<1>5. \A j \in 4 .. 11 : named[j] = 48
  <2> TAKE j \in 4 .. 11
  <2>1. j = 4 \/ j = 5 \/ j = 6 \/ j = 7 \/ j = 8 \/ j = 9 \/ j = 10 \/ j = 11
    OBVIOUS
  <2> QED BY <1>4, <2>1
<1>6. StillHas(named, second, third)
  BY <1>2, <1>3, <1>5 DEF StillHas
<1> QED BY <1>6 DEF named

LEMMA NamedIsStill ==
  ASSUME NEW puissance \in {0, 8}, NEW mode \in {0, 1, 4}
  PROVE  Still(puissance, mode) =
           <<SYN, 48 + puissance, 48 + mode, 48, 48, 48, 48, 48, 48, 48, 48, CR>>
<1>1. Ascii(puissance) = 48 + puissance /\ puissance \in {0, 8, 12}
  BY DEF Ascii, CHAR_ZERO, CHAR_A_OFFSET
<1>2. StillHas(Still(puissance, mode), 48 + puissance, 48 + mode)
  BY <1>1, StillBytes
<1>3. 48 + puissance \in {48, 56} /\ 48 + mode \in {48, 49, 52}
  OBVIOUS
<1> DEFINE named == <<SYN, 48 + puissance, 48 + mode, 48, 48, 48, 48, 48, 48, 48, 48, CR>>
<1>4. StillHas(named, 48 + puissance, 48 + mode)
  BY <1>3, NamedBytes
<1> HIDE DEF named
<1>5. Still(puissance, mode) = named
  BY <1>2, <1>4, SameFrame
<1> QED BY <1>5 DEF named

LEMMA NamedFrames ==
  /\ SURVIE = Still(PUISSANCE_ACTIVATE, MODE_ANTENNA_SURVIE)
  /\ CALLAGE = Still(PUISSANCE_ACTIVATE, MODE_ANTENNA_CALAGE)
  /\ REINI = Still(PUISSANCE_ACTIVATE, MODE_ANTENNA_STANDBY)
  /\ DESACTIVATE = Still(PUISSANCE_DESACTIVATE, MODE_ANTENNA_STANDBY)
  /\ Still(PUISSANCE_ACTIVATE + PUISSANCE_STATUS, MODE_ANTENNA_STANDBY)
       \notin {SURVIE, CALLAGE, REINI, DESACTIVATE}
<1>1. SURVIE = Still(8, 4)
  <2>1. SURVIE = <<SYN, 48 + 8, 48 + 4, 48, 48, 48, 48, 48, 48, 48, 48, CR>>
    BY DEF SURVIE, DESACTIVATE
  <2> QED BY <2>1, NamedIsStill
<1>2. CALLAGE = Still(8, 1)
  <2>1. CALLAGE = <<SYN, 48 + 8, 48 + 1, 48, 48, 48, 48, 48, 48, 48, 48, CR>>
    BY DEF CALLAGE, DESACTIVATE
  <2> QED BY <2>1, NamedIsStill
<1>3. REINI = Still(8, 0)
  <2>1. REINI = <<SYN, 48 + 8, 48 + 0, 48, 48, 48, 48, 48, 48, 48, 48, CR>>
    BY DEF REINI, DESACTIVATE
  <2> QED BY <2>1, NamedIsStill
<1>4. DESACTIVATE = Still(0, 0)
  <2>1. DESACTIVATE = <<SYN, 48 + 0, 48 + 0, 48, 48, 48, 48, 48, 48, 48, 48, CR>>
    BY DEF DESACTIVATE
  <2> QED BY <2>1, NamedIsStill
<1>5. Still(12, 0) \notin {SURVIE, CALLAGE, REINI, DESACTIVATE}
  <2>1. Still(12, 0)[2] = 67
    <3>1. Ascii(12) = 67
      BY DEF Ascii, CHAR_ZERO, CHAR_A_OFFSET
    <3>2. StillHas(Still(12, 0), Ascii(12), 48 + 0)
      BY StillBytes
    <3> QED BY <3>1, <3>2 DEF StillHas
  <2>2. SURVIE[2] = 56 /\ CALLAGE[2] = 56 /\ REINI[2] = 56 /\ DESACTIVATE[2] = 48
    BY DEF SURVIE, CALLAGE, REINI, DESACTIVATE
  <2> QED BY <2>1, <2>2
<1> QED
  BY <1>1, <1>2, <1>3, <1>4, <1>5
  DEF PUISSANCE_ACTIVATE, PUISSANCE_DESACTIVATE, PUISSANCE_STATUS, MODE_ANTENNA_SURVIE,
      MODE_ANTENNA_CALAGE, MODE_ANTENNA_STANDBY

(* The values of an int16_t, and those that are not negative.               *)
LEMMA WordSteps ==
  ASSUME NEW x \in -2^15 .. 2^15 - 1
  PROVE  Steps(x)
<1> DEFINE least == -2^15
<1> DEFINE most == 2^15 - 1
<1>1. least = -32768 /\ most = 32767
  OBVIOUS
<1>2. least \in Int /\ most \in Int
  OBVIOUS
<1>3. x \in least .. most
  OBVIOUS
<1> HIDE DEF least, most
<1>4. x \in Int /\ least <= x /\ x <= most
  BY <1>2, <1>3, Interval
<1> QED BY <1>1, <1>4 DEF Steps

LEMMA UprightSteps ==
  ASSUME NEW y \in 0 .. 2^15 - 1
  PROVE  Upright(y)
<1> DEFINE most == 2^15 - 1
<1>1. most = 32767
  OBVIOUS
<1>2. most \in Int /\ 0 \in Int
  OBVIOUS
<1>3. y \in 0 .. most
  OBVIOUS
<1> HIDE DEF most
<1>4. y \in Int /\ 0 <= y /\ y <= most
  BY <1>2, <1>3, Interval, Zenon
<1> QED BY <1>1, <1>4 DEF Upright

(* The frames of a trajectory and of AskGoTo command the steps of their     *)
(* direction, for every step of both axes that the int16_t of the code may  *)
(* hold, at every elevation, and are no frame that the firmware knows by    *)
(* name (TrameAntennaConstructor): the run takes the axes one at a time.    *)
THEOREM FramesCommand ==
  /\ \A mode \in {MODE_ANTENNA_EPHEM, MODE_ANTENNA_POSITION} :
       \A x \in -2^15 .. 2^15 - 1 : \A y \in 0 .. 2^15 - 1 :
         \A behind \in BOOLEAN : \A el \in Int : Commands(mode, x, y, behind, el)
  /\ Spec => []PointsAreCommands
<1>1. \A mode \in {MODE_ANTENNA_EPHEM, MODE_ANTENNA_POSITION} :
        \A x \in -2^15 .. 2^15 - 1 : \A y \in 0 .. 2^15 - 1 :
          \A behind \in BOOLEAN : \A el \in Int : Commands(mode, x, y, behind, el)
  <2> TAKE mode \in {MODE_ANTENNA_EPHEM, MODE_ANTENNA_POSITION}
  <2> TAKE x \in -2^15 .. 2^15 - 1, y \in 0 .. 2^15 - 1
  <2> TAKE behind \in BOOLEAN
  <2> TAKE el \in Int
  <2>1. Steps(x)
    BY WordSteps, Zenon
  <2>2. Upright(y)
    BY UprightSteps, Zenon
  <2> QED BY <2>1, <2>2, PointCommands
<1>2. 7 \in -2^15 .. 2^15 - 1 /\ 7 \in 0 .. 2^15 - 1
  OBVIOUS
<1>3. \A x \in -2^15 .. 2^15 - 1 : Commands(MODE_ANTENNA_EPHEM, x, 7, x % 2 = 0, 45)
  <2> TAKE x \in -2^15 .. 2^15 - 1
  <2>1. (x % 2 = 0) \in BOOLEAN /\ 45 \in Int
    OBVIOUS
  <2> QED BY <1>1, <1>2, <2>1, Zenon
<1>4. \A y \in 0 .. 2^15 - 1 : \A behind \in BOOLEAN :
        Commands(MODE_ANTENNA_POSITION, 7, y, behind, 45)
  <2>1. 45 \in Int
    OBVIOUS
  <2> QED BY <1>1, <1>2, <2>1, Zenon
<1>5. \A el \in -10 .. 100 : Commands(MODE_ANTENNA_EPHEM, 7, 7, FALSE, el)
  <2> TAKE el \in -10 .. 100
  <2>1. el \in Int /\ FALSE \in BOOLEAN
    OBVIOUS
  <2> QED BY <1>1, <1>2, <2>1, Zenon
<1>6. PointsCommand
  BY <1>3, <1>4, <1>5, NamedFrames, Zenon DEF PointsCommand, Still
<1>7. PointsAreCommands
  BY <1>6 DEF PointsAreCommands
<1>8. Spec => []PointsAreCommands
  BY <1>7, PTL
<1> QED BY <1>1, <1>8
=============================================================================
