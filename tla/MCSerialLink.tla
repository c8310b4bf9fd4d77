---------------------------- MODULE MCSerialLink ----------------------------
(***************************************************************************)
(* Payloads for the run of SerialLink, the frames they carry, and the CRC  *)
(* it uses against the definition of a CRC: the remainder of the division  *)
(* of the message, followed by eight zero bits, by the polynomial          *)
(* x^8 + POLYNOMIAL_CRC, bit by bit.                                       *)
(***************************************************************************)
EXTENDS SerialLink, Crc

Survie    == <<0>>
SetLength == <<30, 2, 0>>
\* A point that a changed length may cut: the CRC of its first five bytes is
\* the sixth, so that five for its length of thirteen deceives the receiver.
NewPoint  == <<31>> \o Point(MODE_ANTENNA_EPHEM, -5500, 42, TRUE, 45)

McPayloads == {Survie, SetLength, NewPoint}

\* The hypotheses under which a disturbance is proved to end
ASSUME LinkHypotheses == HeaderOnlyFirst /\ LostAllowed

Bits(byte) == [i \in 1 .. 8 |-> (byte \div 2^(8 - i)) % 2]

Divided(remainder, bit) ==
  LET next == 2 * remainder + bit
  IN  IF next >= 256 THEN next ^^ (256 + POLYNOMIAL_CRC) ELSE next

Remainder(message) ==
  FoldLeft(Divided, 0, FlattenSeq([i \in DOMAIN message |-> Bits(message[i])]) \o Bits(0))

(* The CRC of messages.c is the one its comment refers to: dividing by the  *)
(* table, a byte at a time, is dividing bit by bit.  It is checked for the  *)
(* first bytes of each buffer that readMessage may have, one of which takes *)
(* every value.                                                             *)
CrcIsRemainder == Len(buf) <= 4 => computeCRC(buf) = Remainder(buf)

=============================================================================
