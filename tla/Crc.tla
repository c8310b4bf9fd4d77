-------------------------------- MODULE Crc --------------------------------
(***************************************************************************)
(* The CRC of the payload of a frame (messages.c): eight bits, divided by  *)
(* a table of the remainders of the bytes.                                 *)
(***************************************************************************)
EXTENDS Naturals, SequencesExt, Bitwise

CONSTANT POLYNOMIAL_CRC   \* 0xE1

ASSUME PolynomialAssumption == POLYNOMIAL_CRC \in 0 .. 255

\* Faulty variant: the bit that the shift drops decides after the shift.
DivideBitLate(remainder) ==
  LET shifted == (2 * remainder) % 256
  IN  IF shifted >= 128 THEN shifted ^^ POLYNOMIAL_CRC ELSE shifted

\* One bit of the division in crcInit, on eight bits
DivideBit(remainder) ==
  LET shifted == (2 * remainder) % 256
  IN  IF remainder >= 128 THEN shifted ^^ POLYNOMIAL_CRC ELSE shifted

\* crcInit
crcTable ==
  [dividend \in 0 .. 255 |->
     FoldLeft(LAMBDA remainder, bit : DivideBit(remainder), dividend, <<1, 2, 3, 4, 5, 6, 7, 8>>)]

\* Faulty variant: the previous remainder is forgotten.
computeCRCLastByte(message) ==
  FoldLeft(LAMBDA remainder, byte : crcTable[byte], 0, message)

\* Exclusive or of two bytes, by a table for their halves
XorOfHalves == [left, right \in 0 .. 15 |-> left ^^ right]
XorOfBytes(left, right) ==
  16 * XorOfHalves[left \div 16, right \div 16] + XorOfHalves[left % 16, right % 16]

\* computeCRC: the remainder shifted by eight is nothing on eight bits.
computeCRC(message) ==
  FoldLeft(LAMBDA remainder, byte : crcTable[XorOfBytes(byte, remainder)], 0, message)
=============================================================================
