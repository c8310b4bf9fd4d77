------------------------------- MODULE Frames -------------------------------
(***************************************************************************)
(* The frames of the serial link between the PC and the microcontroller    *)
(* (messages.c): a header, the length of the payload, the payload and the  *)
(* CRC of the payload, as bytes.                                           *)
(***************************************************************************)
EXTENDS Naturals, Sequences

CONSTANT CRC(_)   \* computeCRC of a payload

Octet == 0 .. 255

HEADER_BYTE                == 40
FIRST_ERROR_ID             == 50
ID_MSG_LOG_REEMIT_OFFSET   == 150
MAX_PAYLOAD_MESSAGE_LENGTH == 20
BASE_MESSAGE_LENGTH        == 1
BASE_LOG_LENGTH            == 8
ANTENNA_MESSAGE_LENGTH     == 12

\* The size of the arguments of a message, and the identifiers that have them
ArgumentsLength(id) ==
  CASE id \in {0, 1, 2, 3, 32, 33, 53, 54, 56, 57, 83, 84, 85, 86} -> 0
    [] id = 82 -> 1
    [] id = 30 -> 2
    [] id = 6  -> 7
    [] OTHER   -> ANTENNA_MESSAGE_LENGTH

getPayloadLength(id) ==
  ArgumentsLength(id % ID_MSG_LOG_REEMIT_OFFSET)
    + (IF id >= FIRST_ERROR_ID THEN BASE_LOG_LENGTH ELSE BASE_MESSAGE_LENGTH)

\* encodePayload, as writeMessage calls it
encodePayload(payload) ==
  <<HEADER_BYTE, Len(payload)>> \o payload \o <<CRC(payload)>>
=============================================================================
