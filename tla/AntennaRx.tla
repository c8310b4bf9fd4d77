----------------------------- MODULE AntennaRx -----------------------------
(***************************************************************************)
(* The antenna receiver thread (antennaRxThread, readAntennaMessage) byte  *)
(* by byte, and the way of its logs to the PC.  It runs once the firmware  *)
(* has started.                                                            *)
(*                                                                         *)
(* A step is the time of a byte on the line of the antenna, during which   *)
(* the faster line of the PC takes DRAIN bytes; or a silence as long as    *)
(* ANTENNA_READ_TIMEOUT.  The logs wait for that line first in the queue   *)
(* of the serial driver and, when it is full, in the objects of Fifo_log.  *)
(* An answer begins with HEADER_ANTENNA, which none of its other bytes is. *)
(* Noise is a burst in which every byte is changed, lost or added.  Until  *)
(* the PC has received every log, which takes less than 70 ms, there are   *)
(* at most one burst of MaxNoise bytes, MaxAnswers answers and MaxOthers   *)
(* logs of the other threads.                                              *)
(***************************************************************************)
EXTENDS Startup, Integers

CONSTANTS ANTENNA_MESSAGE_LENGTH,  \* 12
          LOG_LENGTH,              \* bytes of a log on the line of the PC (23)
          SERIAL_BUFFERS_SIZE,     \* 320
          FIFO_BUFFER_SIZE,        \* 20
          DRAIN,                   \* 115200 / 19200
          TIMEOUT_BYTES,           \* ANTENNA_READ_TIMEOUT in bytes (48)
          MaxNoise,                \* bound: bytes of a burst of noise
          MaxAnswers,              \* bound: answers, one for each frame of a cycle
          MaxOthers                \* bound: logs of the other threads

VARIABLES length,    \* bytes in new_log's message, 0 when a header is awaited
          genuine,   \* they are the first bytes of one answer, none missing
          sent,      \* bytes of its answer the antenna has sent
          backlog,   \* bytes of logs not yet on the line of the PC
          noise,     \* bytes of the burst since the backlog was empty, MaxNoise
                     \* when it is over
          answers,   \* answers begun since then
          others,    \* logs of the other threads since then
          quiet,     \* no noise since the last silence
          overrun,   \* a log has found no free object
          missed     \* an answer without noise was not logged as it was sent

lineVars == <<backlog, noise, answers, others, quiet, overrun>>
rxVars == <<length, genuine, sent, missed>>
receptionVars == <<startupVars, rxVars, lineVars>>

ASSUME ReceptionAssumption ==
  /\ {ANTENNA_MESSAGE_LENGTH, LOG_LENGTH, SERIAL_BUFFERS_SIZE, FIFO_BUFFER_SIZE,
      DRAIN, TIMEOUT_BYTES} \subseteq Nat \ {0}
  /\ {MaxNoise, MaxAnswers, MaxOthers} \subseteq Nat

ReceptionInit ==
  /\ Init
  /\ length = 0 /\ genuine = TRUE /\ sent = 0
  /\ backlog = 0 /\ noise = 0 /\ answers = 0 /\ others = 0
  /\ quiet = TRUE /\ overrun = FALSE /\ missed = FALSE

Started == mainPc > Len(Program) /\ \A t \in Threads : threadPc[t] = "runs"
Listening == Started /\ ~overrun

\* Faulty variant: an object is returned once its bytes have left the queue.
OccupiedUntilSent == (backlog + LOG_LENGTH - 1) \div LOG_LENGTH

\* Objects of Fifo_log posted, or held by pcTxThread, which writes into the
\* queue of the driver and returns the object when the last byte is in it
Occupied ==
  IF backlog <= SERIAL_BUFFERS_SIZE THEN 0
  ELSE (backlog - SERIAL_BUFFERS_SIZE + LOG_LENGTH - 1) \div LOG_LENGTH

\* writeLogToFifo, or nothing, and "bytes" bytes leave for the PC
LogsAndDrains(logs, bytes) ==
  LET left == backlog + logs * LOG_LENGTH - bytes
  IN  /\ backlog' = IF left > 0 THEN left ELSE 0
      /\ overrun' = (logs > 0 /\ Occupied >= FIFO_BUFFER_SIZE)

\* The bounds begin again when the PC has received every log.
Count(isNoise, isAnswer) ==
  IF backlog' = 0
  THEN noise' = 0 /\ others' = 0 /\ answers' = IF sent' = 0 THEN 0 ELSE 1
  ELSE /\ noise' = IF isNoise THEN noise + 1 ELSE IF noise > 0 THEN MaxNoise ELSE 0
       /\ answers' = IF isAnswer THEN answers + 1 ELSE answers
       /\ UNCHANGED others

-----------------------------------------------------------------------------
(* readAntennaMessage gets one byte, which is a header or not, and the next *)
(* of an answer or not: a byte that cannot begin an answer is reported      *)
(* (antennaRxThread); the twelfth byte makes an answer, whatever it is.     *)
Whole == length + 1 = ANTENNA_MESSAGE_LENGTH

readsByte(isHeader, isNext) ==
  /\ length' = IF Whole \/ (length = 0 /\ ~isHeader) THEN 0 ELSE length + 1
  /\ genuine' = IF length' = 0 THEN TRUE ELSE genuine /\ isNext
  /\ LogsAndDrains(IF Whole \/ (length = 0 /\ ~isHeader) THEN 1 ELSE 0, DRAIN)

\* The antenna sends the next byte of its answer to a frame.
Answers ==
  /\ Listening
  /\ sent = 0 => answers < MaxAnswers
  /\ sent' = (sent + 1) % ANTENNA_MESSAGE_LENGTH

(* It arrives.                                                              *)
AnswerByte ==
  /\ Answers
  /\ readsByte(sent = 0, length = sent)
  /\ missed' = (missed \/ (sent' = 0 /\ quiet /\ ~(Whole /\ genuine /\ length = sent)))
  /\ UNCHANGED <<quiet, startupVars>>
  /\ Count(FALSE, sent = 0)

\* Noise goes on only so long, and is remembered until the next silence.
Noisy == Listening /\ noise < MaxNoise /\ quiet' = FALSE

(* A byte from nowhere, perhaps a header                                    *)
NoiseByte ==
  /\ \E isHeader \in BOOLEAN : readsByte(isHeader, FALSE)
  /\ UNCHANGED <<sent, missed, startupVars>>
  /\ Noisy /\ Count(TRUE, FALSE)

(* A byte of the answer is changed ...                                      *)
AnswerByteChanged ==
  /\ Answers
  /\ \E isHeader \in BOOLEAN : readsByte(isHeader, FALSE)
  /\ UNCHANGED <<missed, startupVars>>
  /\ Noisy /\ Count(TRUE, sent = 0)

(* ... or lost.                                                             *)
AnswerByteLost ==
  /\ Answers
  /\ LogsAndDrains(0, DRAIN)
  /\ UNCHANGED <<length, genuine, missed, startupVars>>
  /\ Noisy /\ Count(TRUE, sent = 0)

\* Faulty variant: the rest of the answer is read without a timeout.
SilenceWithoutTimeout ==
  /\ Listening /\ sent = 0
  /\ LogsAndDrains(0, DRAIN * TIMEOUT_BYTES)
  /\ UNCHANGED <<length, genuine, sent, missed, startupVars>>
  /\ Count(FALSE, FALSE) /\ quiet' = TRUE

(* The antenna says nothing for ANTENNA_READ_TIMEOUT: a header is awaited   *)
(* again, or what was read of an answer is logged as if it were one.        *)
Silence ==
  /\ Listening /\ sent = 0
  /\ LogsAndDrains(IF length > 0 THEN 1 ELSE 0, DRAIN * TIMEOUT_BYTES)
  /\ length' = 0 /\ genuine' = TRUE
  /\ UNCHANGED <<sent, missed, startupVars>>
  /\ Count(FALSE, FALSE) /\ quiet' = TRUE

(* Another thread posts a log.                                              *)
OtherLog ==
  /\ Listening /\ others < MaxOthers
  /\ LogsAndDrains(1, 0)
  /\ others' = others + 1
  /\ UNCHANGED <<rxVars, noise, answers, quiet, startupVars>>

Reception ==
  \/ AnswerByte \/ NoiseByte \/ AnswerByteChanged \/ AnswerByteLost
  \/ Silence \/ OtherLog

ReceptionNext == (Next /\ UNCHANGED <<rxVars, lineVars>>) \/ Reception

ReceptionSpec ==
  ReceptionInit /\ [][ReceptionNext]_receptionVars
    /\ Fairness

-----------------------------------------------------------------------------
(* Fifo_log holds every log (main.c): MaxNoise bytes of noise, each of them *)
(* a log, among the answers of the antenna and the logs of the other        *)
(* threads, are absorbed by the queue of the driver and the objects.        *)
LogsKept == ~overrun

(* An answer that comes after a silence of ANTENNA_READ_TIMEOUT without     *)
(* noise is logged as it was sent, whatever was read before: no header made *)
(* of noise swallows a byte of it.                                          *)
AnswersHeard == ~missed
=============================================================================
