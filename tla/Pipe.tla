-------------------------------- MODULE Pipe --------------------------------
(***************************************************************************)
(* The named pipe between the programs of the PC (the targeting client,    *)
(* the operator's commands) and the emitter thread of the communication    *)
(* server.  A program opens the pipe, writes WriteLength bytes for each    *)
(* message, of which only the first ReadLength are the message, and closes *)
(* it; the emitter reads ReadLength bytes at a time and ignores a read     *)
(* that returns fewer.  The user may stop the server and start it again.   *)
(*                                                                         *)
(* The pipe is external.  Its ends are opened together; a write of this    *)
(* size is atomic, and kills the program when nobody has the other end; a  *)
(* read returns what there is, up to what is asked for; what is in the     *)
(* pipe is lost when both ends are closed.                                 *)
(***************************************************************************)
EXTENDS Naturals, Sequences

CONSTANTS WriteLength,   \* MAX_SERIAL_MESSAGE_LENGTH (23)
          ReadLength,    \* MAX_PAYLOAD_MESSAGE_LENGTH (20)
          Programs,      \* the programs that write to the pipe
          Together,      \* two programs may write at the same time
          Garbled,       \* what is forwarded when a read crosses messages
          Nothing,       \* the emitter holds no payload
          MaxSent,       \* bound: messages written
          MaxStops       \* bound: stops of the server

VARIABLES server,      \* "down", "opening" or "reading"
          program,     \* for each program, "closed", "opening" or "open"
          pipe,        \* messages not completely read, the oldest first
          offset,      \* bytes already read of the first of them
          held,        \* the payload the emitter has read and not yet written
          stops,       \* history: times the server has been stopped
          sent,        \* history: messages written
          forwarded    \* history: messages given to the serial line

pipeVars == <<server, program, pipe, offset, held, stops, sent, forwarded>>

ASSUME PipeAssumption ==
  /\ WriteLength \in Nat /\ ReadLength \in Nat /\ MaxSent \in Nat /\ MaxStops \in Nat
  /\ 0 < ReadLength /\ ReadLength <= WriteLength
  /\ WriteLength < 2 * ReadLength
  /\ Together \in BOOLEAN

\* The number-th message, written when the server had been stopped "stops" times
SentMessage ==
  [program : Programs, number : 1 .. MaxSent, stops : 0 .. MaxStops]

ASSUME NoMessageAssumption ==
  Garbled \notin SentMessage /\ Nothing \notin SentMessage /\ Garbled # Nothing

Init ==
  /\ server = "down" /\ program = [p \in Programs |-> "closed"]
  /\ pipe = <<>> /\ offset = 0 /\ held = Nothing
  /\ stops = 0 /\ sent = <<>> /\ forwarded = <<>>

-----------------------------------------------------------------------------
\* An end that is being opened counts as open for the other one.
HasWriter == \E p \in Programs : program[p] # "closed"
HasReader == server # "down"

\* What is in the pipe remains if one of its ends does.
Remains ==
  IF server' # "down" \/ \E p \in Programs : program'[p] # "closed"
    THEN UNCHANGED <<pipe, offset>>
    ELSE pipe' = <<>> /\ offset' = 0

(* targetingFromFile, the commands: a program begins to open the pipe ...   *)
Connect(p) ==
  /\ program[p] = "closed"
  /\ program' = [program EXCEPT ![p] = "opening"]
  /\ UNCHANGED <<server, pipe, offset, held, stops, sent, forwarded>>

(* ... and goes on when the emitter opens it or has opened it.              *)
Connected(p) ==
  /\ program[p] = "opening" /\ HasReader
  /\ program' = [program EXCEPT ![p] = "open"]
  /\ UNCHANGED <<server, pipe, offset, held, stops, sent, forwarded>>

\* A program sleeps TIME_BETWEEN2ORDERS between two of its messages, which
\* is assumed long enough for the emitter to read the first one; it knows
\* nothing of the messages of another program.
Paused(p) ==
  \E i \in DOMAIN pipe : Together => pipe[i].program = p

NewMessage(p) == [program |-> p, number |-> Len(sent) + 1, stops |-> stops]

\* Faulty variant: the program does not sleep.
WriteAtOnce(p) ==
  /\ program[p] = "open" /\ HasReader /\ Len(sent) < MaxSent
  /\ pipe' = Append(pipe, NewMessage(p)) /\ sent' = Append(sent, NewMessage(p))
  /\ UNCHANGED <<server, program, offset, held, stops, forwarded>>

(* writeMessageToPipe *)
Write(p) ==
  /\ program[p] = "open" /\ HasReader /\ Len(sent) < MaxSent /\ ~Paused(p)
  /\ pipe' = Append(pipe, NewMessage(p)) /\ sent' = Append(sent, NewMessage(p))
  /\ UNCHANGED <<server, program, offset, held, stops, forwarded>>

(* writeMessageToPipe while the server is down: SIGPIPE ends the program;   *)
(* or a program has written all and closes the pipe.                        *)
Leave(p) ==
  /\ program[p] = "open"
  /\ program' = [program EXCEPT ![p] = "closed"]
  /\ UNCHANGED <<server, held, stops, sent, forwarded>>
  /\ Remains

-----------------------------------------------------------------------------
(* The server is started: its emitter begins to open the pipe ...           *)
ServerStarts ==
  /\ server = "down" /\ server' = "opening"
  /\ UNCHANGED <<program, pipe, offset, held, stops, sent, forwarded>>

(* ... and goes on when a program opens it or has opened it.                *)
ServerConnected ==
  /\ server = "opening" /\ HasWriter
  /\ server' = "reading"
  /\ UNCHANGED <<program, pipe, offset, held, stops, sent, forwarded>>

(* main of the server after SIGINT: its threads end, wherever they are.     *)
ServerStops ==
  /\ HasReader /\ stops < MaxStops
  /\ server' = "down" /\ held' = Nothing /\ stops' = stops + 1
  /\ UNCHANGED <<program, sent, forwarded>>
  /\ Remains

\* The pipe holds fewer bytes than the emitter asks for.
Short == Len(pipe) = 1 /\ WriteLength - offset < ReadLength

\* The next ReadLength bytes are a message only if they begin one.
NextPayload == IF offset = 0 THEN pipe[1] ELSE Garbled

Reads == server = "reading" /\ held = Nothing /\ pipe # <<>>

(* threadServerEmitter: the read returns fewer bytes, which are ignored ... *)
ReadShort ==
  /\ Reads /\ Short
  /\ pipe' = <<>> /\ offset' = 0
  /\ UNCHANGED <<server, program, held, stops, sent, forwarded>>

(* ... or all of them, ...                                                  *)
ReadWhole ==
  /\ Reads /\ ~Short
  /\ held' = NextPayload
  /\ IF offset + ReadLength < WriteLength
       THEN offset' = offset + ReadLength /\ UNCHANGED pipe
       ELSE offset' = offset + ReadLength - WriteLength /\ pipe' = Tail(pipe)
  /\ UNCHANGED <<server, program, stops, sent, forwarded>>

(* ... which go to the serial line (writeSerialMessage).                    *)
Forward ==
  /\ held # Nothing
  /\ forwarded' = Append(forwarded, held) /\ held' = Nothing
  /\ UNCHANGED <<server, program, pipe, offset, stops, sent>>

Program(p) == Connect(p) \/ Connected(p) \/ Write(p) \/ Leave(p)
Server == ServerStarts \/ ServerConnected \/ ServerStops
            \/ ReadShort \/ ReadWhole \/ Forward

Next == (\E p \in Programs : Program(p)) \/ Server

Spec == Init /\ [][Next]_pipeVars

-----------------------------------------------------------------------------
InTransit(m) ==
  held = m \/ \E i \in DOMAIN pipe : pipe[i] = m /\ (i = 1 => offset = 0)

(* Each read of the emitter is a new message (ServerEmitter.c): what is     *)
(* forwarded is what was written, each message once at most and in order;   *)
(* and no message is missing but those written before a stop of the server. *)
MessagesIntact ==
  /\ \A i \in DOMAIN forwarded :
       /\ \E k \in DOMAIN sent : forwarded[i] = sent[k]
       /\ \A j \in 1 .. i - 1 : forwarded[j].number < forwarded[i].number
  /\ \A k \in DOMAIN sent :
       sent[k].stops = stops =>
         InTransit(sent[k]) \/ \E i \in DOMAIN forwarded : forwarded[i] = sent[k]
=============================================================================
