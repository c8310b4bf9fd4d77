----------------------------- MODULE PipeProofs -----------------------------
(***************************************************************************)
(* When the programs do not write at the same time, every message that is  *)
(* read crosses the pipe whole, once and in order, whenever the server is  *)
(* stopped and started, for all lengths such that the bytes left over by a *)
(* message are fewer than those of a read.                                 *)
(***************************************************************************)
EXTENDS Pipe, SequenceTheorems, TLAPS

Genuine(m) == m \in SentMessage /\ \E k \in DOMAIN sent : m = sent[k]

\* m was written after every message that was forwarded.
Newest(m) == \A i \in DOMAIN forwarded : forwarded[i].number < m.number

SentInv ==
  /\ stops \in Nat /\ stops <= MaxStops
  /\ sent \in Seq(SentMessage)
  /\ \A k \in DOMAIN sent : sent[k].number = k /\ sent[k].stops <= stops
  \* The server is up, or was stopped after every message.
  /\ server = "down" => \A k \in DOMAIN sent : sent[k].stops # stops

ForwardedInv ==
  /\ forwarded \in Seq(SentMessage)
  /\ \A i \in DOMAIN forwarded : Genuine(forwarded[i])
  /\ \A i \in DOMAIN forwarded : \A j \in 1 .. i - 1 :
       forwarded[j].number < forwarded[i].number

HeldInv == held = Nothing \/ (Genuine(held) /\ Newest(held))

\* The pipe is empty, holds one message, or the bytes left over by one.
ContentInv ==
  \/ pipe = <<>> /\ offset = 0
  \/ /\ Len(pipe) = 1 /\ pipe \in Seq(SentMessage) /\ offset = 0
     /\ Genuine(pipe[1]) /\ Newest(pipe[1])
     /\ held # Nothing => held.number < pipe[1].number
  \/ /\ Len(pipe) = 1 /\ pipe \in Seq(SentMessage)
     /\ offset = ReadLength /\ ReadLength < WriteLength

NoneMissing ==
  \A k \in DOMAIN sent :
    sent[k].stops = stops =>
      InTransit(sent[k]) \/ \E i \in DOMAIN forwarded : forwarded[i] = sent[k]

PipeInv == SentInv /\ ForwardedInv /\ HeldInv /\ ContentInv /\ NoneMissing

LEMMA EmptyPipe ==
  ASSUME ~Together, ContentInv, NEW p \in Programs, ~Paused(p)
  PROVE  pipe = <<>> /\ offset = 0
BY SMTT(30) DEF ContentInv, Paused

LEMMA WritePreserves ==
  ASSUME ~Together, PipeInv, NEW p \in Programs, Write(p) PROVE PipeInv'
<1> PICK m : m = NewMessage(p)
  OBVIOUS
<1>1. pipe = <<>> /\ offset = 0
  BY EmptyPipe DEF Write, PipeInv
<1>2. m \in SentMessage /\ m.number = Len(sent) + 1 /\ m.stops = stops
  BY PipeAssumption DEF Write, PipeInv, SentInv, SentMessage, NewMessage
<1>3. /\ pipe' = <<m>> /\ sent' = Append(sent, m) /\ offset' = 0
      /\ UNCHANGED <<held, stops, forwarded>>
  BY <1>1 DEF Write
<1>4. SentInv'
  BY <1>2, <1>3 DEF PipeInv, SentInv, Write, HasReader
<1>5. /\ DOMAIN sent' = 1 .. Len(sent) + 1 /\ DOMAIN sent = 1 .. Len(sent)
      /\ Len(sent) \in Nat
      /\ sent'[Len(sent) + 1] = m
      /\ \A k \in DOMAIN sent : k \in DOMAIN sent' /\ sent'[k] = sent[k]
  BY <1>2, <1>3 DEF PipeInv, SentInv
<1>6. \A x : Genuine(x) => Genuine(x)'
  BY <1>5 DEF Genuine
<1>7. ForwardedInv'
  BY <1>3, <1>6 DEF PipeInv, ForwardedInv
<1>8. HeldInv'
  BY <1>3, <1>6 DEF PipeInv, HeldInv, Newest
<1>9. ContentInv'
  <2>1. \A x : Genuine(x) => x.number < m.number
    BY <1>2, <1>5 DEF PipeInv, SentInv, Genuine
  <2>2. Genuine(m)'
    BY <1>2, <1>5 DEF Genuine
  <2>3. Newest(m)'
    BY <1>3, <2>1 DEF PipeInv, ForwardedInv, Newest
  <2>4. held # Nothing => held'.number < m.number
    BY <1>3, <2>1 DEF PipeInv, HeldInv
  <2> QED
    BY <1>2, <1>3, <2>2, <2>3, <2>4 DEF ContentInv
<1>10. NoneMissing'
  <2> SUFFICES ASSUME NEW k \in DOMAIN sent', sent'[k].stops = stops'
               PROVE  InTransit(sent[k])'
                        \/ \E i \in DOMAIN forwarded' : forwarded'[i] = sent'[k]
    BY DEF NoneMissing
  <2>1. CASE k = Len(sent) + 1
    BY <1>3, <1>5, <2>1 DEF InTransit
  <2>2. CASE k \in DOMAIN sent
    <3>1. InTransit(sent[k]) => held = sent[k]
      BY <1>1 DEF InTransit
    <3> QED
      BY <1>3, <1>5, <2>2, <3>1 DEF PipeInv, NoneMissing, InTransit
  <2> QED
    BY <1>5, <2>1, <2>2
<1> QED
  BY <1>4, <1>7, <1>8, <1>9, <1>10 DEF PipeInv

LEMMA ReadShortPreserves == ASSUME PipeInv, ReadShort PROVE PipeInv'
<1>1. pipe # <<>> /\ offset # 0
  BY PipeAssumption DEF ReadShort, Reads, Short
<1>2. held = Nothing /\ pipe' = <<>> /\ offset' = 0
  BY DEF ReadShort, Reads
<1>3. UNCHANGED <<server, held, stops, sent, forwarded>>
  BY DEF ReadShort
<1>4. SentInv' /\ ForwardedInv' /\ HeldInv' /\ ContentInv'
  BY <1>2, <1>3 DEF PipeInv, SentInv, ForwardedInv, HeldInv, ContentInv, Genuine, Newest
<1>5. ASSUME NEW x, InTransit(x) PROVE InTransit(x)'
  <2>1. CASE held = x
    BY <1>3, <2>1 DEF InTransit
  <2>2. CASE \E i \in DOMAIN pipe : pipe[i] = x /\ (i = 1 => offset = 0)
    BY <1>1, <2>2 DEF PipeInv, ContentInv
  <2> QED
    BY <1>5, <2>1, <2>2 DEF InTransit
<1>6. NoneMissing'
  BY <1>3, <1>5 DEF PipeInv, NoneMissing
<1> QED
  BY <1>4, <1>6 DEF PipeInv

LEMMA ReadWholePreserves == ASSUME PipeInv, ReadWhole PROVE PipeInv'
<1>1. /\ Len(pipe) = 1 /\ pipe \in Seq(SentMessage) /\ offset = 0
      /\ Genuine(pipe[1]) /\ Newest(pipe[1])
  BY PipeAssumption DEF ReadWhole, Reads, Short, PipeInv, ContentInv
<1>2. UNCHANGED <<server, stops, sent, forwarded>> /\ held' = pipe[1]
  BY <1>1 DEF ReadWhole, NextPayload
<1>3. SentInv' /\ ForwardedInv'
  BY <1>2 DEF PipeInv, SentInv, ForwardedInv, Genuine
<1>4. HeldInv'
  BY <1>1, <1>2 DEF HeldInv, Genuine, Newest
<1>5. ContentInv'
  <2>1. CASE ReadLength < WriteLength
    BY <1>1, <2>1, PipeAssumption DEF ReadWhole, ContentInv
  <2>2. CASE ReadLength = WriteLength
    <3>1. pipe' = Tail(pipe) /\ offset' = 0
      BY <1>1, <2>2, PipeAssumption DEF ReadWhole
    <3>2. Tail(pipe) = <<>>
      <4>1. pipe \in Seq(SentMessage) /\ Len(pipe) = 1
        BY <1>1
      <4>2. Tail(pipe) \in Seq(SentMessage) /\ Len(Tail(pipe)) = 0
        BY <4>1
      <4> QED
        BY <4>2, EmptySeq
    <3> QED
      BY <3>1, <3>2 DEF ContentInv
  <2> QED
    BY <2>1, <2>2, PipeAssumption
<1>6. NoneMissing'
  <2>1. \A x : InTransit(x) => x = held \/ x = pipe[1]
    BY <1>1 DEF InTransit
  <2>2. \A k \in DOMAIN sent : sent[k] # held
    <3>1. held = Nothing
      BY DEF ReadWhole, Reads
    <3> QED
      BY <3>1, NoMessageAssumption DEF PipeInv, SentInv
  <2>3. \A x : x = pipe[1] => InTransit(x)'
    BY <1>2 DEF InTransit
  <2> QED
    BY <1>2, <2>1, <2>2, <2>3 DEF PipeInv, NoneMissing
<1> QED
  BY <1>3, <1>4, <1>5, <1>6 DEF PipeInv

LEMMA ForwardPreserves == ASSUME PipeInv, Forward PROVE PipeInv'
<1>1. /\ forwarded' = Append(forwarded, held) /\ held' = Nothing
      /\ Genuine(held) /\ Newest(held)
      /\ UNCHANGED <<server, pipe, offset, stops, sent>>
  BY DEF Forward, PipeInv, HeldInv
<1>2. /\ DOMAIN forwarded = 1 .. Len(forwarded) /\ Len(forwarded) \in Nat
      /\ DOMAIN forwarded' = 1 .. Len(forwarded) + 1
      /\ forwarded'[Len(forwarded) + 1] = held
      /\ \A i \in DOMAIN forwarded : i \in DOMAIN forwarded' /\ forwarded'[i] = forwarded[i]
      /\ forwarded' \in Seq(SentMessage)
  BY <1>1 DEF PipeInv, ForwardedInv, Genuine
<1>3. SentInv' /\ HeldInv'
  BY <1>1 DEF PipeInv, SentInv, HeldInv
<1>4. \A x : Genuine(x) => Genuine(x)'
  BY <1>1 DEF Genuine
<1>5. ForwardedInv'
  <2>1. ASSUME NEW i \in DOMAIN forwarded' PROVE Genuine(forwarded'[i])
    BY <1>1, <1>2 DEF PipeInv, ForwardedInv
  <2>2. ASSUME NEW i \in DOMAIN forwarded', NEW j \in 1 .. i - 1
        PROVE  forwarded'[j].number < forwarded'[i].number
    <3>1. j \in DOMAIN forwarded
      BY <1>2, <2>2
    <3>2. CASE i \in DOMAIN forwarded
      BY <1>2, <3>1, <3>2 DEF PipeInv, ForwardedInv
    <3>3. CASE i = Len(forwarded) + 1
      BY <1>1, <1>2, <3>1, <3>3 DEF Newest
    <3> QED
      BY <1>2, <3>2, <3>3
  <2> QED
    BY <1>1, <1>2, <2>1, <2>2 DEF ForwardedInv, Genuine
<1>6. ContentInv'
  <2>1. CASE /\ Len(pipe) = 1 /\ pipe \in Seq(SentMessage) /\ offset = 0
             /\ Genuine(pipe[1]) /\ Newest(pipe[1])
             /\ held # Nothing => held.number < pipe[1].number
    <3>1. held # Nothing
      BY DEF Forward
    <3>2. Newest(pipe[1])'
      BY <1>1, <1>2, <2>1, <3>1 DEF Newest
    <3> QED
      BY <1>1, <1>4, <2>1, <3>2 DEF ContentInv
  <2> QED
    BY <1>1, <2>1 DEF PipeInv, ContentInv
<1>7. NoneMissing'
  <2>1. \A x : InTransit(x) => x = held \/ InTransit(x)'
    BY <1>1 DEF InTransit
  <2>2. \E i \in DOMAIN forwarded' : forwarded'[i] = held
    BY <1>2
  <2>3. ASSUME NEW k \in DOMAIN sent', sent'[k].stops = stops'
        PROVE  InTransit(sent[k])'
                 \/ \E i \in DOMAIN forwarded' : forwarded'[i] = sent'[k]
    <3>1. InTransit(sent[k]) \/ \E i \in DOMAIN forwarded : forwarded[i] = sent[k]
      BY <1>1, <2>3 DEF PipeInv, NoneMissing
    <3> QED
      BY <1>1, <1>2, <2>1, <2>2, <3>1
  <2> QED
    BY <2>3 DEF NoneMissing
<1> QED
  BY <1>3, <1>5, <1>6, <1>7 DEF PipeInv

\* What is in the pipe remains or is lost.
LEMMA RemainsContent ==
  ASSUME ContentInv, Remains, UNCHANGED <<sent, forwarded>>, held' \in {held, Nothing}
  PROVE  ContentInv'
BY DEF ContentInv, Remains, Genuine, Newest

LEMMA StopPreserves == ASSUME PipeInv, ServerStops PROVE PipeInv'
<1>1. /\ held' = Nothing /\ stops' = stops + 1 /\ stops < MaxStops /\ server' = "down"
      /\ UNCHANGED <<sent, forwarded>> /\ Remains
  BY DEF ServerStops
<1>2. ASSUME NEW k \in DOMAIN sent
      PROVE  sent[k].stops # stops + 1 /\ sent[k].stops <= stops + 1
  <2>1. sent[k] \in SentMessage /\ sent[k].stops <= stops
    BY DEF PipeInv, SentInv
  <2> QED
    BY <2>1, PipeAssumption DEF PipeInv, SentInv, SentMessage
<1>3. SentInv'
  BY <1>1, <1>2, PipeAssumption DEF PipeInv, SentInv
<1>4. ForwardedInv' /\ HeldInv'
  BY <1>1 DEF PipeInv, ForwardedInv, HeldInv, Genuine
<1>5. ContentInv'
  BY <1>1, RemainsContent DEF PipeInv
<1>6. NoneMissing'
  BY <1>1, <1>2 DEF NoneMissing
<1> QED
  BY <1>3, <1>4, <1>5, <1>6 DEF PipeInv

\* The other steps change neither the messages nor what is in the pipe, or
\* leave it when the server is down.
LEMMA OthersPreserve ==
  ASSUME PipeInv, UNCHANGED <<held, stops, sent, forwarded>>,
         server' = "down" => server = "down",
         UNCHANGED <<pipe, offset>> \/ Remains
  PROVE  PipeInv'
<1>1. SentInv' /\ ForwardedInv' /\ HeldInv'
  BY DEF PipeInv, SentInv, ForwardedInv, HeldInv, Genuine, Newest
<1>2. ContentInv'
  <2>1. CASE UNCHANGED <<pipe, offset>>
    BY <2>1 DEF PipeInv, ContentInv, Genuine, Newest
  <2>2. CASE Remains
    BY <2>2, RemainsContent DEF PipeInv
  <2> QED
    BY <2>1, <2>2
<1>3. NoneMissing'
  <2>1. CASE UNCHANGED <<pipe, offset>>
    BY <2>1 DEF PipeInv, NoneMissing, InTransit
  <2>2. CASE server = "down"
    BY <2>2 DEF PipeInv, SentInv, NoneMissing
  <2> QED
    BY <2>1, <2>2 DEF Remains
<1> QED
  BY <1>1, <1>2, <1>3 DEF PipeInv

LEMMA PipeInvariant == ASSUME ~Together PROVE Spec => []PipeInv
<1>1. Init => PipeInv
  <2> SUFFICES ASSUME Init PROVE PipeInv
    OBVIOUS
  <2>1. SentInv /\ ForwardedInv
    BY PipeAssumption DEF Init, SentInv, ForwardedInv
  <2> QED
    BY <2>1 DEF Init, PipeInv, HeldInv, ContentInv, NoneMissing
<1>2. PipeInv /\ [Next]_pipeVars => PipeInv'
  <2> SUFFICES ASSUME PipeInv, [Next]_pipeVars PROVE PipeInv'
    OBVIOUS
  <2>1. ASSUME NEW p \in Programs, Connect(p) \/ Connected(p) PROVE PipeInv'
    BY <2>1, OthersPreserve DEF Connect, Connected
  <2>2. ASSUME NEW p \in Programs, Write(p) PROVE PipeInv'
    BY <2>2, WritePreserves
  <2>3. ASSUME NEW p \in Programs, Leave(p) PROVE PipeInv'
    BY <2>3, OthersPreserve DEF Leave
  <2>4. CASE ServerStarts \/ ServerConnected
    BY <2>4, OthersPreserve DEF ServerStarts, ServerConnected
  <2>5. CASE ServerStops
    BY <2>5, StopPreserves
  <2>6. CASE ReadShort
    BY <2>6, ReadShortPreserves
  <2>7. CASE ReadWhole
    BY <2>7, ReadWholePreserves
  <2>8. CASE Forward
    BY <2>8, ForwardPreserves
  <2>9. CASE UNCHANGED pipeVars
    BY <2>9, OthersPreserve DEF pipeVars
  <2> QED
    BY <2>1, <2>2, <2>3, <2>4, <2>5, <2>6, <2>7, <2>8, <2>9 DEF Next, Program, Server
<1> QED
  BY <1>1, <1>2, PTL DEF Spec

(* Without two programs at once, the emitter forwards the messages written, *)
(* whole, once and in order, and misses none but by a stop of the server    *)
(* (threadServerEmitter, writeMessageToPipe, main of the server).           *)
THEOREM MessagesCrossWhole == ASSUME ~Together PROVE Spec => []MessagesIntact
<1>1. PipeInv => MessagesIntact
  BY DEF PipeInv, ForwardedInv, NoneMissing, Genuine, MessagesIntact
<1> QED
  BY <1>1, PipeInvariant, PTL
=============================================================================
