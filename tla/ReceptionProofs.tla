-------------------------- MODULE ReceptionProofs --------------------------
(***************************************************************************)
(* The start of the firmware connects each thread to its objects, and the  *)
(* antenna receiver hears every answer that comes after a silence, for     *)
(* every length of an answer and whatever the bounds on the noise; and the *)
(* queues absorb every burst whose logs fit in them.                       *)
(***************************************************************************)
EXTENDS AntennaRx, SequenceTheorems, TLAPS

\* The program of main
ProgramAt(i) ==
  CASE i = 1 -> Initialise("crcTable")
    [] i = 2 -> Initialise("current_traj")
    [] i = 3 -> Initialise("Fifo_log")
    [] i = 4 -> Initialise("Fifo_order")
    [] i = 5 -> Create("pcTxThread")
    [] i \in {6, 11} -> PutArgs
    [] i = 7 -> Create("pcRxThread")
    [] i \in {8, 13} -> Wait
    [] i \in {9, 14} -> Return
    [] i = 10 -> Create("antennaRxThread")
    [] i = 12 -> Create("antennaTxThread")
    [] i = 15 -> Create("gpsThread")

\* s has the n operations that come after the first m
IsPart(s, m, n) ==
  /\ s \in Seq({ProgramAt(i) : i \in 1 .. 15}) /\ Len(s) = n
  /\ \A i \in 1 .. n : s[i] = ProgramAt(m + i)

\* Two parts of the program, one behind the other
LEMMA Concatenation ==
  ASSUME NEW s, NEW t, NEW m \in Nat, NEW n \in Nat, NEW k \in Nat,
         IsPart(s, m, n), IsPart(t, m + n, k)
  PROVE  IsPart(s \o t, m, n + k)
<1>. DEFINE Op == {ProgramAt(i) : i \in 1 .. 15}
<1>1. s \in Seq(Op) /\ Len(s) = n /\ t \in Seq(Op) /\ Len(t) = k
  BY DEF IsPart
<1>. HIDE DEF Op
<1>2. s \o t \in Seq(Op) /\ Len(s \o t) = n + k
  BY <1>1
<1>3. ASSUME NEW i \in 1 .. n + k
      PROVE  (s \o t)[i] = ProgramAt(m + i)
  <2>1. CASE i <= n
    <3>1. i \in 1 .. n /\ (s \o t)[i] = s[i]
      BY <1>1, <2>1
    <3>. QED  BY <3>1 DEF IsPart
  <2>2. CASE n < i
    <3>1. i - n \in 1 .. k /\ (m + n) + (i - n) = m + i
      BY <2>2
    <3>2. (s \o t)[i] = t[i - n]
      BY <1>1, <2>2
    <3>3. t[i - n] = ProgramAt((m + n) + (i - n))
      BY <3>1 DEF IsPart
    <3>. QED  BY <3>1, <3>2, <3>3
  <2>3. i <= n \/ n < i
    OBVIOUS
  <2>. QED  BY <2>1, <2>2, <2>3
<1>. QED  BY <1>2, <1>3 DEF IsPart, Op

\* The program of main, operation by operation
LEMMA Operations == Len(Program) = 15 /\ \A i \in 1 .. 15 : Program[i] = ProgramAt(i)
<1>. DEFINE P1 == <<ProgramAt(1), ProgramAt(2), ProgramAt(3), ProgramAt(4), ProgramAt(5)>>
            P2 == <<ProgramAt(6), ProgramAt(7), ProgramAt(8), ProgramAt(9)>>
            P3 == <<ProgramAt(10)>>
            P4 == <<ProgramAt(11), ProgramAt(12), ProgramAt(13), ProgramAt(14)>>
            P5 == <<ProgramAt(15)>>
<1>1. /\ IsPart(P1, 0, 5) /\ IsPart(P2, 5, 4) /\ IsPart(P3, 9, 1)
      /\ IsPart(P4, 10, 4) /\ IsPart(P5, 14, 1)
  BY DEF IsPart
<1>2. Program = P1 \o P2 \o P3 \o P4 \o P5
  <2>1. P2 = ProtectedStart("pcRxThread") /\ P4 = ProtectedStart("antennaTxThread")
    BY DEF ProgramAt, ProtectedStart
  <2>2. /\ P1 = <<Initialise("crcTable"), Initialise("current_traj"),
                  Initialise("Fifo_log"), Initialise("Fifo_order"), Create("pcTxThread")>>
        /\ P3 = <<Create("antennaRxThread")>>
        /\ P5 = <<Create("gpsThread")>>
    BY DEF ProgramAt
  <2>. QED  BY <2>1, <2>2 DEF Program
<1>. HIDE DEF P1, P2, P3, P4, P5
<1>3. IsPart(P1 \o P2, 0, 9)
  BY <1>1, Concatenation, 5 + 4 = 9, 0 + 5 = 5
<1>4. IsPart(P1 \o P2 \o P3, 0, 10)
  BY <1>1, <1>3, Concatenation, 9 + 1 = 10, 0 + 9 = 9
<1>5. IsPart(P1 \o P2 \o P3 \o P4, 0, 14)
  BY <1>1, <1>4, Concatenation, 10 + 4 = 14, 0 + 10 = 10
<1>6. IsPart(P1 \o P2 \o P3 \o P4 \o P5, 0, 15)
  BY <1>1, <1>5, Concatenation, 14 + 1 = 15, 0 + 14 = 14
<1>7. \A i \in 1 .. 15 : 0 + i = i
  OBVIOUS
<1>. QED  BY <1>2, <1>6, <1>7 DEF IsPart

LEMMA MainAt ==
  ASSUME mainPc \in 1 .. 16
  PROVE  /\ At("initialise") <=> mainPc \in 1 .. 4
         /\ At("create") <=> mainPc \in {5, 7, 10, 12, 15}
         /\ At("args") <=> mainPc \in {6, 11}
         /\ At("wait") <=> mainPc \in {8, 13}
         /\ At("return") <=> mainPc \in {9, 14}
         /\ mainPc < 16 => On = ProgramAt(mainPc).on
BY Operations DEF At, On, ProgramAt, Initialise, Create, PutArgs, Wait, Return

-----------------------------------------------------------------------------
\* The operation of main that creates a thread
CreatedAt(t) ==
  CASE t = "pcTxThread"      -> 5
    [] t = "pcRxThread"      -> 7
    [] t = "antennaRxThread" -> 10
    [] t = "antennaTxThread" -> 12
    [] t = "gpsThread"       -> 15

\* What th_args points to
Names == {"Fifo_log", "Fifo_order", "current_traj"}

\* What a protected thread may have read
Partly(s) ==
  Len(s) <= Len(Objects) /\ \A i \in 1 .. Len(s) : s[i] = Objects[i]

StartTypeInv ==
  /\ mainPc \in 1 .. 16
  /\ threadPc \in [Threads -> {"none", "starts", "connected", "runs"}]
  /\ locals \in [Threads -> Seq(Names)]

Initialised ==
  /\ mainPc > 1 => "crcTable" \in ready
  /\ mainPc > 2 => "current_traj" \in ready
  /\ mainPc > 3 => "Fifo_log" \in ready
  /\ mainPc > 4 => "Fifo_order" \in ready

Created ==
  \A t \in Threads :
    /\ threadPc[t] = "none" <=> mainPc <= CreatedAt(t)
    /\ threadPc[t] \in {"none", "starts"} => Partly(locals[t])
    /\ threadPc[t] \in {"connected", "runs"} =>
         locals[t] = IF t \in ProtectedThreads THEN Objects ELSE <<"Fifo_log">>

\* The structure is there, and the semaphore taken, from before the thread is
\* created until it has read everything; and main waits.
Handshake ==
  \A t \in ProtectedThreads :
    mainPc = CreatedAt(t) \/ threadPc[t] = "starts" =>
      mainPc \in {CreatedAt(t), CreatedAt(t) + 1} /\ thArgs = Objects /\ ~signalled

StartInv == StartTypeInv /\ Initialised /\ Created /\ Handshake

LEMMA ObjectsAreThree ==
  /\ Objects \in Seq(Names) /\ Len(Objects) = 3
  /\ <<>> \in Seq(Names) /\ Partly(<<>>)
  /\ <<"Fifo_log">> \in Seq(Names)
<1>1. Objects \in Seq(Names) /\ Len(Objects) = 3
  BY DEF Objects, Names
<1>2. <<>> \in Seq(Names) /\ Len(<<>>) = 0
  BY EmptySeq
<1>3. Partly(<<>>)
  BY <1>1, <1>2 DEF Partly
<1>4. <<"Fifo_log">> \in Seq(Names)
  BY DEF Names
<1>. QED  BY <1>1, <1>2, <1>3, <1>4

\* A thread that reads its next argument has a part that is one longer.
LEMMA ReadingGoesOn ==
  ASSUME NEW s \in Seq(Names), Partly(s), Len(s) < Len(Objects)
  PROVE  /\ Append(s, Objects[Len(s) + 1]) \in Seq(Names)
         /\ Partly(Append(s, Objects[Len(s) + 1]))
<1>. DEFINE n == Len(s) + 1
            r == Append(s, Objects[n])
<1>1. n \in 1 .. 3 /\ Objects[n] \in Names
  <2>1. Len(s) \in Nat
    OBVIOUS
  <2>2. n \in 1 .. 3
    BY <2>1, ObjectsAreThree
  <2>. QED  BY <2>2, ObjectsAreThree, ElementOfSeq
<1>2. /\ r \in Seq(Names) /\ Len(r) = n /\ r[n] = Objects[n]
      /\ \A i \in 1 .. Len(s) : r[i] = s[i]
  BY <1>1
<1>3. \A i \in 1 .. n : r[i] = Objects[i]
  BY <1>2 DEF Partly
<1>. QED  BY <1>1, <1>2, <1>3, ObjectsAreThree DEF Partly

LEMMA AllRead ==
  ASSUME NEW s \in Seq(Names), Partly(s), Len(s) = Len(Objects)
  PROVE  s = Objects
BY ObjectsAreThree, SeqEqual DEF Partly

LEMMA StartInitially == Init => StartInv
<1>. SUFFICES ASSUME Init PROVE StartInv
  OBVIOUS
<1>1. StartTypeInv /\ Initialised
  BY ObjectsAreThree DEF Init, StartTypeInv, Initialised
<1>2. Created /\ Handshake
  BY ObjectsAreThree DEF Init, Created, Handshake, Threads, LogThreads, ProtectedThreads, CreatedAt
<1>. QED  BY <1>1, <1>2 DEF StartInv

LEMMA StartStep == StartInv /\ [Next]_startupVars => StartInv'
<1>. SUFFICES ASSUME StartInv, [Next]_startupVars PROVE StartInv'
  OBVIOUS
<1>. USE DEF StartInv
<1>1. CASE MainInitialises
  <2>1. mainPc \in 1 .. 4 /\ mainPc' = mainPc + 1 /\ On = ProgramAt(mainPc).on
    BY <1>1, MainAt DEF MainInitialises, Step, StartTypeInv
  <2>2. StartTypeInv'
    BY <1>1, <2>1 DEF MainInitialises, StartTypeInv
  <2>3. Initialised'
    BY <1>1, <2>1 DEF MainInitialises, Initialised, ProgramAt, Initialise
  <2>4. Created' /\ Handshake'
    BY <1>1, <2>1 DEF MainInitialises, Created, Handshake, CreatedAt, Threads,
                       LogThreads, ProtectedThreads
  <2>. QED  BY <2>2, <2>3, <2>4
<1>2. CASE MainPutsArgs
  <2>1. mainPc \in {6, 11} /\ mainPc' = mainPc + 1
    BY <1>2, MainAt DEF MainPutsArgs, Step, StartTypeInv
  <2>2. StartTypeInv' /\ Initialised'
    BY <1>2, <2>1 DEF MainPutsArgs, StartTypeInv, Initialised
  <2>3. Created' /\ Handshake'
    BY <1>2, <2>1 DEF MainPutsArgs, Created, Handshake, CreatedAt, Threads,
                       LogThreads, ProtectedThreads
  <2>. QED  BY <2>2, <2>3
<1>3. CASE MainCreates
  <2>1. /\ mainPc \in {5, 7, 10, 12, 15} /\ mainPc' = mainPc + 1
        /\ On \in Threads /\ CreatedAt(On) = mainPc
        /\ \A t \in Threads : CreatedAt(t) = mainPc => t = On
    <3>1. mainPc \in {5, 7, 10, 12, 15} /\ mainPc' = mainPc + 1 /\ On = ProgramAt(mainPc).on
      BY <1>3, MainAt DEF MainCreates, Step, StartTypeInv
    <3>2. On = CASE mainPc = 5  -> "pcTxThread"
                 [] mainPc = 7  -> "pcRxThread"
                 [] mainPc = 10 -> "antennaRxThread"
                 [] mainPc = 12 -> "antennaTxThread"
                 [] mainPc = 15 -> "gpsThread"
      BY <3>1 DEF ProgramAt, Create
    <3>. QED  BY <3>1, <3>2 DEF CreatedAt, Threads, LogThreads, ProtectedThreads
  <2>2. StartTypeInv' /\ Initialised'
    BY <1>3, <2>1 DEF MainCreates, StartTypeInv, Initialised
  <2>3. \A t \in Threads : CreatedAt(t) \in Nat
    BY DEF CreatedAt, Threads, LogThreads, ProtectedThreads
  <2>4. Created'
    BY <1>3, <2>1, <2>3 DEF MainCreates, Created, StartTypeInv
  <2>5. Handshake'
    BY <1>3, <2>1 DEF MainCreates, Handshake, CreatedAt, StartTypeInv, Threads,
                       LogThreads, ProtectedThreads
  <2>. QED  BY <2>2, <2>4, <2>5
<1>4. CASE MainWaits
  <2>1. mainPc \in {8, 13} /\ mainPc' = mainPc + 1
    BY <1>4, MainAt DEF MainWaits, Step, StartTypeInv
  <2>2. StartTypeInv' /\ Initialised'
    BY <1>4, <2>1 DEF MainWaits, StartTypeInv, Initialised
  <2>3. Created' /\ Handshake'
    BY <1>4, <2>1 DEF MainWaits, Created, Handshake, CreatedAt, Threads,
                       LogThreads, ProtectedThreads
  <2>. QED  BY <2>2, <2>3
<1>5. CASE MainReturns
  <2>1. mainPc \in {9, 14} /\ mainPc' = mainPc + 1
    BY <1>5, MainAt DEF MainReturns, Step, StartTypeInv
  <2>2. StartTypeInv' /\ Initialised'
    BY <1>5, <2>1 DEF MainReturns, StartTypeInv, Initialised
  <2>3. Created' /\ Handshake'
    BY <1>5, <2>1 DEF MainReturns, Created, Handshake, CreatedAt, Threads,
                       LogThreads, ProtectedThreads
  <2>. QED  BY <2>2, <2>3
<1>6. ASSUME NEW t \in LogThreads, LogThreadStarts(t)
      PROVE  StartInv'
  <2>1. StartTypeInv' /\ Initialised'
    BY <1>6, ObjectsAreThree DEF LogThreadStarts, StartTypeInv, Initialised, Threads
  <2>2. t \in Threads /\ t \notin ProtectedThreads
    BY <1>6 DEF Threads, LogThreads, ProtectedThreads
  <2>3. Created'
    BY <1>6, <2>2 DEF LogThreadStarts, Created, StartTypeInv
  <2>4. Handshake'
    BY <1>6, <2>2 DEF LogThreadStarts, Handshake, StartTypeInv, Threads
  <2>. QED  BY <2>1, <2>3, <2>4
<1>7. ASSUME NEW t \in ProtectedThreads, ThreadReadsArg(t)
      PROVE  StartInv'
  <2>1. t \in Threads /\ thArgs = Objects
    BY <1>7 DEF ThreadReadsArg, Threads, Handshake
  <2>2. locals'[t] \in Seq(Names) /\ Partly(locals'[t])
    BY <1>7, <2>1, ReadingGoesOn DEF ThreadReadsArg, StartTypeInv, Created
  <2>3. StartTypeInv' /\ Initialised'
    BY <1>7, <2>1, <2>2 DEF ThreadReadsArg, StartTypeInv, Initialised
  <2>4. Created' /\ Handshake'
    BY <1>7, <2>1, <2>2 DEF ThreadReadsArg, Created, Handshake, StartTypeInv
  <2>. QED  BY <2>3, <2>4
<1>8. ASSUME NEW t \in ProtectedThreads, ThreadSignals(t)
      PROVE  StartInv'
  <2>1. t \in Threads /\ locals[t] = Objects
    BY <1>8, AllRead DEF ThreadSignals, StartTypeInv, Created, Threads
  <2>2. StartTypeInv' /\ Initialised'
    BY <1>8, <2>1 DEF ThreadSignals, StartTypeInv, Initialised
  <2>3. Created'
    BY <1>8, <2>1 DEF ThreadSignals, Created, StartTypeInv
  <2>4. Handshake'
    BY <1>8, <2>1 DEF ThreadSignals, Handshake, Created, StartTypeInv, CreatedAt,
                       Threads, LogThreads, ProtectedThreads
  <2>. QED  BY <2>2, <2>3, <2>4
<1>9. ASSUME NEW t \in Threads, EntersLoop(t)
      PROVE  StartInv'
  <2>1. StartTypeInv' /\ Initialised'
    BY <1>9 DEF EntersLoop, StartTypeInv, Initialised
  <2>2. Created' /\ Handshake'
    BY <1>9 DEF EntersLoop, Created, Handshake, StartTypeInv, Threads
  <2>. QED  BY <2>1, <2>2
<1>10. CASE UNCHANGED startupVars
  BY <1>10 DEF startupVars, StartTypeInv, Initialised, Created, Handshake
<1>. QED
  BY <1>1, <1>2, <1>3, <1>4, <1>5, <1>6, <1>7, <1>8, <1>9, <1>10
  DEF Next, Main, ProtectedThread

LEMMA StartInvConnects == StartInv => Connected
<1>. SUFFICES ASSUME StartInv, NEW t \in Threads, threadPc[t] \in {"connected", "runs"}
             PROVE  /\ locals[t] = IF t \in ProtectedThreads THEN Objects ELSE <<"Fifo_log">>
                    /\ {locals[t][i] : i \in DOMAIN locals[t]} \union {"crcTable"} \subseteq ready
  BY DEF Connected
<1>1. mainPc > 5
  BY SMTT(30) DEF StartInv, StartTypeInv, Created, CreatedAt, Threads, LogThreads, ProtectedThreads
<1>2. {"crcTable", "current_traj", "Fifo_log", "Fifo_order"} \subseteq ready
  BY <1>1 DEF StartInv, StartTypeInv, Initialised
<1>3. locals[t] = IF t \in ProtectedThreads THEN Objects ELSE <<"Fifo_log">>
  BY DEF StartInv, Created
<1>4. CASE t \in ProtectedThreads
  BY <1>2, <1>3, <1>4 DEF Objects
<1>5. CASE t \notin ProtectedThreads
  BY <1>2, <1>3, <1>5
<1>. QED  BY <1>4, <1>5

(* However main and the threads it creates are interleaved, each thread     *)
(* that has left the handshake has its own objects, all initialised         *)
(* (startPcThreads, startAntennaThreads); also while answers arrive.        *)
THEOREM ThreadsConnected == ReceptionSpec => []Connected
<1>1. ReceptionInit => StartInv
  BY StartInitially DEF ReceptionInit
<1>2. StartInv /\ [ReceptionNext]_receptionVars => StartInv'
  <2>1. [ReceptionNext]_receptionVars => [Next]_startupVars
    BY DEF ReceptionNext, Reception, receptionVars, startupVars, AnswerByte, NoiseByte,
           AnswerByteChanged, AnswerByteLost, Silence, OtherLog
  <2>. QED  BY <2>1, StartStep
<1>. QED  BY <1>1, <1>2, StartInvConnects, PTL DEF ReceptionSpec

-----------------------------------------------------------------------------
\* Without noise since the last silence, the reader is where the antenna is.
InStep ==
  /\ sent \in 0 .. ANTENNA_MESSAGE_LENGTH - 1
  /\ quiet => length = sent /\ genuine
  /\ ~missed

\* The antenna counts its bytes modulo the length of an answer.
LEMMA NextByte ==
  ASSUME NEW m \in Nat \ {0}, NEW i \in 0 .. m - 1
  PROVE  (i + 1) % m = IF i + 1 = m THEN 0 ELSE i + 1
<1>1. CASE i + 1 = m
  BY <1>1
<1>2. CASE i + 1 < m
  BY <1>2
<1>. QED  BY <1>1, <1>2

LEMMA SentInRange ==
  ASSUME sent \in 0 .. ANTENNA_MESSAGE_LENGTH - 1, Answers
  PROVE  /\ sent' \in 0 .. ANTENNA_MESSAGE_LENGTH - 1
         /\ sent' = IF sent + 1 = ANTENNA_MESSAGE_LENGTH THEN 0 ELSE sent + 1
<1>1. ANTENNA_MESSAGE_LENGTH \in Nat \ {0}
  BY ReceptionAssumption DEF ReceptionAssumption
<1>2. sent' = (sent + 1) % ANTENNA_MESSAGE_LENGTH
  BY DEF Answers
<1>3. sent' = IF sent + 1 = ANTENNA_MESSAGE_LENGTH THEN 0 ELSE sent + 1
  BY <1>1, <1>2, NextByte
<1>. QED  BY <1>1, <1>3

LEMMA InStepInitially == ReceptionInit => InStep
BY ReceptionAssumption DEF ReceptionAssumption, ReceptionInit, InStep

LEMMA InStepStep == InStep /\ [ReceptionNext]_receptionVars => InStep'
<1>. SUFFICES ASSUME InStep, [ReceptionNext]_receptionVars PROVE InStep'
  OBVIOUS
<1>0. ANTENNA_MESSAGE_LENGTH \in Nat \ {0}
  BY ReceptionAssumption DEF ReceptionAssumption
<1>1. CASE AnswerByte
  <2>1. /\ sent' \in 0 .. ANTENNA_MESSAGE_LENGTH - 1
        /\ sent' = IF sent + 1 = ANTENNA_MESSAGE_LENGTH THEN 0 ELSE sent + 1
    BY <1>1, SentInRange DEF AnswerByte, InStep
  <2>2. quiet => length = sent /\ genuine
    BY DEF InStep
  <2>3. quiet /\ sent' = 0 => Whole
    BY <1>0, <2>1, <2>2 DEF InStep, Whole
  <2>4. ~missed'
    <3>1. missed' = (missed \/ (sent' = 0 /\ quiet /\ ~(Whole /\ genuine /\ length = sent)))
      BY <1>1, Zenon DEF AnswerByte
    <3>2. ~missed
      BY DEF InStep
    <3>. QED  BY <2>2, <2>3, <3>1, <3>2, Zenon
  <2>5. quiet => length' = sent'
    BY <1>0, <1>1, <2>1, <2>2 DEF AnswerByte, readsByte, Whole, InStep
  <2>6. quiet => genuine'
    <3>1. genuine' = IF length' = 0 THEN TRUE ELSE genuine /\ length = sent
      BY <1>1, Zenon DEF AnswerByte, readsByte
    <3>. QED  BY <2>2, <3>1, Zenon
  <2>7. quiet' = quiet
    BY <1>1, Zenon DEF AnswerByte
  <2>. QED  BY <2>1, <2>4, <2>5, <2>6, <2>7, Zenon DEF InStep
<1>2. CASE NoiseByte
  <2>1. ~quiet' /\ UNCHANGED <<sent, missed>>
    BY <1>2, Zenon DEF NoiseByte, Noisy
  <2>. QED  BY <2>1, Zenon DEF InStep
<1>3. CASE AnswerByteChanged
  <2>1. ~quiet' /\ UNCHANGED missed /\ sent' \in 0 .. ANTENNA_MESSAGE_LENGTH - 1
    BY <1>3, SentInRange, Zenon DEF AnswerByteChanged, Noisy, InStep
  <2>. QED  BY <2>1, Zenon DEF InStep
<1>4. CASE AnswerByteLost
  <2>1. ~quiet' /\ UNCHANGED missed /\ sent' \in 0 .. ANTENNA_MESSAGE_LENGTH - 1
    BY <1>4, SentInRange, Zenon DEF AnswerByteLost, Noisy, InStep
  <2>. QED  BY <2>1, Zenon DEF InStep
<1>5. CASE Silence
  <2>1. length' = 0 /\ genuine' /\ sent = 0 /\ UNCHANGED <<sent, missed>>
    BY <1>5, Zenon DEF Silence
  <2>. QED  BY <2>1, Zenon DEF InStep
<1>6. CASE UNCHANGED <<rxVars, quiet>>
  BY <1>6, Zenon DEF rxVars, InStep
<1>7. CASE OtherLog
  BY <1>6, <1>7, Zenon DEF OtherLog
<1>8. CASE Next /\ UNCHANGED <<rxVars, lineVars>>
  BY <1>6, <1>8, Zenon DEF lineVars
<1>9. CASE UNCHANGED receptionVars
  BY <1>6, <1>9, Zenon DEF receptionVars, lineVars
<1>. QED
  BY <1>1, <1>2, <1>3, <1>4, <1>5, <1>7, <1>8, <1>9 DEF ReceptionNext, Reception

(* An answer that comes after a silence of ANTENNA_READ_TIMEOUT without     *)
(* noise is logged as it was sent (readAntennaMessage), for every length of *)
(* an answer and every bound on the noise that was before the silence.      *)
THEOREM EveryAnswerHeard == ReceptionSpec => []AnswersHeard
<1>1. InStep => AnswersHeard
  BY DEF InStep, AnswersHeard
<1>. QED  BY <1>1, InStepInitially, InStepStep, PTL DEF ReceptionSpec

-----------------------------------------------------------------------------
\* Bytes of answers, and what they and the noise may have left in the queue if
\* each of them is a log
AnswerBytes ==
  IF sent = 0 THEN ANTENNA_MESSAGE_LENGTH * answers
              ELSE ANTENNA_MESSAGE_LENGTH * (answers - 1) + sent
Net == LOG_LENGTH - DRAIN
Allowance(bytes, logs) == Net * bytes + LOG_LENGTH * logs

\* The queue of the driver and all objects but one hold the logs of a burst,
\* and a silence is long enough for the log that it ends with.  With the sizes
\* of the firmware, two answers and two other logs this is true of bursts of up
\* to 17 bytes: 17 * (17 + 24) + 23 * 2 <= 320 + 23 * 19.
Absorbed ==
  /\ DRAIN <= LOG_LENGTH /\ LOG_LENGTH <= DRAIN * TIMEOUT_BYTES
  /\ Allowance(MaxNoise + ANTENNA_MESSAGE_LENGTH * MaxAnswers, MaxOthers)
       <= SERIAL_BUFFERS_SIZE + LOG_LENGTH * (FIFO_BUFFER_SIZE - 1)

BoundsInv ==
  /\ backlog \in Nat
  /\ sent \in 0 .. ANTENNA_MESSAGE_LENGTH - 1
  /\ noise \in 0 .. MaxNoise
  /\ answers \in 0 .. MaxAnswers /\ (sent # 0 => answers # 0)
  /\ others \in 0 .. MaxOthers

AllowanceInv == backlog <= Allowance(noise + AnswerBytes, others)

LEMMA Constants ==
  /\ ANTENNA_MESSAGE_LENGTH \in Nat \ {0} /\ LOG_LENGTH \in Nat \ {0}
  /\ SERIAL_BUFFERS_SIZE \in Nat \ {0} /\ FIFO_BUFFER_SIZE \in Nat \ {0}
  /\ DRAIN \in Nat \ {0} /\ TIMEOUT_BYTES \in Nat \ {0}
  /\ MaxNoise \in Nat /\ MaxAnswers \in Nat /\ MaxOthers \in Nat
BY ReceptionAssumption DEF ReceptionAssumption

LEMMA Product ==
  ASSUME NEW d \in Nat, NEW j \in Nat, NEW k \in Nat
  PROVE  /\ d * j \in Nat
         /\ d * (j + 1) = d * j + d
         /\ j <= k => d * j <= d * k
<1>1. d * j \in Nat /\ d * (j + 1) = d * j + d
  OBVIOUS
<1>2. ASSUME j <= k PROVE d * j <= d * k
  <2>1. k - j \in Nat /\ d * k = d * j + d * (k - j)
    BY <1>2
  <2>2. d * (k - j) \in Nat /\ d * j \in Nat
    BY <2>1
  <2>. QED  BY <2>1, <2>2
<1>. QED  BY <1>1, <1>2

LEMMA Quotient ==
  ASSUME NEW d \in Nat \ {0}, NEW x \in Nat, NEW q \in Nat, x < d * q
  PROVE  x \div d < q
<1>. DEFINE r == x \div d
<1>1. r \in Nat /\ d * r <= x
  OBVIOUS
<1>. HIDE DEF r
<1>2. SUFFICES ASSUME q <= r PROVE FALSE
  BY <1>1 DEF r
<1>3. d * q <= d * r
  BY <1>1, <1>2, Product
<1>4. d * q \in Nat /\ d * r \in Nat
  BY <1>1, Product
<1>. QED  BY <1>1, <1>3, <1>4

\* An allowance grows with the bytes and the logs.
LEMMA AllowanceGrows ==
  ASSUME Absorbed, NEW b \in Nat, NEW c \in Nat, NEW l \in Nat, NEW m \in Nat,
         b <= c, l <= m
  PROVE  /\ Allowance(b, l) \in Nat /\ Allowance(c, m) \in Nat
         /\ Allowance(b, l) <= Allowance(c, m)
         /\ Allowance(b + 1, l) = Allowance(b, l) + Net
         /\ Allowance(b, l + 1) = Allowance(b, l) + LOG_LENGTH
<1>1. Net \in Nat /\ LOG_LENGTH \in Nat
  BY Constants DEF Absorbed, Net
<1>2. /\ Net * b \in Nat /\ Net * c \in Nat /\ Net * b <= Net * c
      /\ Net * (b + 1) = Net * b + Net
  BY <1>1, Product
<1>3. /\ LOG_LENGTH * l \in Nat /\ LOG_LENGTH * m \in Nat
      /\ LOG_LENGTH * l <= LOG_LENGTH * m
      /\ LOG_LENGTH * (l + 1) = LOG_LENGTH * l + LOG_LENGTH
  BY <1>1, Product
<1>. QED  BY <1>1, <1>2, <1>3 DEF Allowance

LEMMA AllowanceIsNatural ==
  ASSUME Absorbed, NEW b \in Nat, NEW l \in Nat
  PROVE  Allowance(b, l) \in Nat
BY AllowanceGrows

\* One byte more, of one kind or of both
LEMMA AllowanceForByte ==
  ASSUME Absorbed, NEW n \in {0, 1}, NEW a \in {0, 1}, n = 1 \/ a = 1, NEW l \in Nat,
         NEW x \in Nat, NEW y \in Nat, NEW x2 \in Nat, NEW y2 \in Nat,
         x2 >= x + n, y2 = y + a
  PROVE  /\ Allowance(x + y, l) \in Nat /\ Allowance(x2 + y2, l) \in Nat
         /\ Allowance(x2 + y2, l) >= Allowance(x + y, l) + Net
<1>. DEFINE b == x + y
            c == x2 + y2
<1>1. b \in Nat /\ c \in Nat /\ b + 1 \in Nat /\ b + 1 <= c
  OBVIOUS
<1>. HIDE DEF b, c
<1>2. Allowance(b + 1, l) <= Allowance(c, l) /\ Allowance(b + 1, l) = Allowance(b, l) + Net
  BY <1>1, AllowanceGrows
<1>3. /\ Allowance(b, l) \in Nat /\ Allowance(c, l) \in Nat
      /\ Allowance(b + 1, l) \in Nat
  BY <1>1, AllowanceIsNatural
<1>4. Allowance(c, l) >= Allowance(b, l) + Net
  BY <1>2, <1>3
<1>. QED  BY <1>3, <1>4 DEF b, c

LEMMA Predecessor == \A x \in Nat : x # 0 => x - 1 \in Nat
OBVIOUS

LEMMA AllowanceOfSum ==
  ASSUME Absorbed, NEW x \in Nat, NEW y \in Nat, NEW l \in Nat
  PROVE  0 <= Allowance(x + y, l)
<1>1. x + y \in Nat
  OBVIOUS
<1>. QED  BY <1>1, AllowanceIsNatural

LEMMA AnswerBytesBounded ==
  BoundsInv => AnswerBytes \in 0 .. ANTENNA_MESSAGE_LENGTH * MaxAnswers
<1>. SUFFICES ASSUME BoundsInv
              PROVE  AnswerBytes \in 0 .. ANTENNA_MESSAGE_LENGTH * MaxAnswers
  OBVIOUS
<1>. DEFINE L == ANTENNA_MESSAGE_LENGTH
<1>1. L \in Nat \ {0} /\ MaxAnswers \in Nat /\ answers \in 0 .. MaxAnswers
  BY Constants DEF BoundsInv
<1>. HIDE DEF L
<1>2. L * answers \in Nat /\ L * answers <= L * MaxAnswers
  BY <1>1, Product
<1>3. CASE sent = 0
  BY <1>1, <1>2, <1>3 DEF AnswerBytes, L
<1>4. CASE sent # 0
  <2>1. answers - 1 \in Nat /\ sent \in 1 .. L - 1
    BY <1>1, <1>4 DEF BoundsInv, L
  <2>2. L * ((answers - 1) + 1) = L * (answers - 1) + L /\ L * (answers - 1) \in Nat
    BY <1>1, <2>1, Product
  <2>3. AnswerBytes = L * (answers - 1) + sent
    BY <1>4 DEF AnswerBytes, L
  <2>4. L * answers = L * (answers - 1) + L
    BY <1>1, <2>2
  <2>5. AnswerBytes \in 0 .. L * MaxAnswers
    BY <1>1, <1>2, <2>1, <2>2, <2>3, <2>4
  <2>. QED  BY <2>5 DEF L
<1>. QED  BY <1>3, <1>4

\* A log finds a free object.
LEMMA ObjectLeft ==
  ASSUME Absorbed, BoundsInv, AllowanceInv
  PROVE  Occupied < FIFO_BUFFER_SIZE
<1>. DEFINE q == FIFO_BUFFER_SIZE - 1
            x == backlog - SERIAL_BUFFERS_SIZE + LOG_LENGTH - 1
<1>1. backlog <= SERIAL_BUFFERS_SIZE + LOG_LENGTH * q
  <2>1. AnswerBytes \in 0 .. ANTENNA_MESSAGE_LENGTH * MaxAnswers
    BY AnswerBytesBounded
  <2>2. ANTENNA_MESSAGE_LENGTH * MaxAnswers \in Nat
    BY Constants, Product
  <2>. DEFINE c == MaxNoise + ANTENNA_MESSAGE_LENGTH * MaxAnswers
  <2>3. noise + AnswerBytes \in Nat /\ c \in Nat /\ noise + AnswerBytes <= c
    BY <2>1, <2>2, Constants DEF BoundsInv
  <2>4. others \in Nat /\ others <= MaxOthers
    BY Constants DEF BoundsInv
  <2>5. Allowance(c, MaxOthers) <= SERIAL_BUFFERS_SIZE + LOG_LENGTH * q
    BY DEF Absorbed
  <2>. HIDE DEF c, q
  <2>6. /\ Allowance(noise + AnswerBytes, others) \in Nat /\ Allowance(c, MaxOthers) \in Nat
        /\ Allowance(noise + AnswerBytes, others) <= Allowance(c, MaxOthers)
    BY <2>3, <2>4, Constants, AllowanceGrows
  <2>7. LOG_LENGTH * q \in Int /\ SERIAL_BUFFERS_SIZE \in Nat /\ backlog \in Nat
    BY Constants DEF q, BoundsInv
  <2>. QED  BY <2>5, <2>6, <2>7 DEF AllowanceInv
<1>2. CASE backlog <= SERIAL_BUFFERS_SIZE
  BY <1>2, Constants DEF Occupied
<1>3. CASE backlog > SERIAL_BUFFERS_SIZE
  <2>1. LOG_LENGTH * (q + 1) = LOG_LENGTH * q + LOG_LENGTH /\ LOG_LENGTH * q \in Nat
    BY Constants, Product
  <2>2. x \in Nat /\ x < LOG_LENGTH * (q + 1)
    BY <1>1, <1>3, <2>1, Constants DEF BoundsInv
  <2>3. x \div LOG_LENGTH < q + 1
    BY <2>2, Constants, Quotient
  <2>. QED  BY <1>3, <2>3, Constants DEF Occupied, BoundsInv
<1>. QED  BY <1>2, <1>3, Constants DEF BoundsInv

LEMMA LogFits ==
  ASSUME Absorbed, BoundsInv, AllowanceInv, NEW logs \in {0, 1}, NEW bytes \in Nat,
         LogsAndDrains(logs, bytes)
  PROVE  /\ backlog' \in Nat
         /\ backlog' # 0 => backlog' = backlog + logs * LOG_LENGTH - bytes
         /\ ~overrun'
<1>1. backlog' \in Nat /\ (backlog' # 0 => backlog' = backlog + logs * LOG_LENGTH - bytes)
  BY Constants DEF LogsAndDrains, BoundsInv
<1>2. ~(Occupied >= FIFO_BUFFER_SIZE)
  <2>1. CASE backlog <= SERIAL_BUFFERS_SIZE
    BY <2>1, Constants DEF Occupied
  <2>2. CASE backlog > SERIAL_BUFFERS_SIZE
    BY <2>2, ObjectLeft, Constants DEF Occupied, BoundsInv
  <2>. QED  BY <2>1, <2>2, Constants DEF BoundsInv
<1>3. overrun' = (logs > 0 /\ Occupied >= FIFO_BUFFER_SIZE)
  BY Zenon DEF LogsAndDrains
<1>. QED  BY <1>1, <1>2, <1>3, Zenon

AbsorbInv == BoundsInv /\ AllowanceInv /\ ~overrun

\* What Count and the guards say of n bytes of noise and a bytes of an answer
Counted(n, a) ==
  /\ n = 1 => noise < MaxNoise
  /\ a = 1 => Answers
  /\ a = 0 => sent' = sent
  /\ backlog' = 0 =>
       noise' = 0 /\ others' = 0 /\ answers' = IF sent' = 0 THEN 0 ELSE 1
  /\ backlog' # 0 =>
       /\ noise' = IF n = 1 THEN noise + 1 ELSE IF noise > 0 THEN MaxNoise ELSE 0
       /\ answers' = IF a = 1 /\ sent = 0 THEN answers + 1 ELSE answers
       /\ others' = others

\* A byte of noise, of an answer or of both leaves a log or not.
LEMMA ByteAbsorbed ==
  ASSUME Absorbed, AbsorbInv, NEW n \in {0, 1}, NEW a \in {0, 1}, n = 1 \/ a = 1,
         NEW logs \in {0, 1}, LogsAndDrains(logs, DRAIN), Counted(n, a)
  PROVE  AbsorbInv'
<1>. DEFINE L == ANTENNA_MESSAGE_LENGTH
<1>0. BoundsInv /\ AllowanceInv
  BY DEF AbsorbInv
<1>1. /\ backlog' \in Nat /\ ~overrun'
      /\ backlog' # 0 => backlog' = backlog + logs * LOG_LENGTH - DRAIN
  BY <1>0, LogFits, Constants
<1>2. /\ sent' \in 0 .. L - 1
      /\ a = 1 => sent' = IF sent + 1 = L THEN 0 ELSE sent + 1
  BY <1>0, SentInRange DEF BoundsInv, Counted
<1>3. a = 1 /\ sent = 0 => answers < MaxAnswers
  BY DEF Answers, Counted
<1>4. BoundsInv'
  <2>1. CASE backlog' = 0
    <3>1. sent' # 0 => MaxAnswers >= 1
      BY <1>0, <1>2, <1>3, Constants DEF BoundsInv, Counted
    <3>. QED  BY <1>1, <1>2, <2>1, <3>1, Constants DEF BoundsInv, Counted
  <2>2. CASE backlog' # 0
    BY <1>0, <1>1, <1>2, <1>3, <2>2, Constants DEF BoundsInv, Counted
  <2>. QED  BY <2>1, <2>2
<1>5. AllowanceInv'
  <2>1. AnswerBytes \in Nat /\ AnswerBytes' \in Nat
    <3>1. ANTENNA_MESSAGE_LENGTH * MaxAnswers \in Nat
      BY Constants, Product
    <3>2. AnswerBytes \in 0 .. ANTENNA_MESSAGE_LENGTH * MaxAnswers
      BY <1>0, AnswerBytesBounded
    <3>3. AnswerBytes' \in Nat
      <4>1. answers' \in Nat /\ sent' \in Nat /\ (sent' # 0 => answers' # 0)
        BY <1>4, Constants DEF BoundsInv
      <4>2. CASE sent' = 0
        <5>1. L * answers' \in Nat
          BY <4>1, Constants, Product
        <5>. QED  BY <4>2, <5>1 DEF AnswerBytes
      <4>3. CASE sent' # 0
        <5>0. answers' - 1 \in Nat
          BY <4>1, <4>3, Predecessor, Zenon
        <5>1. L * (answers' - 1) \in Nat
          BY <5>0, Constants, Product
        <5>. QED  BY <4>1, <4>3, <5>1 DEF AnswerBytes
      <4>. QED  BY <4>2, <4>3
    <3>. QED  BY <3>1, <3>2, <3>3
  <2>2. noise' \in Nat /\ others' \in Nat
    BY <1>4, Constants DEF BoundsInv
  <2>3. CASE backlog' = 0
    <3>1. 0 <= Allowance(noise' + AnswerBytes', others')
      BY <2>1, <2>2, AllowanceOfSum, Zenon
    <3>. QED  BY <2>3, <3>1 DEF AllowanceInv
  <2>4. CASE backlog' # 0
    <3>1. AnswerBytes' = AnswerBytes + a
      <4>1. CASE a = 0
        BY <2>1, <2>4, <4>1 DEF AnswerBytes, Counted
      <4>2. CASE a = 1 /\ sent = 0
        <5>1. answers \in Nat /\ answers' = answers + 1
          BY <1>0, <2>4, <4>2, Constants DEF BoundsInv, Counted
        <5>2. /\ L * (answers + 1) = L * answers + L /\ L * answers \in Nat
              /\ (answers + 1) - 1 = answers
          BY <5>1, Constants, Product
        <5>3. sent' = IF L = 1 THEN 0 ELSE 1
          BY <1>2, <4>2, Constants
        <5>. QED  BY <4>2, <5>1, <5>2, <5>3 DEF AnswerBytes
      <4>3. CASE a = 1 /\ sent # 0
        <5>1. answers' = answers /\ answers - 1 \in Nat /\ sent \in 1 .. L - 1
          BY <1>0, <2>4, <4>3, Constants DEF BoundsInv, Counted
        <5>. DEFINE k == answers - 1
        <5>2. answers = k + 1
          BY <1>0, <4>3, Constants DEF BoundsInv
        <5>. HIDE DEF k
        <5>3. L * (k + 1) = L * k + L /\ L * k \in Nat
          BY <5>1, Constants, Product DEF k
        <5>4. L * answers = L * k + L
          BY <5>2, <5>3
        <5>. QED  BY <1>2, <4>3, <5>1, <5>3, <5>4, Constants DEF AnswerBytes, k
      <4>. QED  BY <4>1, <4>2, <4>3
    <3>2. noise' >= noise + n /\ others' = others
      BY <1>0, <2>4, Constants DEF BoundsInv, Counted
    <3>. DEFINE before == Allowance(noise + AnswerBytes, others)
                after  == Allowance(noise' + AnswerBytes', others)
    <3>3. noise \in Nat /\ others \in Nat
      BY <1>0, Constants DEF BoundsInv
    <3>4. before \in Nat /\ after \in Nat /\ after >= before + Net
      BY <2>1, <2>2, <3>1, <3>2, <3>3, AllowanceForByte, Zenon
    <3>5. backlog' <= backlog + Net
      BY <1>0, <1>1, <2>4, Constants DEF Net, BoundsInv
    <3>6. backlog <= before
      BY <1>0 DEF AllowanceInv
    <3>. HIDE DEF before, after
    <3>7. backlog' <= after
      BY <1>0, <1>1, <3>4, <3>5, <3>6, Constants DEF Net, BoundsInv
    <3>. QED  BY <3>2, <3>7 DEF after, AllowanceInv
  <2>. QED  BY <2>3, <2>4
<1>. QED  BY <1>1, <1>4, <1>5 DEF AbsorbInv

LEMMA AbsorbInitially == ReceptionInit => AbsorbInv
<1>. SUFFICES ASSUME ReceptionInit PROVE AbsorbInv
  OBVIOUS
<1>1. BoundsInv
  BY Constants DEF ReceptionInit, BoundsInv
<1>2. AllowanceInv
  <2>1. ANTENNA_MESSAGE_LENGTH * 0 = 0 /\ Net * 0 = 0 /\ LOG_LENGTH * 0 = 0
    BY Constants DEF Net
  <2>2. AnswerBytes = 0
    BY <2>1 DEF ReceptionInit, AnswerBytes
  <2>3. Allowance(noise + AnswerBytes, others) = 0
    BY <2>1, <2>2 DEF ReceptionInit, Allowance
  <2>. QED  BY <2>3 DEF ReceptionInit, AllowanceInv
<1>. QED  BY <1>1, <1>2 DEF ReceptionInit, AbsorbInv

\* What the reader makes of a byte is a log or nothing.
LEMMA ByteLogs ==
  ASSUME NEW isHeader, NEW isNext, readsByte(isHeader, isNext)
  PROVE  \E logs \in {0, 1} : LogsAndDrains(logs, DRAIN)
BY DEF readsByte

LEMMA SilenceAbsorbed ==
  ASSUME Absorbed, AbsorbInv, sent = 0, sent' = 0, Count(FALSE, FALSE),
         NEW logs \in {0, 1}, LogsAndDrains(logs, DRAIN * TIMEOUT_BYTES)
  PROVE  AbsorbInv'
<1>0. BoundsInv /\ AllowanceInv
  BY DEF AbsorbInv
<1>1. DRAIN * TIMEOUT_BYTES \in Nat /\ LOG_LENGTH <= DRAIN * TIMEOUT_BYTES
  BY Constants, Product DEF Absorbed
<1>2. /\ backlog' \in Nat /\ ~overrun'
      /\ backlog' # 0 => backlog' = backlog + logs * LOG_LENGTH - DRAIN * TIMEOUT_BYTES
  BY <1>0, <1>1, LogFits
<1>3. /\ backlog' = 0 => noise' = 0 /\ others' = 0 /\ answers' = 0
      /\ backlog' # 0 => /\ noise' = IF noise > 0 THEN MaxNoise ELSE 0
                         /\ answers' = answers /\ others' = others
  BY DEF Count
<1>4. BoundsInv'
  BY <1>0, <1>2, <1>3, Constants DEF BoundsInv
<1>5. ANTENNA_MESSAGE_LENGTH * 0 = 0 /\ ANTENNA_MESSAGE_LENGTH * answers \in Nat
  BY <1>0, Constants, Product DEF BoundsInv
<1>6. AllowanceInv'
  <2>1. CASE backlog' = 0
    <3>1. AnswerBytes' = 0
      BY <1>3, <1>5, <2>1 DEF AnswerBytes
    <3>2. 0 <= Allowance(0 + 0, 0)
      BY AllowanceOfSum
    <3>. QED  BY <1>3, <2>1, <3>1, <3>2 DEF AllowanceInv
  <2>2. CASE backlog' # 0
    <3>1. AnswerBytes \in Nat /\ AnswerBytes' = AnswerBytes
      BY <1>3, <1>5, <2>2 DEF AnswerBytes
    <3>2. noise \in Nat /\ noise' \in Nat /\ noise <= noise' /\ others \in Nat /\ others' = others
      BY <1>0, <1>3, <2>2, Constants DEF BoundsInv
    <3>. DEFINE before == Allowance(noise + AnswerBytes, others)
                after  == Allowance(noise' + AnswerBytes', others)
    <3>3. before \in Nat /\ after \in Nat /\ before <= after
      <4>1. ASSUME NEW x \in Nat, NEW x2 \in Nat, NEW y \in Nat, NEW l \in Nat, x <= x2
            PROVE  /\ Allowance(x + y, l) \in Nat /\ Allowance(x2 + y, l) \in Nat
                   /\ Allowance(x + y, l) <= Allowance(x2 + y, l)
        <5>1. x + y \in Nat /\ x2 + y \in Nat /\ x + y <= x2 + y
          BY <4>1
        <5>. QED  BY <5>1, AllowanceGrows, SMTT(30)
      <4>. QED  BY <3>1, <3>2, <4>1, Zenon
    <3>4. backlog' <= backlog
      BY <1>0, <1>1, <1>2, <2>2, Constants DEF BoundsInv
    <3>5. backlog <= before
      BY <1>0 DEF AllowanceInv
    <3>. HIDE DEF before, after
    <3>6. backlog' <= after
      BY <1>0, <1>2, <3>3, <3>4, <3>5 DEF BoundsInv
    <3>. QED  BY <3>2, <3>6 DEF after, AllowanceInv
  <2>. QED  BY <2>1, <2>2
<1>. QED  BY <1>2, <1>4, <1>6 DEF AbsorbInv

LEMMA OtherLogAbsorbed ==
  ASSUME Absorbed, AbsorbInv, others < MaxOthers, LogsAndDrains(1, 0), others' = others + 1,
         UNCHANGED <<sent, noise, answers>>
  PROVE  AbsorbInv'
<1>0. BoundsInv /\ AllowanceInv
  BY DEF AbsorbInv
<1>1. /\ backlog' \in Nat /\ ~overrun'
      /\ backlog' # 0 => backlog' = backlog + LOG_LENGTH
  <2>1. /\ backlog' \in Nat /\ ~overrun'
        /\ backlog' # 0 => backlog' = backlog + 1 * LOG_LENGTH - 0
    BY <1>0, LogFits
  <2>. QED  BY <1>0, <2>1, Constants DEF BoundsInv
<1>2. BoundsInv'
  BY <1>0, <1>1, Constants DEF BoundsInv
<1>3. ANTENNA_MESSAGE_LENGTH * MaxAnswers \in Nat
  BY Constants, Product
<1>. DEFINE b == noise + AnswerBytes
<1>4. b \in Nat /\ others \in Nat /\ b' = b
  <2>1. AnswerBytes \in Nat /\ AnswerBytes' = AnswerBytes
    BY <1>0, <1>3, AnswerBytesBounded DEF AnswerBytes
  <2>2. noise \in Nat /\ others \in Nat /\ noise' = noise
    BY <1>0, Constants DEF BoundsInv
  <2>. QED  BY <2>1, <2>2
<1>5. backlog <= Allowance(b, others)
  BY <1>0 DEF AllowanceInv
<1>6. Allowance(b, others + 1) = Allowance(b, others) + LOG_LENGTH /\ Allowance(b, others) \in Nat
  BY <1>4, AllowanceGrows
<1>7. backlog' <= Allowance(b, others + 1)
  BY <1>0, <1>1, <1>5, <1>6, Constants DEF BoundsInv
<1>8. AllowanceInv'
  BY <1>4, <1>7 DEF AllowanceInv
<1>. QED  BY <1>1, <1>2, <1>8 DEF AbsorbInv

LEMMA AbsorbStep ==
  ASSUME Absorbed, AbsorbInv, [ReceptionNext]_receptionVars
  PROVE  AbsorbInv'
<1>1. CASE AnswerByte
  <2>1. PICK logs \in {0, 1} : LogsAndDrains(logs, DRAIN)
    BY <1>1, ByteLogs DEF AnswerByte
  <2>2. Answers /\ Count(FALSE, sent = 0)
    BY <1>1 DEF AnswerByte
  <2>3. Counted(0, 1)
    BY <2>2 DEF Count, Counted
  <2>. QED  BY <2>1, <2>3, ByteAbsorbed
<1>2. CASE NoiseByte
  <2>1. PICK logs \in {0, 1} : LogsAndDrains(logs, DRAIN)
    BY <1>2, ByteLogs DEF NoiseByte
  <2>2. noise < MaxNoise /\ sent' = sent /\ Count(TRUE, FALSE)
    BY <1>2 DEF NoiseByte, Noisy
  <2>3. Counted(1, 0)
    BY <2>2 DEF Count, Counted
  <2>. QED  BY <2>1, <2>3, ByteAbsorbed
<1>3. CASE AnswerByteChanged
  <2>1. PICK logs \in {0, 1} : LogsAndDrains(logs, DRAIN)
    BY <1>3, ByteLogs DEF AnswerByteChanged
  <2>2. noise < MaxNoise /\ Answers /\ Count(TRUE, sent = 0)
    BY <1>3 DEF AnswerByteChanged, Noisy
  <2>3. Counted(1, 1)
    BY <2>2 DEF Count, Counted
  <2>. QED  BY <2>1, <2>3, ByteAbsorbed
<1>4. CASE AnswerByteLost
  <2>1. LogsAndDrains(0, DRAIN) /\ noise < MaxNoise /\ Answers /\ Count(TRUE, sent = 0)
    BY <1>4 DEF AnswerByteLost, Noisy
  <2>2. Counted(1, 1)
    BY <2>1 DEF Count, Counted
  <2>. QED  BY <2>1, <2>2, ByteAbsorbed
<1>5. CASE Silence
  <2>1. PICK logs \in {0, 1} : LogsAndDrains(logs, DRAIN * TIMEOUT_BYTES)
    BY <1>5 DEF Silence
  <2>2. sent = 0 /\ sent' = 0 /\ Count(FALSE, FALSE)
    BY <1>5 DEF Silence
  <2>. QED  BY <2>1, <2>2, SilenceAbsorbed
<1>6. CASE OtherLog
  <2>1. /\ others < MaxOthers /\ LogsAndDrains(1, 0) /\ others' = others + 1
        /\ UNCHANGED <<sent, noise, answers>>
    BY <1>6 DEF OtherLog, rxVars
  <2>. QED  BY <2>1, OtherLogAbsorbed
<1>7. CASE UNCHANGED <<rxVars, lineVars>>
  BY <1>7 DEF rxVars, lineVars, AbsorbInv, BoundsInv, AllowanceInv, AnswerBytes
<1>8. CASE UNCHANGED receptionVars
  BY <1>7, <1>8 DEF receptionVars
<1>. QED
  BY <1>1, <1>2, <1>3, <1>4, <1>5, <1>6, <1>7, <1>8 DEF ReceptionNext, Reception

(* Fifo_log has a free object for every log (main.c), for every size of the *)
(* queues and every speed of the lines: if all bytes of the noise and of    *)
(* the answers of a burst were logs, and these and the logs of the other    *)
(* threads fit in the queue of the driver and all objects but one.          *)
THEOREM BurstsAbsorbed == ASSUME Absorbed PROVE ReceptionSpec => []LogsKept
<1>1. AbsorbInv /\ [ReceptionNext]_receptionVars => AbsorbInv'
  BY AbsorbStep
<1>2. AbsorbInv => LogsKept
  BY DEF AbsorbInv, LogsKept
<1>. QED  BY <1>1, <1>2, AbsorbInitially, PTL DEF ReceptionSpec
=============================================================================
