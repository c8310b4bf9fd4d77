----------------------------- MODULE GpsProofs -----------------------------
(***************************************************************************)
(* After lost bytes gpsThread swallows one sentence at most: it is in step *)
(* with the receiver, or behind it by what a burst has left behind, which  *)
(* ends within the next whole sentence, since a sentence is longer than    *)
(* what the thread reads of it and has only one header.                    *)
(***************************************************************************)
EXTENDS Gps, TLAPS

Bytes == [place : Nat, date : Nat, zda : BOOLEAN]

TypeInv ==
  /\ date \in Nat /\ zda \in BOOLEAN /\ at \in 0 .. (SentenceLength - 1)
  /\ whole \in BOOLEAN /\ bursts \in Nat /\ missed \in Nat
  /\ reading \in {"header", "type", "date"} /\ buf \in Seq(Bytes)
  /\ IF reading = "header" THEN buf = <<>> ELSE Len(buf) < Needed(reading)

\* The thread has read what the receiver has sent of the sentence, ...
InType ==
  /\ reading = "type" /\ at \in 1 .. TypeLength /\ Len(buf) = at - 1
  /\ \A k \in 1 .. Len(buf) : buf[k] = Byte(k + 1)

InDate ==
  /\ reading = "date" /\ zda /\ at \in (TypeLength + 1) .. (TypeLength + DateLength)
  /\ Len(buf) = at - (TypeLength + 1)
  /\ \A k \in 1 .. Len(buf) : buf[k] = Byte(TypeLength + 1 + k)

Done ==
  /\ reading = "header" /\ at > TypeLength
  /\ zda => at > TypeLength + DateLength /\ clock = date

InStep == (at = 0 /\ reading = "header") \/ InType \/ InDate \/ Done

\* ... or it is busy with what came before a burst, or, since that is over,
\* waits for the next sentence.  The type or date it reads is complete before
\* the sentence has sent as many bytes.
Behind ==
  \/ ~whole
  \/ reading = "header" /\ at > 0
  \/ reading # "header" /\ at <= Len(buf)

\* It was started in the middle of a sentence.
FirstSentence == bursts = 0 => reading = "header" /\ at > 0 /\ ~whole

GpsInv ==
  /\ TypeInv /\ ClockFollows
  /\ InStep \/ (missed = 0 /\ Behind /\ FirstSentence)

-----------------------------------------------------------------------------
LEMMA Lengths ==
  /\ TypeLength \in Nat \ {0} /\ DateLength \in Nat \ {0} /\ Dates \in Nat \ {0}
  /\ SentenceLength \in Nat
  /\ TypeLength + DateLength < SentenceLength
BY GpsAssumption DEF GpsAssumption, SentenceLength

LEMMA Remainders ==
  ASSUME NEW a \in Nat, NEW b \in Nat \ {0}
  PROVE  a % b \in 0 .. (b - 1) /\ (a < b => a % b = a) /\ b % b = 0
OBVIOUS

(* The receiver goes on within the sentence, or to another one.             *)
LEMMA Sender ==
  ASSUME TypeInv, NEW n \in Nat \ {0}, NEW lost \in BOOLEAN, GoesOn(n, lost)
  PROVE  /\ date' \in Nat /\ zda' \in BOOLEAN /\ at' \in 0 .. (SentenceLength - 1)
         /\ whole' \in BOOLEAN
         /\ at + n < SentenceLength => /\ at' = at + n /\ UNCHANGED <<date, zda>>
                                       /\ whole' = (whole /\ ~lost)
         /\ at + n = SentenceLength => at' = 0
         /\ lost /\ at' # 0 => ~whole'
<1>1. at + n \in Nat /\ at \in Nat /\ n \in Nat /\ date + 1 \in Nat
  BY Lengths DEF TypeInv
<1>2. SentenceLength \in Nat \ {0}
  BY Lengths
<1>3. /\ (at + n) % SentenceLength \in 0 .. (SentenceLength - 1)
      /\ at + n < SentenceLength => (at + n) % SentenceLength = at + n
      /\ SentenceLength % SentenceLength = 0
  BY <1>1, <1>2, Remainders
<1>4. (date + 1) % Dates \in Nat
  BY <1>1, Lengths, Remainders
<1>5. at' = (at + n) % SentenceLength
  BY DEF GoesOn
<1>6. date' \in Nat /\ zda' \in BOOLEAN /\ whole' \in BOOLEAN
  BY <1>4 DEF GoesOn, TypeInv
<1>7. ASSUME at + n < SentenceLength
      PROVE  UNCHANGED <<date, zda>> /\ whole' = (whole /\ ~lost)
  BY <1>1, <1>2, <1>7 DEF GoesOn
<1>8. ASSUME lost, at' # 0
      PROVE  ~whole'
  BY <1>8 DEF GoesOn
<1> QED BY <1>3, <1>5, <1>6, <1>7, <1>8

LEMMA Parts == \A k : Byte(k).place = k /\ Byte(k).zda = zda /\ Byte(k).date = date
BY DEF Byte

(* A byte and what is read of a sentence.                                   *)
LEMMA OneMore ==
  ASSUME TypeInv, NEW byte \in Bytes
  PROVE  /\ Len(buf) \in Nat /\ Append(buf, byte) \in Seq(Bytes)
         /\ Len(Append(buf, byte)) = Len(buf) + 1
         /\ \A k \in 1 .. Len(buf) : Append(buf, byte)[k] = buf[k]
         /\ Append(buf, byte)[Len(buf) + 1] = byte
BY DEF TypeInv

(* A byte that arrives is the next one.                                     *)
LEMMA Arrival ==
  ASSUME TypeInv, ByteArrives
  PROVE  /\ Byte(at + 1) \in Bytes /\ at \in Nat
         /\ date' \in Nat /\ zda' \in BOOLEAN /\ at' \in 0 .. (SentenceLength - 1)
         /\ whole' \in BOOLEAN
         /\ at + 1 < SentenceLength => /\ at' = at + 1 /\ UNCHANGED <<date, zda>>
                                       /\ whole' = whole
         /\ ~(at + 1 < SentenceLength) => at + 1 = SentenceLength /\ at' = 0
<1>1. at \in Nat /\ at + 1 \in Nat /\ at < SentenceLength /\ date \in Nat
  BY Lengths DEF TypeInv
<1>2. zda \in BOOLEAN /\ whole \in BOOLEAN
  BY DEF TypeInv
<1>3. Byte(at + 1) \in Bytes
  BY <1>1, <1>2 DEF Bytes, Byte
<1>4. /\ date' \in Nat /\ zda' \in BOOLEAN /\ at' \in 0 .. (SentenceLength - 1)
      /\ whole' \in BOOLEAN
      /\ at + 1 < SentenceLength => /\ at' = at + 1 /\ UNCHANGED <<date, zda>>
                                    /\ whole' = (whole /\ ~FALSE)
      /\ at + 1 = SentenceLength => at' = 0
  <2>1. 1 \in Nat \ {0} /\ FALSE \in BOOLEAN
    OBVIOUS
  <2>2. GoesOn(1, FALSE)
    BY DEF ByteArrives
  <2> QED BY <2>1, <2>2, Sender, Zenon
<1>5. (whole /\ ~FALSE) = whole
  BY <1>2
<1>6. ~(at + 1 < SentenceLength) => at + 1 = SentenceLength
  BY <1>1, Lengths
<1> QED BY <1>1, <1>3, <1>4, <1>5, <1>6

(* The thread keeps less than it needs.                                     *)
LEMMA ThreadTypes ==
  ASSUME TypeInv, ByteArrives
  PROVE  TypeInv'
<1> DEFINE byte == Byte(at + 1)
<1>1. byte \in Bytes
  BY Arrival
<1>2. /\ date' \in Nat /\ zda' \in BOOLEAN /\ at' \in 0 .. (SentenceLength - 1)
      /\ whole' \in BOOLEAN
  BY Arrival
<1>3. bursts' \in Nat /\ missed' \in Nat
  BY DEF ByteArrives, TypeInv
<1>4. /\ reading' \in {"header", "type", "date"} /\ buf' \in Seq(Bytes)
      /\ IF reading' = "header" THEN buf' = <<>> ELSE Len(buf') < Needed(reading')
  <2>0. <<>> \in Seq(Bytes) /\ Len(<<>>) = 0
    OBVIOUS
  <2>1. CASE ReadsHeader(byte)
    BY <2>0, <2>1, Lengths DEF ReadsHeader, TypeInv, Needed
  <2>2. CASE ReadsMore(byte)
    BY <1>1, <2>2, OneMore DEF ReadsMore, TypeInv
  <2>3. CASE ReadsType(byte)
    <3>1. buf' = <<>> /\ reading' \in {"date", "header"}
      BY <2>3 DEF ReadsType
    <3>2. 0 < Needed("date")
      BY Lengths DEF Needed
    <3> QED BY <2>0, <3>1, <3>2
  <2>4. CASE ReadsDate(byte)
    BY <2>0, <2>4 DEF ReadsDate
  <2> QED BY <2>1, <2>2, <2>3, <2>4 DEF ByteArrives
<1> QED BY <1>2, <1>3, <1>4 DEF TypeInv

(* A thread in step stays in step, and has the date of a ZDA sentence in    *)
(* the clock when the sentence ends.                                        *)
LEMMA StaysInStep ==
  ASSUME TypeInv, InStep, ByteArrives
  PROVE  InStep' /\ missed' \in {0, missed}
<1> DEFINE byte == Byte(at + 1)
           more == Append(buf, byte)
           lasts == at + 1 < SentenceLength
<1>1. byte \in Bytes
  BY Arrival
<1>2. /\ lasts => at' = at + 1 /\ UNCHANGED <<date, zda>>
      /\ ~lasts => at + 1 = SentenceLength /\ at' = 0
      /\ at \in Nat
  BY Arrival
<1>3. /\ Len(buf) \in Nat /\ Len(more) = Len(buf) + 1
      /\ \A k \in 1 .. Len(buf) : more[k] = buf[k]
      /\ more[Len(buf) + 1] = byte
  BY <1>1, OneMore
<1>4. byte.place = at + 1 /\ byte.zda = zda /\ byte.date = date
  BY DEF Byte
<1>5. ASSUME at + 1 # SentenceLength
      PROVE  missed' = missed
  BY <1>5 DEF ByteArrives
<1>6. CASE at = 0 /\ reading = "header"
  <2>1. ReadsHeader(byte)
    BY <1>6 DEF ByteArrives, ReadsMore, ReadsType, ReadsDate
  <2>2. reading' = "type" /\ buf' = buf /\ buf = <<>>
    BY <1>4, <1>6, <2>1 DEF ReadsHeader, Header, TypeInv
  <2>3. lasts /\ 1 \in 1 .. TypeLength
    BY <1>6, Lengths
  <2>4. InType'
    BY <1>2, <1>6, <2>2, <2>3 DEF InType
  <2> QED BY <1>5, <1>2, <2>3, <2>4 DEF InStep
<1>7. CASE InType
  <2>1. lasts /\ at + 1 \in Nat
    BY <1>2, <1>7, Lengths DEF InType
  <2>2. \A k \in 1 .. (Len(buf) + 1) : more[k] = Byte(k + 1)
    <3>1. Len(buf) + 1 = at
      BY <1>2, <1>7 DEF InType
    <3>2. \A k \in 1 .. Len(buf) : more[k] = Byte(k + 1)
      BY <1>3, <1>7 DEF InType
    <3>3. \A k \in 1 .. (Len(buf) + 1) : k \in 1 .. Len(buf) \/ k = Len(buf) + 1
      BY <1>3
    <3> HIDE DEF more
    <3> QED BY <1>3, <3>1, <3>2, <3>3
  <2>3. CASE ReadsMore(byte)
    <3>1. Len(buf) + 1 < TypeLength /\ reading' = "type" /\ buf' = more
      BY <1>7, <2>3 DEF ReadsMore, InType, Needed
    <3>2. at' \in 1 .. TypeLength /\ Len(buf') = at' - 1
      BY <1>2, <1>3, <1>7, <2>1, <3>1, Lengths DEF InType
    <3>3. \A k \in 1 .. Len(buf') : buf'[k] = Byte(k + 1)'
      <4>1. \A k \in 1 .. (Len(buf) + 1) : more[k] = Byte(k + 1)'
        BY <1>2, <2>1, <2>2 DEF Byte
      <4> QED BY <1>3, <3>1, <4>1
    <3> QED BY <1>2, <1>5, <2>1, <3>1, <3>2, <3>3, Lengths DEF InStep, InType
  <2>4. CASE ReadsType(byte)
    <3>1. at = TypeLength /\ Len(buf) + 1 = TypeLength
      <4>1. Len(buf) + 1 = Needed("type") /\ Len(buf) = at - 1
        BY <1>7, <2>4 DEF ReadsType, InType
      <4>2. Needed("type") = TypeLength
        BY DEF Needed
      <4> QED BY <1>2, <4>1, <4>2
    <3>2. at' = TypeLength + 1 /\ zda' = zda
      BY <1>2, <2>1, <3>1
    <3>3. \A k \in 1 .. TypeLength : more[k].zda = zda /\ more[k].place = k + 1
      <4> HIDE DEF more
      <4> QED BY <2>2, <3>1, Parts
    <3>4. IsZda(more) <=> zda
      <4>1. 1 \in 1 .. TypeLength
        BY Lengths
      <4> HIDE DEF more
      <4>2. ASSUME IsZda(more)  PROVE zda
        BY <3>3, <4>1, <4>2 DEF IsZda
      <4>3. ASSUME zda  PROVE IsZda(more)
        BY <3>3, <4>3 DEF IsZda
      <4> QED BY <4>2, <4>3
    <3>5. CASE zda
      <4>1. reading' = "date" /\ buf' = <<>>
        BY <2>4, <3>4, <3>5 DEF ReadsType
      <4>2. InDate'
        BY <3>2, <3>5, <4>1, Lengths DEF InDate
      <4> QED BY <1>5, <2>1, <4>2, Lengths DEF InStep
    <3>6. CASE ~zda
      <4>1. reading' = "header"
        BY <2>4, <3>4, <3>6 DEF ReadsType
      <4>2. Done'
        BY <3>2, <3>6, <4>1, Lengths DEF Done
      <4> QED BY <1>5, <2>1, <4>2, Lengths DEF InStep
    <3> QED BY <3>5, <3>6
  <2> QED
    BY <1>7, <2>3, <2>4 DEF ByteArrives, InType, ReadsHeader, ReadsDate
<1>8. CASE InDate
  <2>1. \A k \in 1 .. (Len(buf) + 1) : more[k] = Byte(TypeLength + 1 + k)
    <3>1. TypeLength + 1 + (Len(buf) + 1) = at + 1
      BY <1>2, <1>3, <1>8, Lengths DEF InDate
    <3>2. \A k \in 1 .. Len(buf) : more[k] = Byte(TypeLength + 1 + k)
      BY <1>3, <1>8 DEF InDate
    <3>3. \A k \in 1 .. (Len(buf) + 1) : k \in 1 .. Len(buf) \/ k = Len(buf) + 1
      BY <1>3
    <3> HIDE DEF more
    <3> QED BY <1>3, <3>1, <3>2, <3>3
  <2>2. CASE ReadsMore(byte)
    <3>1. Len(buf) + 1 < DateLength /\ reading' = "date" /\ buf' = more
      BY <1>8, <2>2 DEF ReadsMore, InDate, Needed
    <3>2. lasts /\ at + 1 <= TypeLength + DateLength
      BY <1>2, <1>3, <1>8, <3>1, Lengths DEF InDate
    <3>3. /\ at' \in (TypeLength + 1) .. (TypeLength + DateLength)
          /\ Len(buf') = at' - (TypeLength + 1)
      BY <1>2, <1>3, <1>8, <3>1, <3>2, Lengths DEF InDate
    <3>4. \A k \in 1 .. Len(buf') : buf'[k] = Byte(TypeLength + 1 + k)'
      <4>1. \A k \in 1 .. (Len(buf) + 1) : more[k] = Byte(TypeLength + 1 + k)'
        BY <1>2, <2>1, <3>2 DEF Byte
      <4> QED BY <1>3, <3>1, <4>1
    <3>5. InDate'
      BY <1>2, <1>8, <3>1, <3>2, <3>3, <3>4 DEF InDate
    <3> QED BY <1>5, <3>2, <3>5, Lengths DEF InStep
  <2>3. CASE ReadsDate(byte)
    <3>1. Len(buf) + 1 = DateLength /\ reading' = "header" /\ clock' = DateOf(more)
      BY <1>8, <2>3 DEF ReadsDate, InDate, Needed
    <3>2. at = TypeLength + DateLength
      BY <1>2, <1>3, <1>8, <3>1, Lengths DEF InDate
    <3>3. \A k \in 1 .. DateLength :
            /\ more[k].place = TypeLength + 1 + k
            /\ more[k].zda = zda /\ more[k].date = date
      <4> HIDE DEF more
      <4> QED BY <2>1, <3>1, Parts
    <3>4. clock' = date
      <4>1. 1 \in 1 .. DateLength /\ \A k \in Nat : TypeLength + 1 + k = 1 + TypeLength + k
        BY Lengths
      <4>2. zda
        BY <1>8 DEF InDate
      <4> HIDE DEF more
      <4>3. \A k \in 1 .. DateLength :
              /\ more[k].place = 1 + TypeLength + k
              /\ more[k].zda /\ more[k].date = more[1].date
        <5>1. more[1].date = date
          BY <3>3, <4>1
        <5>2. \A k \in 1 .. DateLength : k \in Nat
          BY Lengths
        <5> QED BY <3>3, <4>1, <4>2, <5>1, <5>2
      <4>4. DateOf(more) = more[1].date
        BY <4>3 DEF DateOf
      <4> QED BY <3>1, <3>3, <4>1, <4>4
    <3>5. lasts => Done'
      BY <1>2, <3>1, <3>2, <3>4, Lengths DEF Done
    <3>6. missed' \in {0, missed}
      BY <3>4 DEF ByteArrives
    <3> QED BY <1>2, <3>1, <3>5, <3>6 DEF InStep
  <2> QED
    BY <1>8, <2>2, <2>3 DEF ByteArrives, InDate, ReadsHeader, ReadsType
<1>9. CASE Done
  <2>1. ReadsHeader(byte)
    BY <1>9 DEF Done, ByteArrives, ReadsMore, ReadsType, ReadsDate
  <2>2. reading' = "header" /\ clock' = clock
    <3>1. at + 1 # 1
      BY <1>2, <1>9, Lengths DEF Done
    <3> QED BY <1>4, <2>1, <3>1 DEF ReadsHeader, Header
  <2>3. lasts => Done'
    BY <1>2, <1>9, <2>2, Lengths DEF Done
  <2>4. missed' \in {0, missed}
    BY <1>9, <2>2 DEF ByteArrives, Done
  <2> QED BY <1>2, <2>2, <2>3, <2>4 DEF InStep
<1> QED BY <1>6, <1>7, <1>8, <1>9 DEF InStep

(* A thread that is behind catches up before the next whole sentence: what  *)
(* it reads is over before the end of this one, and no byte of it but the   *)
(* first is a header.                                                       *)
LEMMA CatchesUp ==
  ASSUME TypeInv, missed = 0, Behind, FirstSentence, ByteArrives
  PROVE  /\ InStep' \/ (missed' = 0 /\ Behind' /\ FirstSentence')
         /\ missed' \in {0, 1} /\ (bursts = 0 => missed' = 0)
<1> DEFINE byte == Byte(at + 1)
           more == Append(buf, byte)
           lasts == at + 1 < SentenceLength
<1>1. /\ at \in Nat /\ whole \in BOOLEAN /\ byte.place = at + 1
      /\ lasts => at' = at + 1 /\ whole' = whole
      /\ ~lasts => at + 1 = SentenceLength /\ at' = 0
  <2>1. whole \in BOOLEAN
    BY DEF TypeInv
  <2> QED BY <2>1, Arrival, Parts
<1>2. TypeInv' /\ bursts' = bursts
  BY ThreadTypes DEF ByteArrives
<1>3. /\ Len(buf) \in Nat /\ Len(more) = Len(buf) + 1
      /\ reading # "header" => Len(buf) < Needed(reading)
  BY Arrival, OneMore DEF TypeInv
<1>4. Needed("type") = TypeLength /\ Needed("date") = DateLength
  BY DEF Needed
<1>5. reading \in {"header", "type", "date"} /\ reading' \in {"header", "type", "date"}
  BY <1>2 DEF TypeInv
<1>6. reading = "header" /\ at > 0 => reading' = "header"
  <2> SUFFICES ASSUME reading = "header", at > 0  PROVE reading' = "header"
    OBVIOUS
  <2>1. ReadsHeader(byte)
    BY DEF ByteArrives, ReadsMore, ReadsType, ReadsDate
  <2>2. byte.place # 1
    BY <1>1
  <2> QED BY <2>1, <2>2 DEF ReadsHeader, Header
<1>7. CASE ~whole
  <2>1. missed' = 0
    BY <1>7 DEF ByteArrives
  <2>2. CASE lasts
    <3>1. Behind'
      BY <1>1, <1>7, <2>2 DEF Behind
    <3>2. FirstSentence'
      BY <1>1, <1>2, <1>6, <1>7, <2>2 DEF FirstSentence
    <3> QED BY <2>1, <3>1, <3>2
  <2>3. CASE ~lasts
    <3>1. at' = 0
      BY <1>1, <2>3
    <3>2. CASE reading' = "header"
      BY <2>1, <3>1, <3>2 DEF InStep
    <3>3. CASE reading' # "header"
      <4>1. Behind'
        <5>1. Len(buf') \in Nat
          BY <1>2 DEF TypeInv
        <5> QED BY <3>1, <3>3, <5>1 DEF Behind
      <4>2. FirstSentence'
        BY <1>2, <1>6, <3>3 DEF FirstSentence
      <4> QED BY <2>1, <4>1, <4>2
    <3> QED BY <3>2, <3>3
  <2> QED BY <2>2, <2>3
<1>8. CASE whole
  <2>1. bursts # 0
    BY <1>8 DEF FirstSentence
  <2>2. FirstSentence'
    BY <1>2, <2>1 DEF FirstSentence
  <2>3. missed' \in {0, 1}
    BY DEF ByteArrives
  <2>4. CASE reading = "header" /\ at > 0
    <3>1. CASE lasts
      <4>1. missed' = 0
        BY <1>1, <3>1 DEF ByteArrives
      <4>2. Behind'
        BY <1>1, <1>6, <2>4, <3>1 DEF Behind
      <4> QED BY <2>1, <2>2, <4>1, <4>2
    <3>2. CASE ~lasts
      BY <1>1, <1>6, <2>1, <2>3, <2>4, <3>2 DEF InStep
    <3> QED BY <3>1, <3>2
  <2>5. CASE reading # "header" /\ at <= Len(buf)
    <3>1. lasts
      BY <1>1, <1>3, <1>4, <1>5, <2>5, Lengths
    <3>2. missed' = 0
      BY <1>1, <3>1 DEF ByteArrives
    <3>3. at' = at + 1 /\ at' > 0
      BY <1>1, <3>1
    <3>4. CASE ReadsMore(byte)
      <4>1. reading' # "header" /\ buf' = more
        BY <2>5, <3>4 DEF ReadsMore
      <4>2. at' <= Len(buf')
        BY <1>1, <1>3, <2>5, <3>3, <4>1
      <4> QED BY <2>1, <2>2, <3>2, <4>1, <4>2 DEF Behind
    <3>5. CASE ReadsType(byte)
      <4>1. more[TypeLength] = byte /\ TypeLength \in 1 .. TypeLength
        <5>1. Len(buf) + 1 = TypeLength
          BY <1>4, <3>5 DEF ReadsType
        <5> QED BY <5>1, Arrival, OneMore, Lengths
      <4>2. byte.place < TypeLength + 1
        <5>1. Len(buf) + 1 = TypeLength
          BY <1>4, <3>5 DEF ReadsType
        <5> QED BY <1>1, <1>3, <2>5, <5>1, Lengths
      <4>3. byte.place # TypeLength + 1
        BY <1>1, <4>2, Lengths
      <4>4. ~IsZda(more)
        BY <4>1, <4>3 DEF IsZda
      <4>5. reading' = "header"
        BY <3>5, <4>4 DEF ReadsType
      <4> QED BY <2>1, <2>2, <3>2, <3>3, <4>5 DEF Behind
    <3>6. CASE ReadsDate(byte)
      <4>1. reading' = "header"
        BY <3>6 DEF ReadsDate
      <4> QED BY <2>1, <2>2, <3>2, <3>3, <4>1 DEF Behind
    <3> QED BY <2>5, <3>4, <3>5, <3>6 DEF ByteArrives, ReadsHeader
  <2> QED BY <1>8, <2>4, <2>5 DEF Behind
<1> QED BY <1>1, <1>7, <1>8

(* A burst leaves the thread behind, unless it ends with the sentence and   *)
(* the thread waits for a header.                                           *)
LEMMA FallsBehind ==
  ASSUME TypeInv, BurstLost
  PROVE  TypeInv' /\ missed' = 0 /\ bursts' # 0 /\ (InStep' \/ Behind')
<1>1. PICK n \in 1 .. MaxBurst : GoesOn(n, TRUE)
  BY DEF BurstLost
<1>2. n \in Nat \ {0} /\ TRUE \in BOOLEAN
  BY GpsAssumption DEF GpsAssumption
<1>3. /\ date' \in Nat /\ zda' \in BOOLEAN /\ at' \in 0 .. (SentenceLength - 1)
      /\ whole' \in BOOLEAN /\ (TRUE /\ at' # 0 => ~whole')
  BY <1>1, <1>2, Sender, Zenon
<1>4. /\ bursts \in Nat /\ bursts' = bursts + 1 /\ missed' = 0
      /\ reading' = reading /\ buf' = buf
  BY DEF BurstLost, TypeInv
<1>5. TypeInv'
  BY <1>3, <1>4 DEF TypeInv, Needed
<1>6. CASE at' # 0
  BY <1>3, <1>4, <1>5, <1>6 DEF Behind
<1>7. CASE at' = 0 /\ reading = "header"
  BY <1>4, <1>5, <1>7 DEF InStep
<1>8. CASE at' = 0 /\ reading # "header"
  <2>1. Len(buf') \in Nat
    BY <1>5 DEF TypeInv
  <2>2. Behind'
    BY <1>4, <1>8, <2>1 DEF Behind
  <2> QED BY <1>4, <1>5, <2>2
<1> QED BY <1>6, <1>7, <1>8

LEMMA Initially == Init => GpsInv
<1> SUFFICES ASSUME Init PROVE GpsInv
  OBVIOUS
<1>1. TypeInv
  BY Lengths DEF Init, TypeInv
<1>2. ClockFollows
  BY DEF Init, ClockFollows
<1>3. InStep \/ (missed = 0 /\ Behind /\ FirstSentence)
  <2>1. CASE at = 0
    BY <2>1 DEF Init, InStep
  <2>2. CASE at # 0
    <3>1. at > 0
      BY <2>2, Lengths DEF TypeInv, Init
    <3>2. ~whole
      BY <2>2 DEF Init
    <3> QED BY <3>1, <3>2 DEF Init, Behind, FirstSentence
  <2> QED BY <2>1, <2>2
<1> QED BY <1>1, <1>2, <1>3 DEF GpsInv

LEMMA Inductive == GpsInv /\ [Next]_gpsVars => GpsInv'
<1> SUFFICES ASSUME GpsInv, [Next]_gpsVars PROVE GpsInv'
  OBVIOUS
<1>1. TypeInv /\ missed \in Nat /\ bursts \in Nat
  BY DEF GpsInv, TypeInv
<1>2. CASE ByteArrives
  <2>1. TypeInv' /\ bursts' = bursts
    BY <1>1, <1>2, ThreadTypes DEF ByteArrives
  <2>2. CASE InStep
    <3>1. InStep' /\ missed' \in {0, missed}
      BY <1>1, <1>2, <2>2, StaysInStep
    <3>2. ClockFollows'
      BY <1>1, <2>1, <3>1 DEF GpsInv, ClockFollows
    <3> QED BY <2>1, <3>1, <3>2 DEF GpsInv
  <2>3. CASE missed = 0 /\ Behind /\ FirstSentence
    <3>1. /\ InStep' \/ (missed' = 0 /\ Behind' /\ FirstSentence')
          /\ missed' \in {0, 1} /\ (bursts = 0 => missed' = 0)
      BY <1>1, <1>2, <2>3, CatchesUp
    <3>2. ClockFollows'
      BY <2>1, <3>1 DEF ClockFollows
    <3> QED BY <2>1, <3>1, <3>2 DEF GpsInv
  <2> QED BY <2>2, <2>3 DEF GpsInv
<1>3. CASE BurstLost
  <2>1. TypeInv' /\ missed' = 0 /\ bursts' # 0 /\ (InStep' \/ Behind')
    BY <1>1, <1>3, FallsBehind
  <2>2. ClockFollows' /\ FirstSentence'
    BY <2>1 DEF ClockFollows, FirstSentence
  <2> QED BY <2>1, <2>2 DEF GpsInv
<1>4. CASE Timeout \/ UNCHANGED gpsVars
  <2>1. UNCHANGED <<date, zda, at, whole, bursts, reading, buf, clock, missed>>
    BY <1>4 DEF Timeout, gpsVars, senderVars
  <2>2. TypeInv' /\ ClockFollows'
    BY <2>1 DEF GpsInv, TypeInv, Needed, ClockFollows
  <2>3. (InStep <=> InStep') /\ (Behind <=> Behind') /\ (FirstSentence <=> FirstSentence')
    BY <2>1 DEF InStep, InType, InDate, Done, Byte, Behind, FirstSentence
  <2> QED BY <2>1, <2>2, <2>3 DEF GpsInv
<1> QED BY <1>2, <1>3, <1>4 DEF Next

(* For all lengths of the parts of a sentence, all dates and any number of  *)
(* bursts of any length: the clock holds the date of each whole ZDA         *)
(* sentence at its end, and a burst costs one of them at most (gpsThread).  *)
THEOREM ClockIsRight == Spec => []ClockFollows
<1>1. GpsInv => ClockFollows
  BY DEF GpsInv
<1> QED BY <1>1, Initially, Inductive, PTL DEF Spec
=============================================================================
