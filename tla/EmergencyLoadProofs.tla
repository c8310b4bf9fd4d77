------------------------ MODULE EmergencyLoadProofs ------------------------
(***************************************************************************)
(* How many emergencies the button can ask for in one go: as many as       *)
(* Fifo_order has places, and one more, which the antenna thread takes out *)
(* before the last comes.                                                  *)
(***************************************************************************)
EXTENDS EmergencyLoad, TLAPS

\* What n polls take
Polls(n) == n * USER_BUTTON_TIMEOUT

TypeInv ==
  /\ queued \in Nat /\ toPulse \in Nat \ {0} /\ asked \in 0 .. MaxAsked
  /\ serving \in BOOLEAN /\ halted \in BOOLEAN

\* A thread that does not sleep sees the next pulse within a period; one
\* that sleeps has taken an order, and when none of the orders was taken the
\* polls that posted them are within a period.
Taken ==
  /\ queued <= asked
  /\ serving => queued < asked
  /\ ~serving => toPulse <= PulsePeriod
  /\ queued = asked => toPulse + Polls(asked) <= PulsePeriod + USER_BUTTON_TIMEOUT

Inv == TypeInv /\ Taken /\ ~halted

\* A pulse comes during as many polls as Fifo_order has places, and no more
\* emergencies than these polls and one are asked for.
Bounded ==
  /\ MaxAsked <= FIFO_BUFFER_SIZE + 1
  /\ PulsePeriod <= Polls(FIFO_BUFFER_SIZE)

LEMMA PollsType ==
  ASSUME NEW n \in Nat
  PROVE  /\ Polls(n) \in Nat /\ Polls(n + 1) = Polls(n) + USER_BUTTON_TIMEOUT
         /\ Polls(0) = 0
<1>1. USER_BUTTON_TIMEOUT \in Nat
  BY LoadAssumption
<1>2. n * USER_BUTTON_TIMEOUT \in Nat
  BY <1>1
<1>3. (n + 1) * USER_BUTTON_TIMEOUT = n * USER_BUTTON_TIMEOUT + USER_BUTTON_TIMEOUT
  BY <1>1
<1> QED BY <1>1, <1>2, <1>3 DEF Polls

(* What the antenna thread does during an iteration of main.                *)
LEMMA ThreadTakes ==
  ASSUME TypeInv, Taken
  PROVE  /\ NextPulse \in Nat \ {0} /\ Serving \in BOOLEAN
         /\ Left \in Nat /\ Left <= queued
         /\ ~Serving => NextPulse <= PulsePeriod
         /\ Serving => Left < asked
         /\ Left = asked => /\ Left = queued /\ ~Serving
                            /\ NextPulse = toPulse - USER_BUTTON_TIMEOUT \/ asked = 0
<1> USE LoadAssumption DEF TypeInv, PulseComes, Takes, Left, Serving, NextPulse
<1>1. CASE PulseComes /\ queued > 0
  BY <1>1 DEF Taken
<1>2. CASE PulseComes /\ queued = 0
  BY <1>2 DEF Taken
<1>3. CASE ~PulseComes
  BY <1>3 DEF Taken
<1> QED BY <1>1, <1>2, <1>3

(* An order posted finds a place.                                           *)
LEMMA PlaceLeft ==
  ASSUME Bounded, Inv, asked < MaxAsked PROVE Left < FIFO_BUFFER_SIZE
<1>1. /\ queued \in Nat /\ asked \in Nat /\ Left \in Nat /\ Left <= queued /\ queued <= asked
      /\ asked <= FIFO_BUFFER_SIZE /\ FIFO_BUFFER_SIZE \in Nat \ {0}
      /\ toPulse \in Nat /\ NextPulse \in Nat \ {0}
      /\ USER_BUTTON_TIMEOUT \in Nat /\ PulsePeriod \in Nat
  BY ThreadTakes, LoadAssumption DEF Inv, TypeInv, Taken, Bounded
<1> SUFFICES ASSUME Left = FIFO_BUFFER_SIZE PROVE FALSE
  BY <1>1
<1>2. asked = FIFO_BUFFER_SIZE /\ queued = asked /\ Left = asked
  BY <1>1
<1>3. NextPulse = toPulse - USER_BUTTON_TIMEOUT
  BY <1>1, <1>2, ThreadTakes DEF Inv
<1>4. toPulse + Polls(FIFO_BUFFER_SIZE) <= PulsePeriod + USER_BUTTON_TIMEOUT
  BY <1>2 DEF Inv, Taken
<1>5. Polls(FIFO_BUFFER_SIZE) \in Nat /\ PulsePeriod <= Polls(FIFO_BUFFER_SIZE)
  BY <1>1, PollsType DEF Bounded
<1> QED BY <1>1, <1>3, <1>4, <1>5

LEMMA Inductive == ASSUME Bounded, Inv, [Next]_loadVars PROVE Inv'
<1>1. /\ NextPulse \in Nat \ {0} /\ Serving \in BOOLEAN
      /\ Left \in Nat /\ Left <= queued
      /\ ~Serving => NextPulse <= PulsePeriod
      /\ Serving => Left < asked
      /\ Left = asked => /\ Left = queued /\ ~Serving
                         /\ NextPulse = toPulse - USER_BUTTON_TIMEOUT \/ asked = 0
  BY ThreadTakes DEF Inv
<1>2. /\ asked \in Nat /\ asked <= MaxAsked /\ MaxAsked \in Nat /\ queued \in Nat /\ queued <= asked
      /\ USER_BUTTON_TIMEOUT \in Nat /\ PulsePeriod \in Nat /\ toPulse \in Nat
      /\ Polls(asked) \in Nat /\ Polls(asked + 1) = Polls(asked) + USER_BUTTON_TIMEOUT
      /\ Polls(0) = 0
  BY PollsType, LoadAssumption DEF Inv, TypeInv, Taken
<1>3. queued = asked => toPulse + Polls(asked) <= PulsePeriod + USER_BUTTON_TIMEOUT
  BY DEF Inv, Taken
<1>4. CASE PollPressed
  <2>1. /\ queued' = Left + 1 /\ UNCHANGED halted /\ asked' = asked + 1 /\ asked < MaxAsked
        /\ toPulse' = NextPulse /\ serving' = Serving
    BY <1>4, PlaceLeft DEF PollPressed
  <2>2. queued' = asked' => toPulse' + Polls(asked') <= PulsePeriod + USER_BUTTON_TIMEOUT
    <3> SUFFICES ASSUME Left = asked
                 PROVE  NextPulse + Polls(asked + 1) <= PulsePeriod + USER_BUTTON_TIMEOUT
      BY <1>1, <1>2, <2>1
    <3> QED BY <1>1, <1>2, <1>3
  <2> QED BY <1>1, <1>2, <2>1, <2>2 DEF Inv, TypeInv, Taken
<1>5. CASE PollReleased
  <2>1. /\ queued' = Left /\ UNCHANGED halted
        /\ asked' = (IF Left = 0 /\ ~Serving THEN 0 ELSE asked)
        /\ toPulse' = NextPulse /\ serving' = Serving
    BY <1>5 DEF PollReleased
  <2>2. queued' = asked' => toPulse' + Polls(asked') <= PulsePeriod + USER_BUTTON_TIMEOUT
    <3>1. CASE Left = 0 /\ ~Serving
      BY <1>1, <1>2, <2>1, <3>1
    <3>2. CASE ~(Left = 0 /\ ~Serving)
      <4> SUFFICES ASSUME Left = asked
                   PROVE  NextPulse + Polls(asked) <= PulsePeriod + USER_BUTTON_TIMEOUT
        BY <2>1, <3>2
      <4> QED BY <1>1, <1>2, <1>3, <3>2
    <3> QED BY <3>1, <3>2
  <2> QED BY <1>1, <1>2, <2>1, <2>2 DEF Inv, TypeInv, Taken
<1>6. CASE UNCHANGED loadVars
  BY <1>6 DEF loadVars, Inv, TypeInv, Taken
<1> QED BY <1>4, <1>5, <1>6 DEF Next

(* Fifo_order takes every order that the button posts (main.c,              *)
(* writeEmergencyToOrder), as long as no more are posted in one go than it  *)
(* has places and one: the antenna thread takes the first at the pulse,     *)
(* before the queue is full, and a pulse comes within as many polls.        *)
THEOREM ButtonOrdersKept == ASSUME Bounded PROVE Spec => []OrdersKept
<1>1. Init => Inv
  <2> SUFFICES ASSUME Init PROVE Inv
    OBVIOUS
  <2>1. Polls(asked) = 0
    BY PollsType DEF Init
  <2>2. /\ queued = 0 /\ asked = 0 /\ serving = FALSE /\ halted = FALSE
        /\ toPulse \in Nat \ {0} /\ toPulse <= PulsePeriod
        /\ PulsePeriod \in Nat /\ USER_BUTTON_TIMEOUT \in Nat /\ MaxAsked \in Nat
    BY LoadAssumption DEF Init
  <2>3. TypeInv
    <3>1. serving \in BOOLEAN /\ halted \in BOOLEAN
      BY <2>2, Zenon
    <3>2. asked \in 0 .. MaxAsked
      BY <2>2
    <3> QED BY <2>2, <3>1, <3>2 DEF TypeInv
  <2>4. Taken
    BY <2>1, <2>2 DEF Taken
  <2> QED BY <2>2, <2>3, <2>4 DEF Inv
<1>2. Inv /\ [Next]_loadVars => Inv'
  BY Inductive
<1>3. Inv => OrdersKept
  BY DEF Inv, OrdersKept
<1> QED BY <1>1, <1>2, <1>3, PTL DEF Spec
=============================================================================
