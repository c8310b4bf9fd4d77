--------------------------- MODULE EmergencyLoad ---------------------------
(***************************************************************************)
(* How fast Fifo_order fills and empties when the user asks for            *)
(* emergencies with the button: main polls the button and posts one order  *)
(* per poll while it is held, the antenna thread takes at most one order   *)
(* per pulse of the 1PPS line and sleeps through each emergency.           *)
(*                                                                         *)
(* Durations are in ticks of 50 ms.  A step is one iteration of main's     *)
(* loop; what the antenna thread does meanwhile comes first.               *)
(***************************************************************************)
EXTENDS Naturals

CONSTANTS FIFO_BUFFER_SIZE,
          USER_BUTTON_TIMEOUT,     \* 150 ms
          PulsePeriod,             \* 1 s
          EMERGENCY_TIMEOUT,       \* 10 s
          MaxAsked                 \* bound: emergencies asked for in one go

VARIABLES queued,    \* orders in Fifo_order
          toPulse,   \* ticks until the antenna thread reads Fifo_order again
          asked,     \* polls that saw the button since all was last quiet
          serving,   \* the antenna thread is in emergencyBehaviour
          halted     \* a post failed

loadVars == <<queued, toPulse, asked, serving, halted>>

\* main looks at the button more often than the pulses come.
ASSUME LoadAssumption ==
  /\ FIFO_BUFFER_SIZE \in Nat \ {0} /\ EMERGENCY_TIMEOUT \in Nat /\ MaxAsked \in Nat
  /\ USER_BUTTON_TIMEOUT \in Nat \ {0} /\ PulsePeriod \in Nat
  /\ USER_BUTTON_TIMEOUT <= PulsePeriod

Init ==
  /\ queued = 0 /\ asked = 0 /\ serving = FALSE /\ halted = FALSE
  /\ toPulse \in 1 .. PulsePeriod

\* The pulse comes before the next poll, and the thread finds an order.
PulseComes == toPulse <= USER_BUTTON_TIMEOUT
\* Faulty variant: the last order is left in the queue.
TakesButOne == PulseComes /\ queued > 1
Takes      == PulseComes /\ queued > 0
Left       == IF Takes THEN queued - 1 ELSE queued

\* A thread that sleeps misses pulses: it reads again on the first one after
\* its sleep, which ends a little after a pulse.
NextPulse ==
  (IF ~PulseComes THEN toPulse
   ELSE IF Takes THEN toPulse + EMERGENCY_TIMEOUT + PulsePeriod
   ELSE toPulse + PulsePeriod) - USER_BUTTON_TIMEOUT

Serving == IF PulseComes THEN Takes ELSE serving

\* Faulty variant: the last slot of the FIFO is not used.
PollPressedShort ==
  /\ ~halted /\ asked < MaxAsked
  /\ IF Left + 1 < FIFO_BUFFER_SIZE
       THEN queued' = Left + 1 /\ UNCHANGED halted
       ELSE queued' = Left /\ halted' = TRUE
  /\ asked' = asked + 1
  /\ toPulse' = NextPulse /\ serving' = Serving

(* An iteration of main that sees the button held                           *)
PollPressed ==
  /\ ~halted /\ asked < MaxAsked
  /\ IF Left < FIFO_BUFFER_SIZE
       THEN queued' = Left + 1 /\ UNCHANGED halted
       ELSE queued' = Left /\ halted' = TRUE
  /\ asked' = asked + 1
  /\ toPulse' = NextPulse /\ serving' = Serving

(* ... and one that does not                                                *)
PollReleased ==
  /\ ~halted
  /\ queued' = Left
  /\ asked' = IF Left = 0 /\ ~Serving THEN 0 ELSE asked
  /\ toPulse' = NextPulse /\ serving' = Serving
  /\ UNCHANGED halted

Next == PollPressed \/ PollReleased

Spec == Init /\ [][Next]_loadVars /\ WF_loadVars(PollReleased)

-----------------------------------------------------------------------------
(* Fifo_order contains all the orders posted to it (main.c, where it is     *)
(* declared): no post ever fails.                                           *)
OrdersKept == ~halted

(* The survivals that were asked for come to an end once the user lets go:  *)
(* the thread takes them one by one until Fifo_order is empty.              *)
Quiet == queued = 0 /\ ~serving
SurvivalsEnd == (asked = MaxAsked) ~> (Quiet \/ halted)
=============================================================================
