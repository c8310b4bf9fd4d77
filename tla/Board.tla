------------------------------- MODULE Board -------------------------------
(***************************************************************************)
(* What the firmware's threads share: the two object FIFOs created in      *)
(* main.c, the trajectory, the real-time clock, the serial line to the     *)
(* antenna and the fact that the system has stopped.                       *)
(*                                                                         *)
(* All threads run at NORMALPRIO and chconf.h sets CH_CFG_TIME_QUANTUM to  *)
(* 0: a thread keeps the processor until it blocks.  Each action of the    *)
(* components stands for what one thread does between two blocking calls,  *)
(* or for a part of it that no other thread can interrupt (see CpuFree in  *)
(* AntennaTx).                                                             *)
(***************************************************************************)
EXTENDS Trajectory, Sequences

CONSTANTS OrderFifoSize,   \* FIFO_BUFFER_SIZE, of Fifo_order
          LogFifoSize,     \* FIFO_BUFFER_SIZE, of Fifo_log
          MaxTime          \* bound: last second of the real-time clock

VARIABLES orderMbx, orderFree,   \* Fifo_order
          logMbx, logFree,       \* Fifo_log
          rtc,                   \* RTCD1, in seconds
          antenna,               \* last frame written to the antenna line
          panic                  \* what stopped the system, or "none"

orderVars == <<orderMbx, orderFree>>
logVars   == <<logMbx, logFree>>
boardVars == <<orderVars, logVars, trajVars, rtc, antenna, panic>>

ASSUME BoardAssumption ==
  /\ OrderFifoSize \in Nat \ {0}
  /\ LogFifoSize \in Nat \ {0}
  /\ MaxTime \in Nat

OrderFifo == INSTANCE ObjectsFifo
  WITH Size <- OrderFifoSize, Null <- NullObject, mbx <- orderMbx, free <- orderFree
LogFifo == INSTANCE ObjectsFifo
  WITH Size <- LogFifoSize, Null <- NullObject, mbx <- logMbx, free <- logFree

Time == 0 .. MaxTime

BoardInit ==
  /\ OrderFifo!Init
  /\ LogFifo!Init
  /\ TrajectoryInit(0)
  /\ rtc = 0
  /\ antenna = ZeroFrame
  /\ panic = "none"

Running == panic = "none"

\* The system stops: chSysHalt disables the interrupts, a bus fault never
\* returns, and a wild store leaves memory in a state the model does not
\* follow.  Nothing else changes.
Stop(cause) ==
  /\ panic' = cause
  /\ UNCHANGED <<orderVars, logVars, trajVars, rtc, antenna>>

\* writeLogToFifo: with no free object the code goes on with a NULL pointer,
\* which is posted if a mailbox slot is left.
writeLogToFifo(entry) ==
  \/ LogFifo!SendObject(entry)
  \/ LogFifo!SendNull

\* writeLogToFifo, when it is what stops the system
LogCrash == LogFifo!MayCrash /\ Stop("log")

\* Faulty variant: an emergency posted like any other order
writeEmergencyBehind ==
  OrderFifo!SendObject(Message(ID_MSG_ORDER_SURVIE, ZeroFrame, 0))

\* writeEmergencyToOrder: an urgent order overtakes those already queued
writeEmergencyToOrder ==
  OrderFifo!SendObjectAhead(Message(ID_MSG_ORDER_SURVIE, ZeroFrame, 0))

\* No thread holds an order object across a blocking call, so that a failed
\* take always meets a full mailbox: the assertion on the post fails.
OrderCrash == OrderFifo!MayCrash /\ Stop("order")
=============================================================================
