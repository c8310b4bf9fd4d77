---------------------------- MODULE ObjectsFifo ----------------------------
(***************************************************************************)
(* One ChibiOS objects FIFO as the firmware uses it: a pool of Size        *)
(* objects and a mailbox of Size slots.  A producer takes a free object    *)
(* (TIME_IMMEDIATE), fills it and posts it; the consumer receives it,      *)
(* copies or transmits it, and returns it to the pool.                     *)
(*                                                                         *)
(* ChibiOS itself is outside this repository; its calls are modelled from  *)
(* how src/ uses them.  A producer never blocks between taking an object   *)
(* and posting it, and the kernel does not preempt among threads of equal  *)
(* priority (chconf.h: CH_CFG_TIME_QUANTUM 0), so take and post form one   *)
(* step.                                                                   *)
(***************************************************************************)
EXTENDS Naturals, Sequences

CONSTANTS Size,      \* FIFO_BUFFER_SIZE
          Null       \* the NULL object pointer

VARIABLES mbx,       \* objects posted and not yet received, next one first
          free       \* number of objects in the pool

Init == mbx = <<>> /\ free = Size

\* chFifoTakeObjectTimeout(TIME_IMMEDIATE) succeeds
CanTake == free > 0

\* a mailbox slot is left for chMBPost
CanPost == Len(mbx) < Size

\* chDbgAssert(msg == MSG_OK, "post failed") stops the system when the post
\* finds the mailbox full; so may the stores through a NULL object pointer.
MayCrash == ~CanTake \/ ~CanPost

SendObjectAhead(obj) ==
  /\ CanTake /\ CanPost
  /\ mbx' = <<obj>> \o mbx
  /\ free' = free - 1

SendObject(obj) ==
  /\ CanTake /\ CanPost
  /\ mbx' = Append(mbx, obj)
  /\ free' = free - 1

\* The pool is empty: the code posts the NULL it was given.
SendNull ==
  /\ ~CanTake /\ CanPost
  /\ mbx' = Append(mbx, Null)
  /\ UNCHANGED free

ReceiveObject ==
  /\ mbx # <<>>
  /\ mbx' = Tail(mbx)
  /\ UNCHANGED free

ReturnObject ==
  /\ free' = free + 1
  /\ UNCHANGED mbx

\* chFifoReceiveObject, copy, chFifoReturnObject with no blocking between
ReceiveAndReturn ==
  /\ mbx # <<>>
  /\ mbx' = Tail(mbx)
  /\ free' = free + 1
=============================================================================
