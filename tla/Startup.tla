------------------------------ MODULE Startup ------------------------------
(***************************************************************************)
(* The start of the firmware (main.c): main initialises the board, then    *)
(* creates the threads.  The two threads that need several objects find    *)
(* them in a structure on the stack of the function that creates them,     *)
(* which waits on a semaphore of that structure before it returns.         *)
(*                                                                         *)
(* Any thread that is ready may run: what is shown does not depend on the  *)
(* priorities, nor on the scheduler being cooperative.                     *)
(***************************************************************************)
EXTENDS Naturals, Sequences

VARIABLES mainPc,      \* the next operation of main
          ready,       \* what main has initialised
          thArgs,      \* th_args, on the stack of startPcThreads and of
                       \* startAntennaThreads
          signalled,   \* protect_sem is free
          threadPc,    \* for each thread, what it does next
          locals       \* for each thread, the objects it has read

startupVars == <<mainPc, ready, thArgs, signalled, threadPc, locals>>

Objects == <<"Fifo_log", "Fifo_order", "current_traj">>
Stale == <<"stale", "stale", "stale">>

\* The threads whose argument is Fifo_log, and those that read th_args
LogThreads       == {"pcTxThread", "antennaRxThread", "gpsThread"}
ProtectedThreads == {"pcRxThread", "antennaTxThread"}
Threads == LogThreads \union ProtectedThreads

\* The operations of main and of the functions it calls, in order
Initialise(object) == [op |-> "initialise", on |-> object]
Create(thread)     == [op |-> "create", on |-> thread]
PutArgs == [op |-> "args", on |-> "th_args"]
Wait    == [op |-> "wait", on |-> "protect_sem"]
Return  == [op |-> "return", on |-> "th_args"]

\* Faulty variant: the creator does not wait for the thread.
ProtectedStartNoWait(thread) == <<PutArgs, Create(thread), Return>>

ProtectedStart(thread) == <<PutArgs, Create(thread), Wait, Return>>

Program ==
  <<Initialise("crcTable"), Initialise("current_traj"),
    Initialise("Fifo_log"), Initialise("Fifo_order"),
    Create("pcTxThread")>> \o ProtectedStart("pcRxThread")
  \o <<Create("antennaRxThread")>> \o ProtectedStart("antennaTxThread")
  \o <<Create("gpsThread")>>

Init ==
  /\ mainPc = 1 /\ ready = {} /\ thArgs = Stale /\ signalled = FALSE
  /\ threadPc = [t \in Threads |-> "none"]
  /\ locals = [t \in Threads |-> <<>>]

At(op) == mainPc <= Len(Program) /\ Program[mainPc].op = op
On == Program[mainPc].on
Step == mainPc' = mainPc + 1

(* crcInit, trajInit, chFifoObjectInit                                      *)
MainInitialises ==
  /\ At("initialise") /\ Step
  /\ ready' = ready \union {On}
  /\ UNCHANGED <<thArgs, signalled, threadPc, locals>>

(* th_args, with a semaphore that is taken                                  *)
MainPutsArgs ==
  /\ At("args") /\ Step
  /\ thArgs' = Objects /\ signalled' = FALSE
  /\ UNCHANGED <<ready, threadPc, locals>>

(* chThdCreateStatic                                                        *)
MainCreates ==
  /\ At("create") /\ Step
  /\ threadPc' = [threadPc EXCEPT ![On] = "starts"]
  /\ UNCHANGED <<ready, thArgs, signalled, locals>>

(* chBSemWait                                                               *)
MainWaits ==
  /\ At("wait") /\ Step
  /\ signalled /\ signalled' = FALSE
  /\ UNCHANGED <<ready, thArgs, threadPc, locals>>

(* The function that created the threads returns; its stack is used again.  *)
MainReturns ==
  /\ At("return") /\ Step
  /\ thArgs' = Stale
  /\ UNCHANGED <<ready, signalled, threadPc, locals>>

(* A thread whose argument is Fifo_log begins.                              *)
LogThreadStarts(t) ==
  /\ threadPc[t] = "starts"
  /\ threadPc' = [threadPc EXCEPT ![t] = "connected"]
  /\ locals' = [locals EXCEPT ![t] = <<"Fifo_log">>]
  /\ UNCHANGED <<mainPc, ready, thArgs, signalled>>

(* A protected thread reads its arguments one after the other, ...          *)
ThreadReadsArg(t) ==
  /\ threadPc[t] = "starts" /\ Len(locals[t]) < Len(Objects)
  /\ locals' = [locals EXCEPT ![t] = Append(@, thArgs[Len(@) + 1])]
  /\ UNCHANGED <<mainPc, ready, thArgs, signalled, threadPc>>

\* Faulty variant: the semaphore is freed before the arguments are read.
ThreadSignalsFirst(t) ==
  /\ threadPc[t] = "starts" /\ ~signalled
  /\ signalled' = TRUE
  /\ threadPc' = [threadPc EXCEPT ![t] = IF Len(locals[t]) = Len(Objects) THEN "connected" ELSE @]
  /\ UNCHANGED <<mainPc, ready, thArgs, locals>>

\* Faulty variant: the semaphore is not freed.
ThreadForgetsToSignal(t) ==
  /\ threadPc[t] = "starts" /\ Len(locals[t]) = Len(Objects)
  /\ threadPc' = [threadPc EXCEPT ![t] = "connected"]
  /\ UNCHANGED <<mainPc, ready, thArgs, signalled, locals>>

(* ... and frees the semaphore.                                             *)
ThreadSignals(t) ==
  /\ threadPc[t] = "starts" /\ Len(locals[t]) = Len(Objects)
  /\ signalled' = TRUE
  /\ threadPc' = [threadPc EXCEPT ![t] = "connected"]
  /\ UNCHANGED <<mainPc, ready, thArgs, locals>>

(* A thread registers its name, or configures the GPS receiver, and enters  *)
(* its loop.                                                                *)
EntersLoop(t) ==
  /\ threadPc[t] = "connected"
  /\ threadPc' = [threadPc EXCEPT ![t] = "runs"]
  /\ UNCHANGED <<mainPc, ready, thArgs, signalled, locals>>

Main == MainInitialises \/ MainPutsArgs \/ MainCreates \/ MainWaits \/ MainReturns
ProtectedThread(t) == ThreadReadsArg(t) \/ ThreadSignals(t)

Next ==
  \/ Main
  \/ \E t \in LogThreads : LogThreadStarts(t)
  \/ \E t \in ProtectedThreads : ProtectedThread(t)
  \/ \E t \in Threads : EntersLoop(t)

(* Every thread that is ready gets the processor.                           *)
Fairness ==
  /\ WF_startupVars(Main)
  /\ \A t \in LogThreads : WF_startupVars(LogThreadStarts(t))
  /\ \A t \in ProtectedThreads : WF_startupVars(ProtectedThread(t))
  /\ \A t \in Threads : WF_startupVars(EntersLoop(t))

Spec == Init /\ [][Next]_startupVars /\ Fairness

-----------------------------------------------------------------------------
(* Each thread is connected to its objects (main.c), all of them            *)
(* initialised: no thread works on what was on the stack before or after    *)
(* the structure made for it.                                               *)
Connected ==
  \A t \in Threads :
    threadPc[t] \in {"connected", "runs"} =>
      /\ locals[t] = IF t \in ProtectedThreads THEN Objects ELSE <<"Fifo_log">>
      /\ {locals[t][i] : i \in DOMAIN locals[t]} \union {"crcTable"} \subseteq ready

(* The handshake does not block: main enters its loop, all threads running. *)
AllRun == <>(mainPc > Len(Program) /\ \A t \in Threads : threadPc[t] = "runs")
=============================================================================
