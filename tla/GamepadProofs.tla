---------------------------- MODULE GamepadProofs ----------------------------
(***************************************************************************)
(* The thread of module/gamepad.c takes turns with the transfers and the    *)
(* alarms, for any controllers and buttons and whichever call of            *)
(* gamepad_init fails.                                                      *)
(*                                                                          *)
(* OneEventDue is not inductive: that the one semaphore is never signalled  *)
(* by the wrong one rests on what the thread has noted in schedule, and the *)
(* first turn on gamepad_init: a latched interrupt finds no semaphore.      *)
(***************************************************************************)
EXTENDS Gamepad, FiniteSetTheorems, TLAPS

Turn == thread \in {"tx", "rx", "alarm"}

\* Of the five things that may be due, no two are.
AtMostOne ==
    /\ Turn => ~transfer /\ ~irq /\ ~alarm /\ sema = 0
    /\ transfer => ~irq /\ ~alarm /\ sema = 0
    /\ irq => ~alarm /\ sema = 0
    /\ alarm => sema = 0

AtLeastOne == Turn \/ transfer \/ irq \/ alarm \/ sema = 1

\* While the thread waits, schedule says which event it waits for; the answers
\* are there from the end of the transfer on.
ScheduleTells ==
    /\ thread = "wait" /\ schedule => ~transfer /\ ~irq
    /\ thread = "wait" /\ ~schedule => ~alarm /\ (transfer \/ fresh)
    /\ thread = "tx" => schedule
    /\ thread = "rx" => ~schedule /\ fresh

\* Until the thread is started nothing is under way, and there is no interrupt
\* by the time there is a semaphore.
Beginning ==
    /\ thread = "none" => ~transfer /\ ~alarm /\ schedule
    /\ thread = "none" <=> init # "resident"
    /\ init \in {"thread", "sema", "start", "resident"} => handler
    /\ init = "start" => sema = 1 /\ ~irq

IInv ==
    /\ TypeOK
    /\ Beginning
    /\ thread # "none" => AtMostOne /\ AtLeastOne /\ ScheduleTells
    /\ told = byte

\* Exactly one thing is due when the set of those that are has one element.
LEMMA OneIsDue ==
    ASSUME TypeOK, AtMostOne, AtLeastOne
    PROVE  Cardinality(Due) = 1
<1>1. ASSUME NEW e, Due = {e} PROVE Cardinality(Due) = 1
  BY <1>1, FS_Singleton
<1>. USE DEF Due, AtMostOne, AtLeastOne, Turn
<1>2. CASE Turn
  BY <1>1, <1>2
<1>3. CASE transfer
  BY <1>1, <1>3
<1>4. CASE irq
  BY <1>1, <1>4
<1>5. CASE alarm
  BY <1>1, <1>5
<1>6. CASE sema = 1
  BY <1>1, <1>6
<1> QED BY <1>2, <1>3, <1>4, <1>5, <1>6

----------------------------------------------------------------------------
(* Steps                                                                    *)

\* Before the thread is started, the semaphore is made once, and full.
LEMMA InitStep ==
    ASSUME IInv, gamepad_init
    PROVE  IInv'
<1>. USE DEF IInv, TypeOK, Beginning, ThreadsRun, Exit, sioVars, threadVars
<1>1. CASE RequestIrq
  BY <1>1 DEF RequestIrq
<1>2. CASE CreateThread
  BY <1>2 DEF CreateThread
<1>3. CASE CreateSema
  BY <1>3 DEF CreateSema
<1>4. CASE StartThread
  BY <1>4 DEF StartThread, AtMostOne, AtLeastOne, ScheduleTells, Turn
<1> QED BY <1>1, <1>2, <1>3, <1>4 DEF gamepad_init

\* Interrupts and alarms turn what is due into a signal, transfers into an
\* interrupt.
LEMMA MachineStep ==
    ASSUME IInv, sio2_irq \/ event_alarm \/ TransferEnds
    PROVE  IInv'
<1>1. CASE sio2_irq
  <2>1. irq = TRUE /\ irq' = FALSE /\ sema' = (IF sema = NoSema THEN NoSema ELSE 1)
        /\ UNCHANGED <<init, handler, thread, schedule, byte, told, left>>
        /\ UNCHANGED <<transfer, fifo, fresh, alarm, pads>>
    BY <1>1 DEF sio2_irq, thsemap_isignal_sema, initVars, threadVars, IInv, TypeOK
  <2>2. TypeOK' /\ told' = byte'
    BY <2>1 DEF IInv, TypeOK
  <2>3. Beginning'
    BY <2>1 DEF IInv, Beginning
  <2>4. ASSUME thread # "none" PROVE AtMostOne' /\ AtLeastOne' /\ ScheduleTells'
    BY <2>1, <2>4 DEF IInv, AtMostOne, AtLeastOne, ScheduleTells, Turn, NoSema
  <2> QED BY <2>1, <2>2, <2>3, <2>4 DEF IInv
<1>2. CASE event_alarm
  <2>1. alarm = TRUE /\ alarm' = FALSE /\ sema' = (IF sema = NoSema THEN NoSema ELSE 1)
        /\ UNCHANGED <<init, handler, thread, schedule, byte, told, left>>
        /\ UNCHANGED <<transfer, irq, fifo, fresh, pads>>
    BY <1>2 DEF event_alarm, thsemap_isignal_sema, initVars, threadVars, sioVars,
       IInv, TypeOK
  <2>2. TypeOK' /\ told' = byte'
    BY <2>1 DEF IInv, TypeOK
  <2>3. Beginning' /\ thread # "none"
    BY <2>1 DEF IInv, Beginning
  <2>4. AtMostOne' /\ AtLeastOne' /\ ScheduleTells'
    BY <2>1, <2>3 DEF IInv, AtMostOne, AtLeastOne, ScheduleTells, Turn, NoSema
  <2> QED BY <2>2, <2>3, <2>4 DEF IInv
<1>3. CASE TransferEnds
  BY <1>3 DEF TransferEnds, IInv, TypeOK, Beginning, AtMostOne, AtLeastOne,
     ScheduleTells, Turn, initVars, sioVars, threadVars
<1> QED BY <1>1, <1>2, <1>3

\* A button is no event.
LEMMA PressStep ==
    ASSUME IInv, NEW p \in Pads, NEW b \in Buttons, Press(p, b)
    PROVE  IInv'
<1>1. UNCHANGED <<initVars, sema, threadVars, sioVars, alarm>>
      /\ pads' = [pads EXCEPT ![p] = b]
  BY DEF Press
<1>2. pads' \in [Pads -> Buttons]
  BY <1>1 DEF IInv, TypeOK
<1> QED BY <1>1, <1>2
    DEF IInv, TypeOK, Beginning, AtMostOne, AtLeastOne, ScheduleTells, Turn,
        initVars, sioVars, threadVars

\* The thread takes the event for the one that schedule says it is, and main
\* learns whatever is stored.
LEMMA ThreadStep ==
    ASSUME IInv, sio2_event
    PROVE  IInv'
<1>. USE DEF IInv, TypeOK, Beginning, AtMostOne, AtLeastOne, ScheduleTells, Turn,
       initVars, sioVars, threadVars
<1>1. CASE thsemap_wait_sema
  BY <1>1 DEF thsemap_wait_sema
<1>2. CASE controller_tx
  BY <1>2 DEF controller_tx
<1>3. ASSUME NEW p \in Pads, controller_rx(p) PROVE IInv'
  <2>1. /\ byte' = [byte EXCEPT ![p] = fifo[p]]
        /\ told' = IF fifo[p] # byte[p] THEN [told EXCEPT ![p] = fifo[p]] ELSE told
        /\ UNCHANGED <<pads, fifo>>
    BY <1>3 DEF controller_rx
  <2>2. told' = byte'
    <3>1. CASE fifo[p] = byte[p]
      BY <2>1, <3>1
    <3>2. CASE fifo[p] # byte[p]
      BY <2>1, <3>2
    <3> QED BY <3>1, <3>2
  <2>4. byte' \in [Pads -> Buttons]
    BY <2>1
  <2>3. thread = "rx" /\ thread' \in {"rx", "alarm"} /\ left' \subseteq Pads
        /\ UNCHANGED <<initVars, sema, schedule, transfer, irq, fresh, alarm>>
    BY <1>3 DEF controller_rx
  <2> QED BY <2>1, <2>2, <2>3, <2>4
<1>4. CASE thbase_set_alarm
  BY <1>4 DEF thbase_set_alarm
<1> QED BY <1>1, <1>2, <1>3, <1>4 DEF sio2_event

----------------------------------------------------------------------------
(* Theorems                                                                 *)

\* The invariant holds in every state.
THEOREM IInvHolds == Spec => []IInv
<1>1. Init => IInv
  BY GamepadAssumption DEF Init, IInv, TypeOK, Beginning, NoSema
<1>2. IInv /\ [Next]_vars => IInv'
  <2>. SUFFICES ASSUME IInv, [Next]_vars PROVE IInv'
    OBVIOUS
  <2>1. CASE UNCHANGED vars
    BY <2>1 DEF IInv, TypeOK, Beginning, AtMostOne, AtLeastOne, ScheduleTells, Turn,
       vars, initVars, sioVars, threadVars
  <2> QED BY <2>1, InitStep, MachineStep, PressStep, ThreadStep DEF Next
<1> QED BY <1>1, <1>2, PTL DEF Spec

\* Once the thread is started exactly one thing is due, so that it never takes
\* one event for the other and polling has not stopped.
THEOREM OneEventIsDue == Spec => []OneEventDue
<1>1. IInv => OneEventDue
  BY OneIsDue DEF IInv, OneEventDue
<1> QED BY <1>1, IInvHolds, PTL

\* The answers are read only after the transfer that asked for them has ended
\* (gamepad.c, line 183).
THEOREM AnswersAreFresh == Spec => []RxAfterTransfer
<1>1. IInv => RxAfterTransfer
  BY DEF IInv, TypeOK, AtMostOne, ScheduleTells, Turn, RxAfterTransfer
<1> QED BY <1>1, IInvHolds, PTL

\* Main knows what the next answer is compared with, so that no change is taken
\* for one it was told of (gamepad.c, controller_rx).
THEOREM MainKnowsState == Spec => [](told = byte)
<1>1. IInv => told = byte
  BY DEF IInv
<1> QED BY <1>1, IInvHolds, PTL
============================================================================
