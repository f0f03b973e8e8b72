------------------------------ MODULE Gamepad ------------------------------
(***************************************************************************)
(* module/gamepad.c: a thread that polls the two controllers for ever.  It  *)
(* starts a transfer, the interrupt of the SIO2 wakes it, it reads what the *)
(* controllers answered, reports those that changed to main and sets an     *)
(* alarm of 5 ms, which wakes it to start the next transfer.  Both events   *)
(* are the same semaphore: the thread tells them apart only by taking turns. *)
(*                                                                          *)
(* gamepad_init is modelled too: it requests the interrupt before it makes  *)
(* the semaphore and the thread, and each of its calls may fail.            *)
(***************************************************************************)
EXTENDS Integers, FiniteSets

CONSTANTS
    Pads,       \* the two controllers
    Buttons,    \* states of the buttons of a controller
    Zero,       \* what the static controller_state begins with
    StaleIrq,   \* may an interrupt of the SIO2 be latched before the module?
    MayFail     \* may the calls of gamepad_init fail?

ASSUME GamepadAssumption == Zero \in Buttons /\ {StaleIrq, MayFail} \subseteq BOOLEAN /\ Pads \subseteq Nat

VARIABLES
    init,       \* where gamepad_init is
    handler,    \* sio2_irq is registered
    sema,       \* value of the semaphore, NoSema before it exists
    thread,     \* where sio2_event is, "none" before it is started
    schedule,   \* its local variable
    transfer,   \* the SIO2 is talking to the controllers
    irq,        \* the interrupt of the SIO2 is latched
    alarm,      \* an alarm is set
    pads,       \* the buttons as they are
    fifo,       \* the answers in the SIO2
    byte,       \* controller_state
    told,       \* what main knows
    left,       \* controllers whose answer controller_rx has yet to read
    fresh       \* history: the answers are those of the last transfer begun

initVars == <<init, handler>>
sioVars == <<transfer, irq, fifo, fresh>>
threadVars == <<thread, schedule, byte, told, left>>
vars == <<initVars, sema, threadVars, sioVars, alarm, pads>>

NoSema == -1

TypeOK ==
    /\ init \in {"request", "thread", "sema", "start", "resident", "exit"}
    /\ handler \in BOOLEAN /\ schedule \in BOOLEAN /\ transfer \in BOOLEAN
    /\ irq \in BOOLEAN /\ alarm \in BOOLEAN /\ fresh \in BOOLEAN
    /\ sema \in {NoSema, 0, 1}
    /\ thread \in {"none", "wait", "tx", "rx", "alarm"}
    /\ {pads, fifo, byte, told} \subseteq [Pads -> Buttons]
    /\ left \subseteq Pads

Init ==
    /\ init = "request" /\ handler = FALSE
    /\ sema = NoSema /\ thread = "none" /\ schedule = TRUE
    /\ transfer = FALSE /\ irq \in {FALSE, StaleIrq} /\ alarm = FALSE
    /\ pads \in [Pads -> Buttons]
    /\ fifo = [p \in Pads |-> Zero]
    /\ byte = fifo /\ told = fifo
    /\ left = {} /\ fresh = FALSE

----------------------------------------------------------------------------
(* gamepad_init, with its labels for what fails                             *)

\* An interrupt that is latched is served before any thread goes on.
ThreadsRun == ~(irq /\ handler)

Exit(rest) == MayFail /\ init' = "exit" /\ rest

RequestIrq ==
    /\ init = "request" /\ ThreadsRun
    /\ \/ init' = "thread" /\ handler' = TRUE
       \/ Exit(UNCHANGED handler)
    /\ UNCHANGED <<sema, threadVars, sioVars, alarm, pads>>

CreateThread ==
    /\ init = "thread" /\ ThreadsRun
    /\ init' = "sema" \/ Exit(TRUE)
    /\ UNCHANGED <<handler, sema, threadVars, sioVars, alarm, pads>>

\* The semaphore begins at its maximum, so that the first turn is the thread's.
CreateSema ==
    /\ init = "sema" /\ ThreadsRun
    /\ \/ init' = "start" /\ sema' = 1
       \/ Exit(UNCHANGED sema)
    /\ UNCHANGED <<handler, threadVars, sioVars, alarm, pads>>

StartThread ==
    /\ init = "start" /\ ThreadsRun
    /\ \/ init' = "resident" /\ thread' = "wait" /\ UNCHANGED sema
       \/ Exit(sema' = NoSema /\ UNCHANGED thread)
    /\ UNCHANGED <<handler, schedule, byte, told, left, sioVars, alarm, pads>>

gamepad_init == RequestIrq \/ CreateThread \/ CreateSema \/ StartThread

----------------------------------------------------------------------------
(* Interrupts and the hardware                                              *)

\* A signal at the maximum is refused; event_sema_id is zero until there is a
\* semaphore, and the signal goes astray.
thsemap_isignal_sema == sema' = IF sema = NoSema THEN NoSema ELSE 1

sio2_irq ==
    /\ irq /\ handler
    /\ thsemap_isignal_sema
    /\ irq' = FALSE
    /\ UNCHANGED <<initVars, threadVars, transfer, fifo, fresh, alarm, pads>>

event_alarm ==
    /\ alarm
    /\ thsemap_isignal_sema
    /\ alarm' = FALSE
    /\ UNCHANGED <<initVars, threadVars, sioVars, pads>>

\* The transfer ends, with an answer or a time-out, and asks for an interrupt.
TransferEnds ==
    /\ transfer
    /\ transfer' = FALSE /\ irq' = TRUE
    /\ fifo' = pads /\ fresh' = TRUE
    /\ UNCHANGED <<initVars, sema, threadVars, alarm, pads>>

Press(p, b) ==
    /\ pads' = [pads EXCEPT ![p] = b]
    /\ UNCHANGED <<initVars, sema, threadVars, sioVars, alarm>>

----------------------------------------------------------------------------
(* sio2_event                                                               *)

thsemap_wait_sema ==
    /\ thread = "wait" /\ sema = 1 /\ ThreadsRun
    /\ sema' = 0
    /\ thread' = IF schedule THEN "tx" ELSE "rx"
    /\ left' = IF schedule THEN {} ELSE Pads
    /\ UNCHANGED <<initVars, schedule, byte, told, sioVars, alarm, pads>>

\* Slips: the answer is not waited for, or not read when it comes.
controller_tx_now ==
    /\ thread = "tx" /\ ThreadsRun
    /\ transfer' = TRUE /\ fresh' = FALSE
    /\ schedule' = FALSE
    /\ thread' = "rx" /\ left' = Pads
    /\ UNCHANGED <<initVars, sema, byte, told, irq, fifo, alarm, pads>>

controller_tx_again ==
    /\ thread = "tx" /\ ThreadsRun
    /\ transfer' = TRUE /\ fresh' = FALSE
    /\ thread' = "wait"
    /\ UNCHANGED <<initVars, sema, schedule, byte, told, left, irq, fifo, alarm, pads>>

controller_tx ==
    /\ thread = "tx" /\ ThreadsRun
    /\ transfer' = TRUE /\ fresh' = FALSE
    /\ schedule' = FALSE
    /\ thread' = "wait"
    /\ UNCHANGED <<initVars, sema, byte, told, left, irq, fifo, alarm, pads>>

\* A slip: the answer is compared after it was stored.
controller_rx_stored(p) ==
    /\ thread = "rx" /\ ThreadsRun
    /\ p \in left /\ \A q \in left : p <= q
    /\ left' = left \ {p}
    /\ byte' = [byte EXCEPT ![p] = fifo[p]]
    /\ thread' = IF left' = {} THEN "alarm" ELSE "rx"
    /\ UNCHANGED <<initVars, sema, schedule, told, sioVars, alarm, pads>>

\* Reading one answer, and telling main when it is not that of the last time.
controller_rx(p) ==
    /\ thread = "rx" /\ ThreadsRun
    /\ p \in left /\ \A q \in left : p <= q
    /\ left' = left \ {p}
    /\ byte' = [byte EXCEPT ![p] = fifo[p]]
    /\ told' = IF fifo[p] # byte[p] THEN [told EXCEPT ![p] = fifo[p]] ELSE told
    /\ thread' = IF left' = {} THEN "alarm" ELSE "rx"
    /\ UNCHANGED <<initVars, sema, schedule, sioVars, alarm, pads>>

\* A slip: nothing wakes the thread for the next transfer.
thbase_set_no_alarm ==
    /\ thread = "alarm" /\ ThreadsRun
    /\ schedule' = TRUE
    /\ thread' = "wait"
    /\ UNCHANGED <<initVars, sema, byte, told, left, sioVars, alarm, pads>>

thbase_set_alarm ==
    /\ thread = "alarm" /\ ThreadsRun
    /\ alarm' = TRUE
    /\ schedule' = TRUE
    /\ thread' = "wait"
    /\ UNCHANGED <<initVars, sema, byte, told, left, sioVars, pads>>

sio2_event ==
    \/ thsemap_wait_sema \/ controller_tx
    \/ (\E p \in Pads : controller_rx(p)) \/ thbase_set_alarm

Next ==
    \/ gamepad_init
    \/ sio2_irq \/ event_alarm \/ TransferEnds
    \/ \E p \in Pads, b \in Buttons : Press(p, b)
    \/ sio2_event

Spec == Init /\ [][Next]_vars

\* Transfers end, alarms go off, interrupts are served and the thread runs.
Fairness ==
    /\ WF_vars(gamepad_init) /\ WF_vars(sio2_event)
    /\ WF_vars(sio2_irq) /\ WF_vars(event_alarm) /\ WF_vars(TransferEnds)

LiveSpec == Spec /\ Fairness

----------------------------------------------------------------------------
(* Properties                                                               *)

\* Once the thread is started, exactly one thing is due: its turn, a transfer,
\* an interrupt, an alarm or a signal.  With two, the thread would take one
\* event for the other ever after; with none, polling would stop for good.
Due == {e \in {"turn", "transfer", "irq", "alarm", "signal"} :
          \/ e = "turn" /\ thread \in {"tx", "rx", "alarm"}
          \/ e = "transfer" /\ transfer
          \/ e = "irq" /\ irq
          \/ e = "alarm" /\ alarm
          \/ e = "signal" /\ sema = 1}

OneEventDue == TypeOK /\ (thread # "none" => Cardinality(Due) = 1)

\* The answers are read only after the transfer that asked for them has ended
\* (the thread assumes it was the interrupt that woke it, gamepad.c line 183).
RxAfterTransfer == thread = "rx" => fresh /\ ~transfer

\* Polling never stops.
PollsForever == init = "resident" ~> (thread = "tx" /\ <>(thread = "rx"))

\* A change that lasts is reported.
LastingIsTold ==
    \A p \in Pads, b \in Buttons :
        <>[](pads[p] = b /\ thread # "none") => <>[](told[p] = b)
============================================================================
