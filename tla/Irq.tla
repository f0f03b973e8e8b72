-------------------------------- MODULE Irq --------------------------------
(***************************************************************************)
(* module/irq.c: the interrupt controller drivers use.  It passes each call *)
(* on to the controller the line belongs to, and defaults to intrman.       *)
(***************************************************************************)
EXTENDS SpdIrq

irqVars == <<intrmanVars, spdVars>>

request_irq(irq, cb, ret) ==
    \/ spd_valid_irq(irq) /\ spd_request_irq__(irq, cb, ret)
    \/ ~spd_valid_irq(irq) /\ request_irq__(irq, cb, ret) /\ UNCHANGED spdVars

release_irq(irq, ret) ==
    \/ spd_valid_irq(irq) /\ spd_release_irq__(irq, ret)
    \/ ~spd_valid_irq(irq) /\ release_irq__(irq, ret) /\ UNCHANGED spdVars

enable_irq(irq) ==
    \/ spd_valid_irq(irq) /\ spd_enable_irq__(irq)
    \/ ~spd_valid_irq(irq) /\ enable_irq__(irq) /\ UNCHANGED <<handler, raised, spdVars>>

disable_irq(irq) ==
    \/ spd_valid_irq(irq) /\ spd_disable_irq__(irq)
    \/ ~spd_valid_irq(irq) /\ disable_irq__(irq) /\ UNCHANGED <<handler, raised, spdVars>>

\* The callback registered for a line of either controller.
Callback(irq) == IF spd_valid_irq(irq) THEN spd_irqs[irq] ELSE handler[irq]

\* May an interrupt of the line get through to its callback?
Unmasked(irq) ==
    IF spd_valid_irq(irq)
    THEN irq \in intr_mask /\ IRQ_IOP_DEV9 \in enabled
         /\ handler[IRQ_IOP_DEV9] = SpdHandler
    ELSE irq \in enabled

AllLines == IntrmanLines \cup SpdLines
============================================================================
