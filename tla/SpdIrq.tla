------------------------------- MODULE SpdIrq -------------------------------
(***************************************************************************)
(* The DEV9 SPD interrupt controller, builtin/spd-irq.c.  Its lines are     *)
(* virtual: all of them share the line IRQ_IOP_DEV9 of intrman, which is    *)
(* held while at least one of them is requested, and are told apart by the  *)
(* registers SPD_REG_INTR_STAT and SPD_REG_INTR_MASK of the device.         *)
(*                                                                          *)
(* The handler runs with interrupts off but the device does not wait for    *)
(* it, so it is split where the device can come in between: entering (which *)
(* reads both registers), acknowledging, and one step per callback.         *)
(***************************************************************************)
EXTENDS Intrman, FiniteSets

CONSTANTS
    SpdLines,       \* virtual lines IRQ_IOP_SPD_BASE .. IRQ_IOP_SPD_LAST
    IRQ_IOP_DEV9,   \* the intrman line they share
    SpdHandler      \* the callback spd_handle_irq

ASSUME SpdAssumption ==
    /\ SpdLines \subseteq Nat /\ IsFiniteSet(SpdLines)
    /\ SpdLines \cap IntrmanLines = {}
    /\ IRQ_IOP_DEV9 \in IntrmanLines
    /\ SpdHandler \in Callbacks

VARIABLES
    spd_irqs,       \* the callback of each virtual line, or NoCb
    spd_irq_count,  \* number of virtual lines requested
    intr_stat,      \* device register: lines asserted
    intr_mask,      \* device register: lines enabled
    spd_pc,         \* where spd_handle_irq is, "idle" when it is not running
    pending,        \* its local variable: lines it has yet to serve
    owed            \* history: lines raised since their last callback began

spdVars == <<spd_irqs, spd_irq_count, intr_stat, intr_mask, spd_pc, pending, owed>>

SpdTypeOK ==
    /\ spd_irqs \in [SpdLines -> Callbacks \cup {NoCb}]
    /\ spd_irq_count \in Int
    /\ intr_stat \subseteq SpdLines
    /\ intr_mask \subseteq SpdLines
    /\ spd_pc \in {"idle", "ack", "loop"}
    /\ pending \subseteq SpdLines
    /\ owed \subseteq SpdLines

SpdInit ==
    /\ spd_irqs = [l \in SpdLines |-> NoCb]
    /\ spd_irq_count = 0
    /\ intr_stat = {}
    /\ intr_mask = {}
    /\ spd_pc = "idle"
    /\ pending = {}
    /\ owed = {}

Requested == {l \in SpdLines : spd_irqs[l] # NoCb}

spd_valid_irq(irq) == irq \in SpdLines

----------------------------------------------------------------------------
(* Requesting and releasing.  The first lines of both functions run before  *)
(* interrupts are disabled; the rest is one critical section.               *)

\* A slip: a line may be requested again by whoever comes next.
spd_request_check_loose(irq, cb) == spd_valid_irq(irq) /\ cb # NoCb

spd_request_check(irq, cb) ==
    spd_valid_irq(irq) /\ cb # NoCb /\ spd_irqs[irq] = NoCb

spd_ack_irq____(irq) ==
    /\ intr_stat' = intr_stat \ {irq}
    /\ owed' = owed \ {irq}

\* A slip: all the others are cleared.
spd_disable_irq____others(irq)  == intr_mask' = intr_mask \cap {irq}

spd_enable_irq____(irq)  == intr_mask' = intr_mask \cup {irq}
spd_disable_irq____(irq) == intr_mask' = intr_mask \ {irq}

\* Slips: the whole table is written, or a callback is never cleared.
SetCbOfAll(irq, cb)  == spd_irqs' = [l \in SpdLines |-> cb]
SetCbForGood(irq, cb) ==
    spd_irqs' = IF cb = NoCb THEN spd_irqs ELSE [spd_irqs EXCEPT ![irq] = cb]

\* The descriptor of a line gets its callback.
SetCb(irq, cb) == spd_irqs' = [spd_irqs EXCEPT ![irq] = cb]

\* A slip: the second line claims IRQ_IOP_DEV9.
ClaimDev9Late(ioperr) ==
    \/ spd_irq_count = 1 /\ request_irq__(IRQ_IOP_DEV9, SpdHandler, ioperr)
    \/ spd_irq_count # 1 /\ ioperr = 0 /\ UNCHANGED intrmanVars

\* Claim IRQ_IOP_DEV9 for the first virtual line.
ClaimDev9(ioperr) ==
    \/ spd_irq_count = 0 /\ request_irq__(IRQ_IOP_DEV9, SpdHandler, ioperr)
    \/ spd_irq_count # 0 /\ ioperr = 0 /\ UNCHANGED intrmanVars

\* A slip: the line is counted before IRQ_IOP_DEV9 is claimed.
spd_request_locked_early(irq, cb, ret) ==
    \E ioperr \in Errnos :
       /\ ClaimDev9(ioperr)
       /\ spd_irq_count' = spd_irq_count + 1
       /\ \/ ioperr >= 0 /\ ret = 0
             /\ SetCb(irq, cb) /\ spd_ack_irq____(irq) /\ spd_enable_irq____(irq)
          \/ ioperr < 0 /\ ret = errno_for_iop_error(ioperr)
             /\ UNCHANGED <<spd_irqs, intr_stat, owed, intr_mask>>
       /\ UNCHANGED <<spd_pc, pending>>

spd_request_locked(irq, cb, ret) ==
    \E ioperr \in Errnos :
       /\ ClaimDev9(ioperr)
       /\ \/ /\ ioperr >= 0
             /\ ret = 0
             /\ spd_irq_count' = spd_irq_count + 1
             /\ SetCb(irq, cb)
             /\ spd_ack_irq____(irq)
             /\ spd_enable_irq____(irq)
          \/ /\ ioperr < 0
             /\ ret = errno_for_iop_error(ioperr)
             /\ UNCHANGED <<spd_irq_count, spd_irqs, intr_stat, owed, intr_mask>>
       /\ UNCHANGED <<spd_pc, pending>>

spd_request_irq__(irq, cb, ret) ==
    \/ spd_request_check(irq, cb) /\ spd_request_locked(irq, cb, ret)
    \/ ~spd_request_check(irq, cb) /\ ret = -EINVAL /\ UNCHANGED <<intrmanVars, spdVars>>

spd_release_check(irq) == spd_valid_irq(irq) /\ spd_irqs[irq] # NoCb

\* A slip: IRQ_IOP_DEV9 is given back when there is no line left to release.
DropDev9Late(ioperr) ==
    \/ spd_irq_count = 0 /\ release_irq__(IRQ_IOP_DEV9, ioperr)
    \/ spd_irq_count # 0 /\ ioperr = 0 /\ UNCHANGED intrmanVars

\* Give IRQ_IOP_DEV9 back with the last virtual line.
DropDev9(ioperr) ==
    \/ spd_irq_count = 1 /\ release_irq__(IRQ_IOP_DEV9, ioperr)
    \/ spd_irq_count # 1 /\ ioperr = 0 /\ UNCHANGED intrmanVars

CountDown(ioperr) ==
    spd_irq_count' = IF ioperr >= 0 THEN spd_irq_count - 1 ELSE spd_irq_count

\* The descriptor is cleared even when the line underneath is not released.
spd_release_locked(irq, ret) ==
    \E ioperr \in Errnos :
       /\ spd_disable_irq____(irq)
       /\ DropDev9(ioperr)
       /\ CountDown(ioperr)
       /\ SetCb(irq, NoCb)
       /\ ret = IF ioperr < 0 THEN errno_for_iop_error(ioperr) ELSE 0
       /\ UNCHANGED <<intr_stat, spd_pc, pending, owed>>

spd_release_irq__(irq, ret) ==
    \/ spd_release_check(irq) /\ spd_release_locked(irq, ret)
    \/ ~spd_release_check(irq) /\ ret = -EINVAL /\ UNCHANGED <<intrmanVars, spdVars>>

spd_enable_irq__(irq) ==
    /\ spd_valid_irq(irq)
    /\ spd_enable_irq____(irq)
    /\ UNCHANGED <<intrmanVars, spd_irqs, spd_irq_count, intr_stat, spd_pc, pending, owed>>

spd_disable_irq__(irq) ==
    /\ spd_valid_irq(irq)
    /\ spd_disable_irq____(irq)
    /\ UNCHANGED <<intrmanVars, spd_irqs, spd_irq_count, intr_stat, spd_pc, pending, owed>>

----------------------------------------------------------------------------
(* Interrupts                                                               *)

\* The device asserts a line, at any time.
RaiseSpd(l) ==
    /\ intr_stat' = intr_stat \cup {l}
    /\ owed' = owed \cup {l}
    /\ UNCHANGED <<intrmanVars, spd_irqs, spd_irq_count, intr_mask, spd_pc, pending>>

\* The DEV9 line is asserted while an enabled SPD line is; other causes of it
\* (the PC card) are latched in raised.
Dev9Asserted == IRQ_IOP_DEV9 \in raised \/ intr_stat \cap intr_mask # {}

\* spd_handle_irq is called and reads the two registers.
SpdEnter ==
    /\ spd_pc = "idle"
    /\ Dev9Asserted /\ IRQ_IOP_DEV9 \in enabled
    /\ handler[IRQ_IOP_DEV9] = SpdHandler
    /\ pending' = intr_stat \cap intr_mask
    /\ spd_pc' = "ack"
    /\ raised' = raised \ {IRQ_IOP_DEV9}
    /\ UNCHANGED <<handler, enabled, spd_irqs, spd_irq_count, intr_stat, intr_mask, owed>>

\* A slip: every line is acknowledged, those asserted meanwhile included.
SpdAckAll ==
    /\ spd_pc = "ack"
    /\ intr_stat' = {}
    /\ spd_pc' = "loop"
    /\ UNCHANGED <<intrmanVars, spd_irqs, spd_irq_count, intr_mask, pending, owed>>

\* Writing ones to SPD_REG_INTR_STAT clears these lines and no other.
SpdAck ==
    /\ spd_pc = "ack"
    /\ intr_stat' = intr_stat \ pending
    /\ spd_pc' = "loop"
    /\ UNCHANGED <<intrmanVars, spd_irqs, spd_irq_count, intr_mask, pending, owed>>

\* One round of the loop, up to the call: the highest line is served first.
SpdCall(l) ==
    /\ spd_pc = "loop"
    /\ l \in pending
    /\ \A m \in pending : m <= l
    /\ pending' = pending \ {l}
    /\ owed' = owed \ {l}
    /\ UNCHANGED <<intrmanVars, spd_irqs, spd_irq_count, intr_stat, intr_mask, spd_pc>>

SpdReturn ==
    /\ spd_pc = "loop"
    /\ pending = {}
    /\ spd_pc' = "idle"
    /\ UNCHANGED <<intrmanVars, spd_irqs, spd_irq_count, intr_stat, intr_mask, pending, owed>>

----------------------------------------------------------------------------
(* Properties                                                               *)

\* The DEV9 line of intrman is held by spd_handle_irq exactly while the count
\* says that some virtual line is in use, so that the first request claims it
\* and the last release gives it back (spd-irq.c, lines 113 and 154).
Dev9Held == handler[IRQ_IOP_DEV9] = SpdHandler <=> spd_irq_count > 0

\* The count is the number of virtual lines that have a callback: no sequence
\* of requests and releases, failing ones included, makes the two differ.
CountMatches == spd_irq_count = Cardinality(Requested)

\* A line whose interrupt is let through has a callback, so that spd_handle_irq
\* never acknowledges an interrupt nobody is told about.
MaskedUnlessRequested == intr_mask \subseteq Requested

\* An interrupt that was raised after the last callback of its line began is
\* still asserted in the device or among those the handler has yet to serve:
\* the acknowledgement (spd-irq.c, line 76) loses none that arrives meanwhile.
NoLostSpd == owed \subseteq intr_stat \cup pending
============================================================================
