------------------------------ MODULE Intrman ------------------------------
(***************************************************************************)
(* The interrupt manager of the IOP (the ROM module intrman) as the code    *)
(* under src/ uses it, and the two wrappers of builtin/interrupt.c.         *)
(*                                                                          *)
(* intrman itself is external: each line has at most one handler, a second  *)
(* registration fails, releasing a line that has none fails, and either of  *)
(* them may in addition fail for a reason the caller cannot see if MayFail  *)
(* is TRUE.  An operation that returns a value is a relation: its last         *)
(* parameter "ret" is the value returned by the step it describes.          *)
(***************************************************************************)
EXTENDS Integers

CONSTANTS
    IntrmanLines,   \* interrupt lines the hardware controller has
    Callbacks,      \* functions, with their argument, one may register
    NoCb,           \* the null callback
    MayFail         \* may intrman fail for reasons of its own?

ASSUME IntrmanAssumption ==
    /\ IntrmanLines \subseteq Nat
    /\ NoCb \notin Callbacks
    /\ MayFail \in BOOLEAN

VARIABLES
    handler,        \* the callback registered on each line, or NoCb
    enabled,        \* lines that are not masked
    raised          \* lines whose interrupt is latched and not yet served

intrmanVars == <<handler, enabled, raised>>

IntrmanTypeOK ==
    /\ handler \in [IntrmanLines -> Callbacks \cup {NoCb}]
    /\ enabled \subseteq IntrmanLines
    /\ raised \subseteq IntrmanLines

IntrmanInit ==
    /\ handler = [l \in IntrmanLines |-> NoCb]
    /\ enabled = {}
    /\ raised = {}

----------------------------------------------------------------------------
(* Error numbers.  The kernel's are positive and returned negated, those of *)
(* the IOP are -100 and below.                                              *)

EPERM  == 1
ENOENT == 2
ENXIO  == 6
ENOMEM == 12
EBUSY  == 16
EINVAL == 22

IOP_EINIRQ    == 100
IOP_EBADIRQ   == 101
IOP_ECPUINTD  == 102
IOP_EINTD     == 103
IOP_EBUSYHAND == 104
IOP_ENOHAND   == 105

\* What an intrman call may return.
IopReturns == {0} \cup {-e : e \in IOP_EINIRQ .. IOP_ENOHAND}

\* What a call that returns an errno may return.
Errnos == {0} \cup {-e : e \in {EPERM, ENOENT, ENXIO, ENOMEM, EBUSY, EINVAL}}

errno_for_iop_error(ioperr) ==
    IF -ioperr \in {IOP_EINIRQ, IOP_ECPUINTD, IOP_EINTD} THEN -EPERM
    ELSE IF -ioperr = IOP_EBADIRQ THEN -EINVAL
    ELSE IF -ioperr = IOP_EBUSYHAND THEN -EBUSY
    ELSE IF -ioperr = IOP_ENOHAND THEN -ENOENT
    ELSE IF -1000 < ioperr /\ ioperr < 0 THEN -EINVAL
    ELSE ioperr

----------------------------------------------------------------------------
(* intrman calls                                                            *)

Free(irq) == irq \in IntrmanLines /\ handler[irq] = NoCb
Held(irq) == irq \in IntrmanLines /\ handler[irq] # NoCb

intrman_request_irq(irq, cb, ret) ==
    \/ /\ Free(irq)
       /\ ret = 0
       /\ handler' = [handler EXCEPT ![irq] = cb]
    \/ /\ \/ irq \notin IntrmanLines /\ ret = -IOP_EBADIRQ
          \/ Held(irq) /\ ret = -IOP_EBUSYHAND
          \/ MayFail /\ ret = -IOP_ECPUINTD
       /\ UNCHANGED handler

intrman_release_irq(irq, ret) ==
    \/ /\ Held(irq)
       /\ ret = 0
       /\ handler' = [handler EXCEPT ![irq] = NoCb]
    \/ /\ \/ irq \notin IntrmanLines /\ ret = -IOP_EBADIRQ
          \/ Free(irq) /\ ret = -IOP_ENOHAND
          \/ MayFail /\ ret = -IOP_ECPUINTD
       /\ UNCHANGED handler

\* A slip: a line that is requested but never let through.
enable_irq__forgotten(irq) == UNCHANGED enabled

enable_irq__(irq)  == enabled' = enabled \cup (IntrmanLines \cap {irq})
disable_irq__(irq) == enabled' = enabled \ {irq}

----------------------------------------------------------------------------
(* builtin/interrupt.c                                                      *)

request_irq__(irq, cb, ret) ==
    \E ioperr \in IopReturns :
       /\ intrman_request_irq(irq, cb, ioperr)
       /\ \/ ioperr < 0 /\ ret = errno_for_iop_error(ioperr) /\ UNCHANGED enabled
          \/ ioperr >= 0 /\ ret = 0 /\ enable_irq__(irq)
       /\ UNCHANGED raised

\* The line is masked before it is given back, and stays masked if it cannot be.
release_irq__(irq, ret) ==
    \E ioperr \in IopReturns :
       /\ disable_irq__(irq)
       /\ intrman_release_irq(irq, ioperr)
       /\ ret = IF ioperr < 0 THEN errno_for_iop_error(ioperr) ELSE 0
       /\ UNCHANGED raised
============================================================================
