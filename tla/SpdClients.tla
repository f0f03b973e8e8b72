----------------------------- MODULE SpdClients -----------------------------
(***************************************************************************)
(* Drivers in threads of their own that call request_irq, release_irq,      *)
(* enable_irq and disable_irq for lines of the SPD, preempting one another. *)
(*                                                                          *)
(* spd_request_irq__ and spd_release_irq__ examine the descriptor before    *)
(* they disable interrupts (spd-irq.c, lines 108 and 147), so each is two   *)
(* steps here, and another thread may run between them.                     *)
(***************************************************************************)
EXTENDS Irq

CONSTANTS
    Drivers,    \* each is also the callback and argument it registers
    Wants       \* the lines that each driver may ask for

ASSUME ClientsAssumption ==
    /\ Drivers \cup {SpdHandler} \subseteq Callbacks
    /\ SpdHandler \notin Drivers
    /\ Wants \in [Drivers -> SUBSET SpdLines]

VARIABLES
    pc,         \* "requests" or "releases": past the check, before the lock
    line,       \* the line a driver's call is about
    holds       \* history: lines granted to a driver and not yet released

clientVars == <<pc, line, holds>>
vars == <<irqVars, clientVars>>

Init ==
    /\ IntrmanInit
    /\ SpdInit
    /\ pc = [d \in Drivers |-> "runs"]
    /\ line \in {f \in [Drivers -> SpdLines] : \A d \in Drivers : f[d] \in Wants[d]}
    /\ holds = [d \in Drivers |-> {}]

----------------------------------------------------------------------------
(* Threads run only while no interrupt is handled.                          *)

ThreadRuns(d, at) == spd_pc = "idle" /\ pc[d] = at

Goes(d, at, l) == pc' = [pc EXCEPT ![d] = at] /\ line' = [line EXCEPT ![d] = l]

\* The check has let the call through; one that fails returns -EINVAL at once
\* and changes nothing.
RequestChecks(d) ==
    /\ ThreadRuns(d, "runs")
    /\ \E l \in Wants[d] : spd_request_check(l, d) /\ Goes(d, "requests", l)
    /\ UNCHANGED <<irqVars, holds>>

RequestLocks(d) ==
    /\ ThreadRuns(d, "requests")
    /\ \E ret \in Errnos :
          /\ spd_request_locked(line[d], d, ret)
          /\ holds' = IF ret = 0 THEN [holds EXCEPT ![d] = @ \cup {line[d]}] ELSE holds
    /\ Goes(d, "runs", line[d])

\* A driver releases what it was granted.
ReleaseChecks(d) ==
    /\ ThreadRuns(d, "runs")
    /\ \E l \in holds[d] : spd_release_check(l) /\ Goes(d, "releases", l)
    /\ UNCHANGED <<irqVars, holds>>

ReleaseLocks(d) ==
    /\ ThreadRuns(d, "releases")
    /\ \E ret \in Errnos : spd_release_locked(line[d], ret)
    /\ holds' = [holds EXCEPT ![d] = @ \ {line[d]}]
    /\ Goes(d, "runs", line[d])

\* A driver may mask its line in its callback too, while its thread is anywhere.
EnablesOrDisables(d) ==
    /\ ThreadRuns(d, "runs") \/ spd_pc = "loop"
    /\ \E l \in holds[d] : enable_irq(l) \/ disable_irq(l)
    /\ UNCHANGED clientVars

Client(d) ==
    \/ RequestChecks(d) \/ RequestLocks(d)
    \/ ReleaseChecks(d) \/ ReleaseLocks(d)
    \/ EnablesOrDisables(d)

Raise(l)  == RaiseSpd(l) /\ UNCHANGED clientVars

SpdServe ==
    /\ SpdEnter \/ SpdAck \/ (\E l \in SpdLines : SpdCall(l)) \/ SpdReturn
    /\ UNCHANGED clientVars

Next ==
    \/ \E d \in Drivers : Client(d)
    \/ \E l \in SpdLines : Raise(l)
    \/ SpdServe

\* Handlers run to their end; nothing obliges a driver to go on.
Fairness == WF_vars(SpdServe)

Spec == Init /\ [][Next]_vars

LiveSpec == Spec /\ Fairness

----------------------------------------------------------------------------
(* Properties                                                               *)

\* "allocate a DEV9 SPD interrupt line" (spd-irq.c, line 91): a driver whose
\* request was granted is the one called back, until it releases the line.
GrantedIsCalled ==
    \A d \in Drivers : \A l \in holds[d] :
        (pc[d] = "releases" /\ line[d] = l) \/ spd_irqs[l] = d

\* An interrupt on a line whose driver has it enabled reaches the callback,
\* unless the driver masks or releases the line first.
OwedIsServed ==
    \A l \in SpdLines :
        l \in owed \cap intr_mask ~> l \notin owed \cap intr_mask

\* A device interrupt never goes to a driver that has no call pending and has
\* not been granted the line.
CallsOnlyHolders ==
    \A l \in SpdLines : \A d \in Drivers :
        spd_irqs[l] = d => l \in holds[d]
============================================================================
