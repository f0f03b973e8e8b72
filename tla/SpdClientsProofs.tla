-------------------------- MODULE SpdClientsProofs --------------------------
(***************************************************************************)
(* Drivers that ask for lines of their own, for any number of them, get     *)
(* along however they preempt one another between the checks of             *)
(* spd_request_irq__ and spd_release_irq__ and their critical sections.     *)
(* Two drivers that ask for the same line do not: that is the run           *)
(* spdclients_race, and the hypothesis LinesAreOwn.                         *)
(*                                                                          *)
(* The properties are not inductive: what the check found has still to hold *)
(* when the lock is taken, which is what ChecksStand adds.                  *)
(***************************************************************************)
EXTENDS SpdClients, IrqProofs

\* No line is wanted by two drivers.
LinesAreOwn == \A d, e \in Drivers : d # e => Wants[d] \cap Wants[e] = {}

ClientTypeOK ==
    /\ pc \in [Drivers -> {"runs", "requests", "releases"}]
    /\ line \in [Drivers -> SpdLines]
    /\ holds \in [Drivers -> SUBSET SpdLines]
    /\ \A l \in SpdLines : spd_irqs[l] \in Drivers \cup {NoCb}

\* Drivers stay with the lines they want.
OnlyWanted == \A d \in Drivers : line[d] \in Wants[d] /\ holds[d] \subseteq Wants[d]

\* The callbacks are those of the drivers that hold the lines.
HoldersAreCalled ==
    \A d \in Drivers : \A l \in SpdLines : l \in holds[d] <=> spd_irqs[l] = d

\* What the check found still holds before the lock is taken.
ChecksStand ==
    \A d \in Drivers :
        /\ pc[d] = "requests" => spd_irqs[line[d]] = NoCb
        /\ pc[d] = "releases" => line[d] \in holds[d]

ClientsInv ==
    /\ IrqBase
    /\ ClientTypeOK
    /\ OnlyWanted
    /\ HoldersAreCalled
    /\ ChecksStand

\* The assumptions on the callbacks, in the form the steps need them.
LEMMA DriversAreCallbacks ==
    /\ Drivers \subseteq Callbacks \ {SpdHandler}
    /\ NoCb \notin Drivers /\ SpdHandler \notin Drivers /\ SpdHandler # NoCb
    /\ \A d \in Drivers : Wants[d] \subseteq SpdLines
  BY ClientsAssumption, SpdAssumption, IntrmanAssumption

\* The initial state satisfies the invariant.
LEMMA InitClientsInv == Init => ClientsInv
<1>. SUFFICES ASSUME Init PROVE ClientsInv
  OBVIOUS
<1>1. Requested = {} /\ Cardinality(Requested) = 0
  BY FS_EmptySet DEF Init, SpdInit, Requested
<1>2. IrqBase
  BY <1>1, SpdAssumption, IntrmanAssumption
  DEF Init, IntrmanInit, SpdInit, IrqBase, IrqTypeOK, IntrmanTypeOK, SpdTypeOK,
      HandlerOnDev9, IdleServesNothing, Dev9Held, CountCovers, MaskedUnlessRequested,
      NoLostSpd, CountMatches
<1>3. ClientTypeOK /\ OnlyWanted /\ HoldersAreCalled /\ ChecksStand
  BY DriversAreCallbacks
  DEF Init, SpdInit, ClientTypeOK, OnlyWanted, HoldersAreCalled, ChecksStand
<1> QED BY <1>2, <1>3 DEF ClientsInv

\* Steps of the device and of the handler, and calls that only mask, leave what
\* the drivers know as it is.
LEMMA CallbacksKept ==
    ASSUME ClientsInv, IrqBase', UNCHANGED <<spd_irqs, clientVars>>
    PROVE  ClientsInv'
  BY DEF ClientsInv, ClientTypeOK, OnlyWanted, HoldersAreCalled, ChecksStand, clientVars

\* A check that lets the call through changes nothing but where the driver is.
LEMMA CheckStep ==
    ASSUME ClientsInv, NEW d \in Drivers, RequestChecks(d) \/ ReleaseChecks(d)
    PROVE  ClientsInv'
<1>1. UNCHANGED <<irqVars, holds>>
  BY DEF RequestChecks, ReleaseChecks
<1>2. IrqBase'
  BY <1>1
  DEF ClientsInv, irqVars, intrmanVars, spdVars, IrqBase, IrqTypeOK, IntrmanTypeOK,
      SpdTypeOK, HandlerOnDev9, IdleServesNothing, Dev9Held, CountCovers,
      MaskedUnlessRequested, NoLostSpd, CountMatches, Requested
<1>3. PICK l \in Wants[d], at \in {"requests", "releases"} :
         /\ Goes(d, at, l)
         /\ at = "requests" => spd_irqs[l] = NoCb
         /\ at = "releases" => l \in holds[d]
  BY DEF RequestChecks, ReleaseChecks, spd_request_check, ClientsInv, OnlyWanted
<1>4. ClientTypeOK' /\ OnlyWanted'
  BY <1>1, <1>3, DriversAreCallbacks DEF ClientsInv, ClientTypeOK, OnlyWanted, Goes, irqVars, spdVars
<1>5. HoldersAreCalled' /\ ChecksStand'
  BY <1>1, <1>3
  DEF ClientsInv, ClientTypeOK, HoldersAreCalled, ChecksStand, Goes, irqVars, spdVars
<1> QED BY <1>2, <1>4, <1>5 DEF ClientsInv

\* The line is still free when the lock is taken, and it is nobody else's.
LEMMA RequestStep ==
    ASSUME LinesAreOwn, ClientsInv, NEW d \in Drivers, RequestLocks(d)
    PROVE  ClientsInv'
<1>1. PICK ret \in Errnos :
         /\ spd_request_locked(line[d], d, ret)
         /\ holds' = IF ret = 0 THEN [holds EXCEPT ![d] = @ \cup {line[d]}] ELSE holds
  BY DEF RequestLocks
<1>2. pc[d] = "requests" /\ pc' = [pc EXCEPT ![d] = "runs"] /\ line' = line
  BY DEF RequestLocks, ThreadRuns, Goes, ClientsInv, ClientTypeOK
<1>3. spd_request_irq__(line[d], d, ret)
  BY <1>1, <1>2, DriversAreCallbacks
  DEF spd_request_irq__, spd_request_check, spd_valid_irq, ClientsInv, ClientTypeOK, ChecksStand
<1>4. /\ IrqBase'
      /\ \/ ret = 0 /\ spd_irqs' = [spd_irqs EXCEPT ![line[d]] = d]
         \/ ret < 0 /\ UNCHANGED spd_irqs
  <2>1. PICK l : l = line[d]
    OBVIOUS
  <2>2. IrqBase /\ d \in Callbacks \ {SpdHandler} /\ spd_request_irq__(l, d, ret)
    BY <1>3, <2>1, DriversAreCallbacks DEF ClientsInv
  <2>3. IrqBase'
    BY <2>2, SpdRequest
  <2>4. \/ ret = 0 /\ spd_irqs' = [spd_irqs EXCEPT ![l] = d]
        \/ ret < 0 /\ UNCHANGED <<spd_irqs, handler>>
    BY <2>2, SpdRequest
  <2> QED BY <2>1, <2>3, <2>4
<1>5. CASE ret < 0 /\ UNCHANGED spd_irqs
  <2>1. holds' = holds
    BY <1>1, <1>5
  <2> QED BY <1>2, <1>4, <1>5, <2>1
      DEF ClientsInv, ClientTypeOK, OnlyWanted, HoldersAreCalled, ChecksStand
<1>6. CASE ret = 0 /\ spd_irqs' = [spd_irqs EXCEPT ![line[d]] = d]
  <2>. DEFINE l == line[d]
  <2>1. l \in SpdLines /\ spd_irqs[l] = NoCb /\ l \in Wants[d]
    BY <1>2 DEF ClientsInv, ClientTypeOK, ChecksStand, OnlyWanted
  <2>2. holds' = [holds EXCEPT ![d] = @ \cup {l}]
    BY <1>1, <1>6
  <2>3. spd_irqs'[l] = d /\ \A m \in SpdLines \ {l} : spd_irqs'[m] = spd_irqs[m]
    BY <1>6, <2>1 DEF ClientsInv, IrqBase, IrqTypeOK, SpdTypeOK
  <2>4. ClientTypeOK' /\ OnlyWanted'
    BY <1>2, <2>1, <2>2, <2>3 DEF ClientsInv, ClientTypeOK, OnlyWanted
  <2>5. HoldersAreCalled'
    BY <2>1, <2>2, <2>3, DriversAreCallbacks DEF ClientsInv, ClientTypeOK, HoldersAreCalled
  <2>6. \A e \in Drivers \ {d} : line[e] # l
    BY <2>1 DEF LinesAreOwn, ClientsInv, OnlyWanted
  <2>7. ChecksStand'
    BY <1>2, <2>2, <2>3, <2>6 DEF ClientsInv, ClientTypeOK, ChecksStand
  <2> QED BY <1>4, <2>4, <2>5, <2>7 DEF ClientsInv
<1> QED BY <1>4, <1>5, <1>6

\* The line is still the driver's when the lock is taken, and it is given up even
\* when IRQ_IOP_DEV9 cannot be.
LEMMA ReleaseStep ==
    ASSUME LinesAreOwn, ClientsInv, NEW d \in Drivers, ReleaseLocks(d)
    PROVE  ClientsInv'
<1>. DEFINE l == line[d]
<1>1. PICK ret \in Errnos : spd_release_locked(l, ret)
  BY DEF ReleaseLocks
<1>2. /\ pc[d] = "releases" /\ pc' = [pc EXCEPT ![d] = "runs"] /\ line' = line
      /\ holds' = [holds EXCEPT ![d] = @ \ {l}]
  BY DEF ReleaseLocks, ThreadRuns, Goes, ClientsInv, ClientTypeOK
<1>3. l \in SpdLines /\ l \in Wants[d] /\ spd_irqs[l] = d
  BY <1>2 DEF ClientsInv, ClientTypeOK, ChecksStand, OnlyWanted, HoldersAreCalled
<1>4. spd_release_check(l) /\ spd_release_irq__(l, ret)
  BY <1>1, <1>3, DriversAreCallbacks DEF spd_release_irq__, spd_release_check, spd_valid_irq
<1>5. IrqBase' /\ spd_irqs' = [spd_irqs EXCEPT ![l] = NoCb]
  BY <1>4, SpdRelease DEF ClientsInv
<1>6. spd_irqs'[l] = NoCb /\ \A m \in SpdLines \ {l} : spd_irqs'[m] = spd_irqs[m]
  BY <1>3, <1>5 DEF ClientsInv, IrqBase, IrqTypeOK, SpdTypeOK
<1>7. ClientTypeOK' /\ OnlyWanted'
  BY <1>2, <1>3, <1>6 DEF ClientsInv, ClientTypeOK, OnlyWanted
<1>8. HoldersAreCalled'
  BY <1>2, <1>3, <1>6, DriversAreCallbacks DEF ClientsInv, ClientTypeOK, HoldersAreCalled
<1>9. \A e \in Drivers \ {d} : line[e] # l
  BY <1>3 DEF LinesAreOwn, ClientsInv, OnlyWanted
<1>10. ChecksStand'
  BY <1>2, <1>6, <1>9 DEF ClientsInv, ClientTypeOK, ChecksStand
<1> QED BY <1>5, <1>7, <1>8, <1>10 DEF ClientsInv

\* A driver masks only lines that have its callback.
LEMMA MaskStep ==
    ASSUME ClientsInv, NEW d \in Drivers, EnablesOrDisables(d)
    PROVE  ClientsInv'
<1>1. PICK l \in holds[d] : enable_irq(l) \/ disable_irq(l)
  BY DEF EnablesOrDisables
<1>2. l \in SpdLines /\ spd_irqs[l] = d
  BY DEF ClientsInv, ClientTypeOK, HoldersAreCalled
<1>3. l \in Requested /\ (spd_enable_irq__(l) \/ spd_disable_irq__(l))
  BY <1>1, <1>2, DriversAreCallbacks DEF Requested, enable_irq, disable_irq, spd_valid_irq
<1>4. IrqBase' /\ UNCHANGED spd_irqs
  BY <1>3, SpdMaskStep DEF ClientsInv
<1> QED BY <1>4, CallbacksKept DEF EnablesOrDisables

----------------------------------------------------------------------------
(* Theorems                                                                 *)

\* The invariant holds in every state, for any number of drivers with lines of
\* their own, whatever intrman answers.
THEOREM ClientsInvHolds ==
    ASSUME LinesAreOwn PROVE Spec => []ClientsInv
<1>1. ClientsInv /\ [Next]_vars => ClientsInv'
  <2>. SUFFICES ASSUME ClientsInv, [Next]_vars PROVE ClientsInv'
    OBVIOUS
  <2>1. ASSUME NEW d \in Drivers, Client(d) PROVE ClientsInv'
    BY <2>1, CheckStep, RequestStep, ReleaseStep, MaskStep DEF Client
  <2>2. CASE SpdServe \/ \E l \in SpdLines : Raise(l)
    <3>1. IrqBase' /\ UNCHANGED spd_irqs
      BY <2>2, SpdStep DEF SpdServe, Raise, ClientsInv
    <3> QED BY <2>2, <3>1, CallbacksKept DEF SpdServe, Raise
  <2>3. CASE UNCHANGED vars
    <3>1. UNCHANGED <<irqVars, clientVars>>
      BY <2>3 DEF vars
    <3>2. IrqBase'
      BY <3>1
      DEF ClientsInv, irqVars, intrmanVars, spdVars, IrqBase, IrqTypeOK, IntrmanTypeOK,
          SpdTypeOK, HandlerOnDev9, IdleServesNothing, Dev9Held, CountCovers,
          MaskedUnlessRequested, NoLostSpd, CountMatches, Requested
    <3> QED BY <3>1, <3>2, CallbacksKept DEF irqVars, spdVars
  <2> QED BY <2>1, <2>2, <2>3 DEF Next
<1> QED BY <1>1, InitClientsInv, PTL DEF Spec

\* A driver whose request was granted is the one called back, until it releases
\* the line (spd-irq.c, line 91).
THEOREM GrantedAreCalled ==
    ASSUME LinesAreOwn PROVE Spec => []GrantedIsCalled
<1>1. ClientsInv => GrantedIsCalled
  BY DEF ClientsInv, ClientTypeOK, HoldersAreCalled, GrantedIsCalled
<1> QED BY <1>1, ClientsInvHolds, PTL

\* An interrupt never goes to a driver that was not granted the line.
THEOREM OnlyHoldersAreCalled ==
    ASSUME LinesAreOwn PROVE Spec => []CallsOnlyHolders
<1>1. ClientsInv => CallsOnlyHolders
  BY DEF ClientsInv, HoldersAreCalled, CallsOnlyHolders
<1> QED BY <1>1, ClientsInvHolds, PTL

\* The controllers stay right while drivers mask lines, preempt one another and
\* are interrupted: the shared line is held by count, nothing without a callback
\* is let through, and no interrupt is lost.
THEOREM ControllersStayRight ==
    ASSUME LinesAreOwn
    PROVE  Spec => [](Dev9Held /\ MaskedUnlessRequested /\ NoLostSpd)
<1>1. ClientsInv => Dev9Held /\ MaskedUnlessRequested /\ NoLostSpd
  BY DEF ClientsInv, IrqBase
<1> QED BY <1>1, ClientsInvHolds, PTL

\* When intrman refuses only what it must, the count is the number of lines in
\* use, whatever the drivers do between the checks and the locks.
THEOREM CountStaysExact ==
    ASSUME LinesAreOwn, ~MayFail PROVE Spec => []CountMatches
<1>1. ClientsInv => CountMatches
  BY DEF ClientsInv, IrqBase
<1> QED BY <1>1, ClientsInvHolds, PTL
============================================================================
