----------------------------- MODULE IrqProofs -----------------------------
(***************************************************************************)
(* Facts about request_irq, release_irq and spd_handle_irq: what a call     *)
(* returns and changes, and the invariant of the interrupt controllers that *)
(* every operation keeps, whatever intrman answers.                         *)
(***************************************************************************)
EXTENDS Irq, FiniteSetTheorems, TLAPS

\* Only IRQ_IOP_DEV9 is ever served by spd_handle_irq.
HandlerOnDev9 ==
    /\ \A l \in IntrmanLines : handler[l] = SpdHandler => l = IRQ_IOP_DEV9
    /\ \A l \in SpdLines : spd_irqs[l] # SpdHandler

IdleServesNothing == spd_pc = "idle" => pending = {}

IrqTypeOK == IntrmanTypeOK /\ SpdTypeOK

\* A failed release of IRQ_IOP_DEV9 leaves the count above the number of lines.
CountCovers ==
    /\ spd_irq_count \in Nat
    /\ spd_irq_count >= Cardinality(Requested)

\* What holds whoever uses the lines: the count is exact when intrman refuses
\* only what it must.
IrqBase ==
    /\ IrqTypeOK
    /\ HandlerOnDev9
    /\ IdleServesNothing
    /\ Dev9Held
    /\ CountCovers
    /\ MaskedUnlessRequested
    /\ NoLostSpd
    /\ ~MayFail => CountMatches

\* What holds besides while nobody masks a line.
IrqActive ==
    /\ intr_mask = Requested
    /\ \A l \in IntrmanLines : Held(l) => l \in enabled

IrqInv ==
    /\ IrqBase
    /\ ~MayFail => IrqActive

----------------------------------------------------------------------------
(* Error numbers                                                            *)

\* The error numbers of intrman become errnos, and stay errors.
LEMMA ErrnoOfIopError ==
    \A e \in IopReturns : e < 0 =>
        errno_for_iop_error(e) \in Errnos /\ errno_for_iop_error(e) < 0
  BY DEF IopReturns, Errnos, errno_for_iop_error, IOP_EINIRQ, IOP_EBADIRQ, IOP_ECPUINTD,
         IOP_EINTD, IOP_EBUSYHAND, IOP_ENOHAND, EPERM, ENOENT, ENXIO, ENOMEM, EBUSY, EINVAL

\* A number that is an errno already, converted once more, is -EINVAL.
LEMMA ErrnoOfErrno ==
    \A e \in Errnos : e < 0 => errno_for_iop_error(e) = -EINVAL
  BY DEF Errnos, errno_for_iop_error, IOP_EINIRQ, IOP_EBADIRQ, IOP_ECPUINTD,
         IOP_EINTD, IOP_EBUSYHAND, IOP_ENOHAND, EPERM, ENOENT, ENXIO, ENOMEM, EBUSY, EINVAL

\* The range of errnos, and of what intrman returns.
LEMMA ErrnosAreIntegers ==
    Errnos \subseteq Int /\ -EINVAL \in Errnos /\ -EINVAL < 0 /\ 0 \in Errnos
  BY DEF Errnos, EPERM, ENOENT, ENXIO, ENOMEM, EBUSY, EINVAL

\* Whatever intrman returns can be compared with zero.
LEMMA IopReturnsAreIntegers == IopReturns \subseteq Int
  BY DEF IopReturns, IOP_EINIRQ, IOP_ENOHAND

----------------------------------------------------------------------------
(* The two wrappers of builtin/interrupt.c                                  *)

\* request_irq__ either takes a free line and unmasks it or changes nothing.
LEMMA RequestTakesLine ==
    ASSUME IntrmanTypeOK, NEW irq, NEW cb, NEW ret, request_irq__(irq, cb, ret)
    PROVE  /\ raised' = raised
           /\ ret \in Errnos
           /\ \/ /\ ret = 0 /\ Free(irq)
                 /\ handler' = [handler EXCEPT ![irq] = cb]
                 /\ enabled' = enabled \cup {irq}
              \/ /\ ret < 0 /\ UNCHANGED <<handler, enabled>>
                 /\ MayFail \/ ~Free(irq)
<1>1. PICK ioperr \in IopReturns :
         /\ intrman_request_irq(irq, cb, ioperr)
         /\ \/ ioperr < 0 /\ ret = errno_for_iop_error(ioperr) /\ UNCHANGED enabled
            \/ ioperr >= 0 /\ ret = 0 /\ enable_irq__(irq)
         /\ UNCHANGED raised
  BY DEF request_irq__
<1>2. CASE Free(irq) /\ ioperr = 0 /\ handler' = [handler EXCEPT ![irq] = cb]
  BY <1>1, <1>2, ErrnosAreIntegers DEF enable_irq__, Free
<1>3. CASE /\ \/ irq \notin IntrmanLines /\ ioperr = -IOP_EBADIRQ
              \/ Held(irq) /\ ioperr = -IOP_EBUSYHAND
              \/ MayFail /\ ioperr = -IOP_ECPUINTD
           /\ UNCHANGED handler
  <2>1. ioperr < 0
    BY <1>3 DEF IOP_EBADIRQ, IOP_EBUSYHAND, IOP_ECPUINTD
  <2>2. ret \in Errnos /\ ret < 0 /\ UNCHANGED enabled
    BY <1>1, <2>1, ErrnoOfIopError, IopReturnsAreIntegers
  <2> QED BY <1>1, <1>3, <2>2 DEF Free, Held
<1> QED BY <1>1, <1>2, <1>3 DEF intrman_request_irq

\* release_irq__ masks the line in any case, and gives it back or fails.
LEMMA ReleaseGivesLine ==
    ASSUME IntrmanTypeOK, NEW irq, NEW ret, release_irq__(irq, ret)
    PROVE  /\ raised' = raised
           /\ ret \in Errnos
           /\ enabled' = enabled \ {irq}
           /\ \/ ret = 0 /\ Held(irq) /\ handler' = [handler EXCEPT ![irq] = NoCb]
              \/ /\ ret < 0 /\ UNCHANGED handler
                 /\ MayFail \/ ~Held(irq)
<1>1. PICK ioperr \in IopReturns :
         /\ disable_irq__(irq)
         /\ intrman_release_irq(irq, ioperr)
         /\ ret = IF ioperr < 0 THEN errno_for_iop_error(ioperr) ELSE 0
         /\ UNCHANGED raised
  BY DEF release_irq__
<1>2. CASE Held(irq) /\ ioperr = 0 /\ handler' = [handler EXCEPT ![irq] = NoCb]
  BY <1>1, <1>2, ErrnosAreIntegers DEF disable_irq__
<1>3. CASE /\ \/ irq \notin IntrmanLines /\ ioperr = -IOP_EBADIRQ
              \/ Free(irq) /\ ioperr = -IOP_ENOHAND
              \/ MayFail /\ ioperr = -IOP_ECPUINTD
           /\ UNCHANGED handler
  <2>1. ioperr < 0
    BY <1>3 DEF IOP_EBADIRQ, IOP_ENOHAND, IOP_ECPUINTD
  <2>2. ret \in Errnos /\ ret < 0
    BY <1>1, <2>1, ErrnoOfIopError
  <2> QED BY <1>1, <1>3, <2>2 DEF Free, Held, disable_irq__
<1> QED BY <1>1, <1>2, <1>3 DEF intrman_release_irq

----------------------------------------------------------------------------
(* Requesting and releasing a line of the SPD                               *)

\* Registering a callback adds one line to those requested.
LEMMA RequestedGrows ==
    ASSUME SpdTypeOK, NEW irq \in SpdLines, NEW cb, cb # NoCb, spd_irqs[irq] = NoCb,
           spd_irqs' = [spd_irqs EXCEPT ![irq] = cb]
    PROVE  /\ Requested' = Requested \cup {irq}
           /\ Cardinality(Requested') = Cardinality(Requested) + 1
           /\ Cardinality(Requested) \in Nat
<1>1. Requested' = Requested \cup {irq} /\ irq \notin Requested
  BY DEF Requested, SpdTypeOK
<1>2. IsFiniteSet(Requested)
  BY SpdAssumption, FS_Subset DEF Requested
<1> QED BY <1>1, <1>2, FS_AddElement, FS_CardinalityType

\* Clearing a callback takes one line from those requested.
LEMMA RequestedShrinks ==
    ASSUME SpdTypeOK, NEW irq \in SpdLines, spd_irqs[irq] # NoCb,
           spd_irqs' = [spd_irqs EXCEPT ![irq] = NoCb]
    PROVE  /\ Requested' = Requested \ {irq}
           /\ Cardinality(Requested') = Cardinality(Requested) - 1
           /\ Cardinality(Requested) \in Nat \ {0}
<1>1. Requested' = Requested \ {irq} /\ irq \in Requested
  BY DEF Requested, SpdTypeOK
<1>2. IsFiniteSet(Requested)
  BY SpdAssumption, FS_Subset DEF Requested
<1>3. Cardinality(Requested \ {irq}) = Cardinality(Requested) - 1
  BY <1>1, <1>2, FS_RemoveElement
<1>4. Cardinality(Requested) # 0
  BY <1>1, <1>2, FS_EmptySet
<1> QED BY <1>1, <1>2, <1>3, <1>4, FS_CardinalityType

\* Without a line requested before, IRQ_IOP_DEV9 is claimed; otherwise it is
\* held already.  A failure changes nothing.
LEMMA Dev9Claimed ==
    ASSUME IrqBase, NEW ioperr \in Errnos, ClaimDev9(ioperr)
    PROVE  /\ raised' = raised
           /\ \/ /\ ioperr = 0
                 /\ handler' = [handler EXCEPT ![IRQ_IOP_DEV9] = SpdHandler]
                 /\ handler[IRQ_IOP_DEV9] \in {NoCb, SpdHandler}
                 /\ enabled \subseteq enabled' /\ enabled' \subseteq IntrmanLines
                 /\ IrqActive => IRQ_IOP_DEV9 \in enabled'
              \/ /\ ioperr < 0
                 /\ UNCHANGED <<handler, enabled>>
                 /\ MayFail \/ Held(IRQ_IOP_DEV9)
<1>. USE DEF IrqBase, IrqTypeOK
<1>1. CASE spd_irq_count = 0 /\ request_irq__(IRQ_IOP_DEV9, SpdHandler, ioperr)
  <2>1. CASE ioperr = 0 /\ Free(IRQ_IOP_DEV9)
    BY <1>1, <2>1, RequestTakesLine, SpdAssumption DEF Free, IntrmanTypeOK
  <2>2. CASE ioperr < 0
    BY <1>1, <2>2, RequestTakesLine, SpdAssumption DEF Free, Held
  <2> QED BY <1>1, <2>1, <2>2, RequestTakesLine
<1>2. CASE spd_irq_count # 0 /\ ioperr = 0 /\ UNCHANGED intrmanVars
  <2>1. handler[IRQ_IOP_DEV9] = SpdHandler
    BY <1>2 DEF Dev9Held, CountCovers
  <2>2. Held(IRQ_IOP_DEV9)
    BY <2>1, SpdAssumption, IntrmanAssumption DEF Held
  <2>3. handler = [handler EXCEPT ![IRQ_IOP_DEV9] = SpdHandler]
    BY <2>1 DEF IntrmanTypeOK
  <2>4. IrqActive => IRQ_IOP_DEV9 \in enabled
    BY <2>2, SpdAssumption DEF IrqActive
  <2>5. UNCHANGED <<handler, enabled, raised>>
    BY <1>2 DEF intrmanVars
  <2> QED BY <1>2, <2>1, <2>3, <2>4, <2>5 DEF IntrmanTypeOK
<1> QED BY <1>1, <1>2 DEF ClaimDev9

\* The last line gives IRQ_IOP_DEV9 back or fails to; before, nothing happens.
LEMMA Dev9Dropped ==
    ASSUME IrqBase, Requested # {}, NEW ioperr \in Errnos, DropDev9(ioperr)
    PROVE  /\ raised' = raised
           /\ enabled \ {IRQ_IOP_DEV9} \subseteq enabled' /\ enabled' \subseteq enabled
           /\ \/ /\ ioperr = 0 /\ spd_irq_count = 1
                 /\ handler' = [handler EXCEPT ![IRQ_IOP_DEV9] = NoCb]
              \/ /\ ioperr = 0 /\ spd_irq_count > 1
                 /\ UNCHANGED <<handler, enabled>>
              \/ /\ ioperr < 0 /\ spd_irq_count = 1
                 /\ UNCHANGED handler
                 /\ MayFail
<1>. USE DEF IrqBase, IrqTypeOK
<1>0. spd_irq_count \in Nat \ {0} /\ handler[IRQ_IOP_DEV9] = SpdHandler
  <2>1. IsFiniteSet(Requested)
    BY SpdAssumption, FS_Subset DEF Requested
  <2>2. Cardinality(Requested) \in Nat \ {0}
    BY <2>1, FS_EmptySet, FS_CardinalityType
  <2>3. spd_irq_count \in Nat \ {0}
    BY <2>2 DEF CountCovers
  <2> QED BY <2>3 DEF Dev9Held
<1>1. CASE spd_irq_count = 1 /\ release_irq__(IRQ_IOP_DEV9, ioperr)
  <2>1. Held(IRQ_IOP_DEV9)
    BY <1>0, SpdAssumption, IntrmanAssumption DEF Held
  <2>2. enabled' = enabled \ {IRQ_IOP_DEV9} /\ raised' = raised
    BY <1>1, ReleaseGivesLine
  <2>3. \/ ioperr = 0 /\ handler' = [handler EXCEPT ![IRQ_IOP_DEV9] = NoCb]
        \/ ioperr < 0 /\ UNCHANGED handler /\ MayFail
    BY <1>1, <2>1, ReleaseGivesLine
  <2> QED BY <1>1, <2>2, <2>3
<1>2. CASE spd_irq_count # 1 /\ ioperr = 0 /\ UNCHANGED intrmanVars
  <2>1. spd_irq_count > 1
    BY <1>0, <1>2
  <2> QED BY <1>2, <2>1 DEF intrmanVars
<1> QED BY <1>1, <1>2 DEF DropDev9

----------------------------------------------------------------------------
(* Every operation on the SPD lines keeps the invariant                     *)

\* spd_request_irq__ registers the callback and keeps the invariant, or fails
\* and changes nothing.
LEMMA SpdRequest ==
    ASSUME IrqBase, NEW irq, NEW cb \in Callbacks \ {SpdHandler}, NEW ret,
           spd_request_irq__(irq, cb, ret)
    PROVE  /\ IrqBase' /\ (~MayFail /\ IrqActive => IrqActive')
           /\ UNCHANGED spd_pc
           /\ \/ /\ ret = 0 /\ irq \in SpdLines
                 /\ spd_irqs' = [spd_irqs EXCEPT ![irq] = cb]
                 /\ handler' = [handler EXCEPT ![IRQ_IOP_DEV9] = SpdHandler]
                 /\ handler[IRQ_IOP_DEV9] \in {NoCb, SpdHandler}
              \/ /\ ret \in Errnos /\ ret < 0
                 /\ UNCHANGED irqVars /\ UNCHANGED <<spd_irqs, handler>>
<1>. USE DEF IrqBase, IrqTypeOK
<1>1. CASE ~spd_request_check(irq, cb) /\ ret = -EINVAL /\ UNCHANGED <<intrmanVars, spdVars>>
  <2>1. IrqBase' /\ (IrqActive => IrqActive')
    BY <1>1 DEF intrmanVars, spdVars, IntrmanTypeOK, SpdTypeOK, HandlerOnDev9,
       IdleServesNothing, Dev9Held, CountCovers, MaskedUnlessRequested, NoLostSpd,
       IrqActive, CountMatches, Requested, Held
  <2> QED BY <1>1, <2>1, ErrnosAreIntegers DEF intrmanVars, spdVars, irqVars
<1>2. CASE spd_request_check(irq, cb) /\ spd_request_locked(irq, cb, ret)
  <2>0. irq \in SpdLines /\ cb # NoCb /\ spd_irqs[irq] = NoCb
    BY <1>2 DEF spd_request_check, spd_valid_irq
  <2>1. PICK ioperr \in Errnos :
           /\ ClaimDev9(ioperr)
           /\ \/ /\ ioperr >= 0
                 /\ ret = 0
                 /\ spd_irq_count' = spd_irq_count + 1
                 /\ SetCb(irq, cb)
                 /\ spd_ack_irq____(irq)
                 /\ spd_enable_irq____(irq)
              \/ /\ ioperr < 0
                 /\ ret = errno_for_iop_error(ioperr)
                 /\ UNCHANGED <<spd_irq_count, spd_irqs, intr_stat, owed, intr_mask>>
           /\ UNCHANGED <<spd_pc, pending>>
    BY <1>2 DEF spd_request_locked
  <2>2. CASE ioperr < 0
    <3>1. /\ UNCHANGED <<spd_irq_count, spd_irqs, intr_stat, owed, intr_mask, spd_pc, pending>>
          /\ ret = errno_for_iop_error(ioperr)
      BY <2>1, <2>2, ErrnosAreIntegers
    <3>2. UNCHANGED <<handler, enabled, raised>>
      BY <2>1, <2>2, Dev9Claimed
    <3>3. IrqBase' /\ (IrqActive => IrqActive')
      BY <3>1, <3>2 DEF IntrmanTypeOK, SpdTypeOK, HandlerOnDev9,
         IdleServesNothing, Dev9Held, CountCovers, MaskedUnlessRequested, NoLostSpd,
         IrqActive, CountMatches, Requested, Held
    <3>4. ret \in Errnos /\ ret < 0
      BY <2>2, <3>1, ErrnoOfErrno, ErrnosAreIntegers
    <3> QED BY <3>1, <3>2, <3>3, <3>4 DEF irqVars, intrmanVars, spdVars
  <2>3. CASE ioperr >= 0
    <3>1. /\ spd_irq_count' = spd_irq_count + 1
          /\ spd_irqs' = [spd_irqs EXCEPT ![irq] = cb]
          /\ intr_stat' = intr_stat \ {irq} /\ owed' = owed \ {irq}
          /\ intr_mask' = intr_mask \cup {irq}
          /\ ret = 0 /\ UNCHANGED <<spd_pc, pending>>
      BY <2>1, <2>3, ErrnosAreIntegers DEF spd_ack_irq____, spd_enable_irq____, SetCb
    <3>2. /\ UNCHANGED raised
          /\ handler' = [handler EXCEPT ![IRQ_IOP_DEV9] = SpdHandler]
          /\ handler[IRQ_IOP_DEV9] \in {NoCb, SpdHandler}
          /\ enabled \subseteq enabled' /\ enabled' \subseteq IntrmanLines
          /\ IrqActive => IRQ_IOP_DEV9 \in enabled'
      BY <2>1, <2>3, Dev9Claimed, ErrnosAreIntegers
    <3>3. IrqTypeOK'
      BY <2>0, <3>1, <3>2, SpdAssumption DEF IntrmanTypeOK, SpdTypeOK
    <3>4. HandlerOnDev9'
      BY <2>0, <3>1, <3>2 DEF HandlerOnDev9, IntrmanTypeOK, SpdTypeOK
    <3>5. /\ Requested' = Requested \cup {irq}
          /\ Cardinality(Requested') = Cardinality(Requested) + 1
          /\ Cardinality(Requested) \in Nat
      BY <2>0, <3>1, RequestedGrows
    <3>6. Dev9Held' /\ CountCovers'
      BY <3>1, <3>2, <3>5, SpdAssumption DEF Dev9Held, CountCovers, IntrmanTypeOK
    <3>7. MaskedUnlessRequested' /\ NoLostSpd' /\ IdleServesNothing'
      BY <3>1, <3>5 DEF MaskedUnlessRequested, NoLostSpd, IdleServesNothing
    <3>8. (~MayFail => CountMatches') /\ (IrqActive => IrqActive')
      BY <3>1, <3>2, <3>5, IntrmanAssumption, SpdAssumption
      DEF IrqActive, CountMatches, Held, IntrmanTypeOK
    <3> QED BY <2>0, <3>1, <3>2, <3>3, <3>4, <3>6, <3>7, <3>8
  <2> QED BY <2>2, <2>3, ErrnosAreIntegers
<1> QED BY <1>1, <1>2 DEF spd_request_irq__

\* spd_release_irq__ clears the callback of a requested line, even when it then
\* fails for IRQ_IOP_DEV9, and keeps the invariant.
LEMMA SpdRelease ==
    ASSUME IrqBase, NEW irq, NEW ret, spd_release_irq__(irq, ret)
    PROVE  /\ IrqBase' /\ (~MayFail /\ IrqActive => IrqActive')
           /\ UNCHANGED spd_pc
           /\ ret \in Errnos
           /\ \/ /\ irq \in SpdLines /\ spd_irqs[irq] # NoCb
                 /\ ret = 0 \/ (ret < 0 /\ MayFail)
                 /\ spd_irqs' = [spd_irqs EXCEPT ![irq] = NoCb]
                 /\ \/ UNCHANGED handler
                    \/ /\ handler' = [handler EXCEPT ![IRQ_IOP_DEV9] = NoCb]
                       /\ handler[IRQ_IOP_DEV9] = SpdHandler
              \/ /\ ~spd_release_check(irq)
                 /\ ret < 0
                 /\ UNCHANGED <<spd_irqs, handler>>
<1>. USE DEF IrqBase, IrqTypeOK
<1>1. CASE ~spd_release_check(irq) /\ ret = -EINVAL /\ UNCHANGED <<intrmanVars, spdVars>>
  <2>1. IrqBase' /\ (IrqActive => IrqActive')
    BY <1>1 DEF intrmanVars, spdVars, IntrmanTypeOK, SpdTypeOK, HandlerOnDev9,
       IdleServesNothing, Dev9Held, CountCovers, MaskedUnlessRequested, NoLostSpd,
       IrqActive, CountMatches, Requested, Held
  <2> QED BY <1>1, <2>1, ErrnosAreIntegers DEF intrmanVars, spdVars
<1>2. CASE spd_release_check(irq) /\ spd_release_locked(irq, ret)
  <2>0. irq \in SpdLines /\ spd_irqs[irq] # NoCb /\ irq \in Requested
    BY <1>2 DEF spd_release_check, spd_valid_irq, Requested
  <2>1. PICK ioperr \in Errnos :
           /\ intr_mask' = intr_mask \ {irq}
           /\ DropDev9(ioperr)
           /\ spd_irq_count' = IF ioperr >= 0 THEN spd_irq_count - 1 ELSE spd_irq_count
           /\ spd_irqs' = [spd_irqs EXCEPT ![irq] = NoCb]
           /\ ret = IF ioperr < 0 THEN errno_for_iop_error(ioperr) ELSE 0
           /\ UNCHANGED <<intr_stat, spd_pc, pending, owed>>
    BY <1>2 DEF spd_release_locked, spd_disable_irq____, CountDown, SetCb
  <2>2. /\ UNCHANGED raised
        /\ enabled \ {IRQ_IOP_DEV9} \subseteq enabled' /\ enabled' \subseteq enabled
        /\ \/ /\ ioperr = 0 /\ spd_irq_count = 1
              /\ handler' = [handler EXCEPT ![IRQ_IOP_DEV9] = NoCb]
           \/ /\ ioperr = 0 /\ spd_irq_count > 1
              /\ UNCHANGED <<handler, enabled>>
           \/ /\ ioperr < 0 /\ spd_irq_count = 1
              /\ UNCHANGED handler
              /\ MayFail
    BY <2>0, <2>1, Dev9Dropped
  <2>3. /\ Requested' = Requested \ {irq}
        /\ Cardinality(Requested') = Cardinality(Requested) - 1
        /\ Cardinality(Requested) \in Nat \ {0}
    BY <2>0, <2>1, RequestedShrinks
  <2>4. spd_irq_count \in Nat \ {0} /\ handler[IRQ_IOP_DEV9] = SpdHandler
    BY <2>3 DEF CountCovers, Dev9Held
  <2>5. IrqTypeOK'
    BY <2>0, <2>1, <2>2, <2>4, ErrnosAreIntegers DEF IntrmanTypeOK, SpdTypeOK
  <2>6. HandlerOnDev9'
    BY <2>0, <2>1, <2>2, SpdAssumption, IntrmanAssumption
    DEF HandlerOnDev9, IntrmanTypeOK, SpdTypeOK
  <2>7. Dev9Held'
    BY <2>1, <2>2, <2>4, SpdAssumption, IntrmanAssumption, ErrnosAreIntegers
    DEF Dev9Held, IntrmanTypeOK
  <2>8. CountCovers'
    BY <2>1, <2>2, <2>3, <2>4 DEF CountCovers
  <2>9. MaskedUnlessRequested' /\ NoLostSpd' /\ IdleServesNothing'
    BY <2>1, <2>3 DEF MaskedUnlessRequested, NoLostSpd, IdleServesNothing
  <2>10. ASSUME ~MayFail PROVE CountMatches' /\ (IrqActive => IrqActive')
    <3>1. ioperr = 0 /\ spd_irq_count' = spd_irq_count - 1
      BY <2>1, <2>2, <2>10
    <3>2. CountMatches'
      BY <2>1, <2>3, <2>4, <2>10, <3>1 DEF CountMatches
    <3>3. ASSUME IrqActive PROVE \A l \in IntrmanLines : Held(l)' => l \in enabled'
      <4>1. CASE UNCHANGED <<handler, enabled>>
        BY <3>3, <4>1 DEF IrqActive, Held
      <4>2. CASE handler' = [handler EXCEPT ![IRQ_IOP_DEV9] = NoCb]
        BY <2>2, <3>3, <4>2 DEF IrqActive, Held, IntrmanTypeOK
      <4> QED BY <2>2, <2>10, <3>1, <4>1, <4>2
    <3>4. IrqActive => (intr_mask = Requested)'
      BY <2>1, <2>3 DEF IrqActive
    <3> QED BY <3>2, <3>3, <3>4 DEF IrqActive
  <2>11. ret \in Errnos /\ (ret = 0 \/ (ret < 0 /\ MayFail))
    BY <2>1, <2>2, ErrnoOfErrno, ErrnosAreIntegers
  <2> QED BY <2>0, <2>1, <2>2, <2>4, <2>5, <2>6, <2>7, <2>8, <2>9, <2>10, <2>11
<1> QED BY <1>1, <1>2 DEF spd_release_irq__

----------------------------------------------------------------------------
(* module/irq.c                                                             *)

\* The callback of a line other than IRQ_IOP_DEV9 changes only with a call for
\* that line; IRQ_IOP_DEV9 may come and go with the lines of the SPD.
Kept(old, new) == new = old \/ {old, new} \subseteq {NoCb, SpdHandler}

\* request_irq gives the line the callback or fails and changes none.
LEMMA RequestIrq ==
    ASSUME IrqInv, NEW irq, NEW cb \in Callbacks \ {SpdHandler}, NEW ret,
           request_irq(irq, cb, ret)
    PROVE  /\ IrqInv'
           /\ UNCHANGED spd_pc
           /\ ret \in Errnos
           /\ \/ /\ ret = 0 /\ irq \in AllLines /\ Callback(irq)' = cb
                 /\ irq \in IntrmanLines => Free(irq)
                 /\ \A l \in AllLines \ {irq} : Kept(Callback(l), Callback(l)')
              \/ /\ ret < 0 /\ UNCHANGED irqVars
                 /\ \A l \in AllLines : Callback(l)' = Callback(l)
<1>. USE DEF Callback, spd_valid_irq, AllLines
<1>0. IrqTypeOK /\ cb # NoCb
  BY IntrmanAssumption DEF IrqInv, IrqBase
<1>1. CASE spd_valid_irq(irq) /\ spd_request_irq__(irq, cb, ret)
  <2>1. IrqInv' /\ UNCHANGED spd_pc
    BY <1>1, SpdRequest, IntrmanAssumption DEF IrqInv
  <2>2. CASE /\ ret = 0
             /\ spd_irqs' = [spd_irqs EXCEPT ![irq] = cb]
             /\ handler' = [handler EXCEPT ![IRQ_IOP_DEV9] = SpdHandler]
             /\ handler[IRQ_IOP_DEV9] \in {NoCb, SpdHandler}
    BY <1>0, <1>1, <2>1, <2>2, ErrnosAreIntegers, SpdAssumption
    DEF Kept, IrqTypeOK, SpdTypeOK, IntrmanTypeOK
  <2>3. CASE ret \in Errnos /\ ret < 0 /\ UNCHANGED irqVars
    BY <2>1, <2>3 DEF irqVars, intrmanVars, spdVars
  <2> QED BY <1>1, <2>2, <2>3, SpdRequest DEF IrqInv
<1>2. CASE ~spd_valid_irq(irq) /\ request_irq__(irq, cb, ret) /\ UNCHANGED spdVars
  <2>1. UNCHANGED spdVars /\ UNCHANGED spd_pc /\ UNCHANGED spd_irqs
    BY <1>2 DEF spdVars
  <2>2. /\ raised' = raised
        /\ ret \in Errnos
        /\ \/ /\ ret = 0 /\ Free(irq)
              /\ handler' = [handler EXCEPT ![irq] = cb]
              /\ enabled' = enabled \cup {irq}
           \/ ret < 0 /\ UNCHANGED <<handler, enabled>>
    BY <1>0, <1>2, RequestTakesLine DEF IrqTypeOK
  <2>3. CASE ret < 0 /\ UNCHANGED <<handler, enabled>>
    <3>1. IrqInv'
      BY <2>1, <2>2, <2>3 DEF spdVars, IrqInv, IrqBase, IrqTypeOK, IntrmanTypeOK, SpdTypeOK,
         HandlerOnDev9, IdleServesNothing, Dev9Held, CountCovers, MaskedUnlessRequested,
         NoLostSpd, IrqActive, CountMatches, Requested, Held
    <3> QED BY <2>1, <2>2, <2>3, <3>1 DEF irqVars, intrmanVars
  <2>4. CASE /\ ret = 0 /\ Free(irq)
             /\ handler' = [handler EXCEPT ![irq] = cb]
             /\ enabled' = enabled \cup {irq}
    <3>1. irq \in IntrmanLines /\ handler[irq] = NoCb
      BY <2>4 DEF Free
    <3>2. IrqTypeOK' /\ HandlerOnDev9'
      BY <1>0, <2>1, <2>2, <2>4, <3>1
      DEF spdVars, IrqInv, IrqBase, IrqTypeOK, IntrmanTypeOK, SpdTypeOK, HandlerOnDev9
    <3>3. Dev9Held'
      BY <1>0, <2>1, <2>4, <3>1, SpdAssumption, IntrmanAssumption
      DEF spdVars, IrqInv, IrqBase, IrqTypeOK, IntrmanTypeOK, Dev9Held
    <3>4. /\ IdleServesNothing' /\ CountCovers' /\ MaskedUnlessRequested' /\ NoLostSpd'
          /\ ~MayFail => CountMatches' /\ IrqActive'
      BY <1>0, <2>1, <2>4, <3>1
      DEF spdVars, IrqInv, IrqBase, IrqTypeOK, IntrmanTypeOK, IdleServesNothing, CountCovers,
          MaskedUnlessRequested, NoLostSpd, IrqActive, CountMatches, Requested, Held
    <3>5. IrqInv'
      BY <3>2, <3>3, <3>4 DEF IrqInv, IrqBase
    <3>6. \A l \in AllLines \ {irq} : Callback(l)' = Callback(l)
      BY <1>0, <2>1, <2>4, <3>1 DEF IrqTypeOK, IntrmanTypeOK
    <3>7. Callback(irq)' = cb
      BY <1>0, <1>2, <2>4, <3>1 DEF IrqTypeOK, IntrmanTypeOK
    <3> QED BY <2>1, <2>2, <2>4, <3>1, <3>5, <3>6, <3>7 DEF Kept
  <2> QED BY <2>2, <2>3, <2>4
<1> QED BY <1>1, <1>2 DEF request_irq

\* release_irq takes the callback from the line or fails and changes none, except
\* that a line of the SPD can lose its callback in a call that fails.
LEMMA ReleaseIrq ==
    ASSUME IrqInv, NEW irq, NEW ret, irq \in AllLines => Callback(irq) # SpdHandler,
           release_irq(irq, ret)
    PROVE  /\ IrqInv'
           /\ UNCHANGED spd_pc
           /\ ret \in Errnos
           /\ \/ /\ ret = 0 \/ (ret < 0 /\ MayFail /\ irq \in SpdLines)
                 /\ irq \in AllLines /\ Callback(irq)' = NoCb
                 /\ \A l \in AllLines \ {irq} : Kept(Callback(l), Callback(l)')
              \/ /\ ret < 0 /\ \A l \in AllLines : Callback(l)' = Callback(l)
                 /\ MayFail \/ irq \notin AllLines \/ Callback(irq) = NoCb
<1>. USE DEF Callback, spd_valid_irq, AllLines
<1>0. IrqTypeOK
  BY DEF IrqInv, IrqBase
<1>1. CASE spd_valid_irq(irq) /\ spd_release_irq__(irq, ret)
  <2>1. IrqInv' /\ UNCHANGED spd_pc /\ ret \in Errnos
    BY <1>1, SpdRelease, IntrmanAssumption DEF IrqInv
  <2>2. CASE /\ ret = 0 \/ (ret < 0 /\ MayFail)
             /\ spd_irqs' = [spd_irqs EXCEPT ![irq] = NoCb]
             /\ \/ UNCHANGED handler
                \/ /\ handler' = [handler EXCEPT ![IRQ_IOP_DEV9] = NoCb]
                   /\ handler[IRQ_IOP_DEV9] = SpdHandler
    BY <1>0, <1>1, <2>1, <2>2, SpdAssumption
    DEF Kept, IrqTypeOK, SpdTypeOK, IntrmanTypeOK
  <2>3. CASE ~spd_release_check(irq) /\ ret < 0 /\ UNCHANGED <<spd_irqs, handler>>
    BY <1>1, <2>1, <2>3 DEF spd_release_check
  <2> QED BY <1>1, <2>2, <2>3, SpdRelease DEF IrqInv
<1>2. CASE ~spd_valid_irq(irq) /\ release_irq__(irq, ret) /\ UNCHANGED spdVars
  <2>1. UNCHANGED spdVars /\ UNCHANGED spd_pc /\ UNCHANGED spd_irqs
    BY <1>2 DEF spdVars
  <2>2. /\ raised' = raised
        /\ ret \in Errnos
        /\ enabled' = enabled \ {irq}
        /\ \/ ret = 0 /\ Held(irq) /\ handler' = [handler EXCEPT ![irq] = NoCb]
           \/ /\ ret < 0 /\ UNCHANGED handler
              /\ MayFail \/ ~Held(irq)
    BY <1>0, <1>2, ReleaseGivesLine DEF IrqTypeOK
  <2>3. IrqTypeOK' /\ HandlerOnDev9'
    BY <1>0, <2>1, <2>2, SpdAssumption, IntrmanAssumption
    DEF spdVars, IrqInv, IrqBase, IrqTypeOK, IntrmanTypeOK, SpdTypeOK, HandlerOnDev9, Held
  <2>4. Dev9Held'
    BY <1>0, <1>2, <2>1, <2>2, SpdAssumption, IntrmanAssumption
    DEF spdVars, IrqInv, IrqBase, IrqTypeOK, IntrmanTypeOK, Dev9Held, Held
  <2>5. IdleServesNothing' /\ CountCovers' /\ MaskedUnlessRequested' /\ NoLostSpd'
    BY <2>1
    DEF spdVars, IrqInv, IrqBase, IdleServesNothing, CountCovers,
        MaskedUnlessRequested, NoLostSpd, Requested
  <2>6. ~MayFail => CountMatches' /\ IrqActive'
    BY <1>0, <2>1, <2>2
    DEF spdVars, IrqInv, IrqBase, IrqTypeOK, IntrmanTypeOK, IrqActive, CountMatches, Requested, Held
  <2>7. IrqInv'
    BY <2>3, <2>4, <2>5, <2>6 DEF IrqInv, IrqBase
  <2>8. CASE ret = 0 /\ Held(irq) /\ handler' = [handler EXCEPT ![irq] = NoCb]
    BY <1>0, <1>2, <2>1, <2>2, <2>7, <2>8 DEF Kept, Held, IrqTypeOK, IntrmanTypeOK
  <2>9. CASE ret < 0 /\ UNCHANGED handler /\ (MayFail \/ ~Held(irq))
    BY <1>2, <2>1, <2>2, <2>7, <2>9 DEF Held
  <2> QED BY <2>2, <2>8, <2>9
<1> QED BY <1>1, <1>2 DEF release_irq

----------------------------------------------------------------------------
(* Interrupts                                                               *)

\* Every step of spd_handle_irq and of the device keeps the invariant, and
\* leaves the registrations as they are.
LEMMA SpdStep ==
    ASSUME IrqBase,
           \/ \E l \in SpdLines : RaiseSpd(l) \/ SpdCall(l)
           \/ SpdEnter \/ SpdAck \/ SpdReturn
    PROVE  /\ IrqBase' /\ (IrqActive => IrqActive')
           /\ UNCHANGED <<handler, spd_irqs>>
<1>. DEFINE Goal == /\ IrqBase' /\ (IrqActive => IrqActive')
                    /\ UNCHANGED <<handler, spd_irqs>>
<1>. USE DEF IrqBase, IrqTypeOK, IntrmanTypeOK, SpdTypeOK, HandlerOnDev9, IdleServesNothing,
       Dev9Held, CountCovers, MaskedUnlessRequested, NoLostSpd, IrqActive, CountMatches,
       Requested, Held, intrmanVars
<1>1. ASSUME NEW l \in SpdLines, RaiseSpd(l) PROVE Goal
  BY <1>1 DEF RaiseSpd
<1>2. ASSUME NEW l \in SpdLines, SpdCall(l) PROVE Goal
  BY <1>2 DEF SpdCall
<1>3. CASE SpdEnter
  BY <1>3 DEF SpdEnter
<1>4. CASE SpdAck
  BY <1>4 DEF SpdAck
<1>5. CASE SpdReturn
  BY <1>5 DEF SpdReturn
<1> QED BY <1>1, <1>2, <1>3, <1>4, <1>5

\* Masking a line, or letting one with a callback through, keeps the invariant,
\* though not that every line in use is let through.
LEMMA SpdMaskStep ==
    ASSUME IrqBase, NEW l \in Requested, spd_enable_irq__(l) \/ spd_disable_irq__(l)
    PROVE  IrqBase' /\ UNCHANGED <<handler, spd_irqs, spd_pc>>
<1>1. intr_mask' \in {intr_mask \cup {l}, intr_mask \ {l}}
  BY DEF spd_enable_irq__, spd_disable_irq__, spd_enable_irq____, spd_disable_irq____
<1>2. UNCHANGED <<intrmanVars, spd_irqs, spd_irq_count, intr_stat, spd_pc, pending, owed>>
  BY DEF spd_enable_irq__, spd_disable_irq__
<1> QED BY <1>1, <1>2
  DEF IrqBase, IrqTypeOK, IntrmanTypeOK, SpdTypeOK, HandlerOnDev9, IdleServesNothing,
      Dev9Held, CountCovers, MaskedUnlessRequested, NoLostSpd, CountMatches, Requested,
      intrmanVars
============================================================================
