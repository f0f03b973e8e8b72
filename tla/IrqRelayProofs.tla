--------------------------- MODULE IrqRelayProofs ---------------------------
(***************************************************************************)
(* The table of relays and the interrupt controllers agree, for any number  *)
(* of slots, lines and calls, whatever intrman answers.                     *)
(*                                                                          *)
(* HandlerSound is not inductive: releasing a line by its number is sound   *)
(* only because the line of a slot in use cannot have gone to someone else  *)
(* in the meantime, which is what SlotsHoldLines adds.                      *)
(***************************************************************************)
EXTENDS IrqRelay, IrqProofs

\* Callbacks of the SPD are those of relays.
SpdLinesRelayed == \A l \in SpdLines : spd_irqs[l] \in Slots \cup {NoCb}

\* A slot in use is the callback of its line; only a line of the SPD can have
\* lost it, and only to a failure of intrman.
SlotsHoldLines ==
    \A k \in Slots : irqs[k].set =>
        /\ irqs[k].iop \in AllLines
        /\ \/ Callback(irqs[k].iop) = k
           \/ MayFail /\ irqs[k].iop \in SpdLines /\ Callback(irqs[k].iop) = NoCb

RelayTypeOK == irqs \in [Slots -> IrqMap] /\ status \in Errnos /\ told \subseteq Notices

TableInv ==
    /\ HandlerSound
    /\ OneSlotPerLine
    /\ SlotsHoldLines

IInv ==
    /\ IrqInv
    /\ RelayTypeOK
    /\ SpdLinesRelayed
    /\ TableInv

\* The assumptions on the callbacks, in the form the steps need them.
LEMMA SlotsAreCallbacks ==
    /\ Slots \subseteq Callbacks \ {SpdHandler}
    /\ Foreign \in Callbacks \ {SpdHandler}
    /\ Foreign \notin Slots /\ Foreign # NoCb
    /\ NoCb \notin Slots /\ SpdHandler \notin Slots /\ SpdHandler # NoCb
  BY RelayAssumption, SpdAssumption, IntrmanAssumption

\* The initial state satisfies the invariant.
LEMMA InitIInv == Init => IInv
<1>. SUFFICES ASSUME Init PROVE IInv
  OBVIOUS
<1>1. Requested = {} /\ Cardinality(Requested) = 0
  BY FS_EmptySet DEF Init, SpdInit, Requested
<1>2. IrqInv
  BY <1>1, SpdAssumption, IntrmanAssumption
  DEF Init, IntrmanInit, SpdInit, IrqInv, IrqBase, IrqTypeOK, IntrmanTypeOK, SpdTypeOK,
      HandlerOnDev9, IdleServesNothing, Dev9Held, CountCovers, MaskedUnlessRequested,
      NoLostSpd, IrqActive, CountMatches, Held
<1>3. RelayTypeOK
  BY ErrnosAreIntegers DEF Init, RelayTypeOK, IrqMap, Unused, FieldMax
<1>4. SpdLinesRelayed
  BY DEF Init, SpdInit, SpdLinesRelayed
<1>5. TableInv
  BY SlotsAreCallbacks
  DEF Init, IntrmanInit, SpdInit, TableInv, HandlerSound, OneSlotPerLine, SlotsHoldLines,
      Unused, Callback, spd_valid_irq, AllLines
<1> QED BY <1>2, <1>3, <1>4, <1>5 DEF IInv

\* What Callback returns, and whose it is: the two controllers have no line in
\* common.
LEMMA CallbackOfLine ==
    ASSUME IInv, NEW l \in AllLines
    PROVE  /\ Callback(l) \in Callbacks \cup {NoCb}
           /\ l \in SpdLines => Callback(l) = spd_irqs[l] /\ Callback(l) \in Slots \cup {NoCb}
           /\ l \in IntrmanLines => Callback(l) = handler[l] /\ l \notin SpdLines
  BY SpdAssumption
  DEF IInv, IrqInv, IrqBase, IrqTypeOK, IntrmanTypeOK, SpdTypeOK, SpdLinesRelayed, Callback,
      spd_valid_irq, AllLines

\* Only IRQ_IOP_DEV9 may be given to spd_handle_irq, and no SPD line is.
LEMMA CallbackAfter ==
    ASSUME IrqInv', NEW l \in SpdLines
    PROVE  Callback(l)' # SpdHandler
  BY DEF IrqInv, IrqBase, HandlerOnDev9, Callback, spd_valid_irq

\* Lines that keep their callback, other than spd_handle_irq's, keep the table
\* right.
LEMMA TableKept ==
    ASSUME IInv, IrqInv', UNCHANGED irqs,
           \A l \in AllLines : Kept(Callback(l), Callback(l)')
    PROVE  TableInv'
<1>1. \A l \in AllLines, k \in Slots : Callback(l)' = k <=> Callback(l) = k
  BY SlotsAreCallbacks DEF Kept
<1>2. \A l \in SpdLines : Callback(l) = NoCb => Callback(l)' = NoCb
  BY CallbackAfter DEF Kept, AllLines
<1>3. HandlerSound'
  BY <1>1 DEF IInv, TableInv, HandlerSound, AllLines
<1>4. OneSlotPerLine'
  BY DEF IInv, TableInv, OneSlotPerLine
<1>5. SlotsHoldLines'
  BY <1>1, <1>2 DEF IInv, TableInv, SlotsHoldLines, AllLines
<1> QED BY <1>3, <1>4, <1>5 DEF TableInv

\* A step that changes neither the controllers nor the table keeps the
\* invariant.
LEMMA NothingChanged ==
    ASSUME IInv, UNCHANGED <<irqVars, irqs>>, status' \in Errnos, told' \subseteq Notices
    PROVE  IInv'
  BY DEF IInv, irqVars, intrmanVars, spdVars, IrqInv, IrqBase, IrqTypeOK, IntrmanTypeOK,
      SpdTypeOK, HandlerOnDev9, IdleServesNothing, Dev9Held, CountCovers,
      MaskedUnlessRequested, NoLostSpd, IrqActive, CountMatches, Requested, Held,
      RelayTypeOK, SpdLinesRelayed, TableInv, HandlerSound, OneSlotPerLine,
      SlotsHoldLines, Callback, AllLines

\* A call that fails before it reaches the controllers keeps the invariant.
LEMMA RefusedStep ==
    ASSUME IInv, NEW ret \in Errnos, NEW errno, Fails(ret, errno), UNCHANGED told,
           status' = ret
    PROVE  IInv'
<1>1. told' \subseteq Notices
  BY DEF IInv, RelayTypeOK
<1> QED BY <1>1, NothingChanged DEF Fails

----------------------------------------------------------------------------
(* Procedures                                                               *)

\* request_map keeps the invariant: the slot it fills was in nobody's use, and
\* is the callback of the line afterwards.
LEMMA RequestMapStep ==
    ASSUME IInv, NEW iop \in RpcIrqs, NEW map \in RpcMaps, NEW rpc \in BOOLEAN,
           NEW ret \in Errnos, request_map(iop, map, rpc, ret), UNCHANGED told, status' = ret
    PROVE  IInv'
<1>1. CASE \E errno : Fails(ret, errno)
  BY <1>1, RefusedStep
<1>2. CASE /\ iop <= FieldMax /\ map <= FieldMax
           /\ MapsOf(iop) = {}
           /\ \E k \in Slots :
                 /\ find_unset(k)
                 /\ request_irq(iop, k, ret)
                 /\ irqs' = [irqs EXCEPT ![k] =
                       IF ret < 0 THEN Unused
                       ELSE [set |-> TRUE, iop |-> iop, map |-> map, rpc |-> rpc]]
  <2>1. PICK k \in Slots :
           /\ find_unset(k)
           /\ request_irq(iop, k, ret)
           /\ irqs' = [irqs EXCEPT ![k] =
                 IF ret < 0 THEN Unused
                 ELSE [set |-> TRUE, iop |-> iop, map |-> map, rpc |-> rpc]]
    BY <1>2
  <2>2. /\ IrqInv'
        /\ \/ /\ ret = 0 /\ iop \in AllLines /\ Callback(iop)' = k
              /\ \A l \in AllLines \ {iop} : Kept(Callback(l), Callback(l)')
           \/ ret < 0 /\ \A l \in AllLines : Callback(l)' = Callback(l)
    BY <2>1, RequestIrq, SlotsAreCallbacks DEF IInv
  <2>3. ~irqs[k].set /\ \A j \in Slots : ~(irqs[j].set /\ irqs[j].iop = iop)
    BY <1>2, <2>1 DEF find_unset, UnsetMaps, IsFirst, MapsOf
  <2>4. iop \in 0 .. FieldMax /\ map \in 0 .. FieldMax
    BY <1>2, RelayAssumption DEF FieldMax
  <2>5. RelayTypeOK'
    BY <2>1, <2>4 DEF IInv, RelayTypeOK, IrqMap, Unused, FieldMax
  <2>6. CASE ret < 0 /\ \A l \in AllLines : Callback(l)' = Callback(l)
    <3>1. irqs' = [irqs EXCEPT ![k] = Unused]
      BY <2>1, <2>6
    <3>2. TableInv'
      BY <2>3, <2>6, <3>1
      DEF IInv, TableInv, HandlerSound, OneSlotPerLine, SlotsHoldLines, AllLines,
          RelayTypeOK, Unused
    <3>3. SpdLinesRelayed'
      BY <2>6 DEF IInv, SpdLinesRelayed, Callback, spd_valid_irq, AllLines
    <3> QED BY <2>2, <2>5, <3>2, <3>3 DEF IInv
  <2>7. CASE /\ ret = 0 /\ iop \in AllLines /\ Callback(iop)' = k
             /\ \A l \in AllLines \ {iop} : Kept(Callback(l), Callback(l)')
    <3>1. irqs' = [irqs EXCEPT ![k] =
             [set |-> TRUE, iop |-> iop, map |-> map, rpc |-> rpc]]
      BY <2>1, <2>7
    <3>2. HandlerSound'
      <4>1. irqs'[k].set /\ irqs'[k].iop = iop /\ \A j \in Slots \ {k} : irqs'[j] = irqs[j]
        BY <3>1 DEF IInv, RelayTypeOK
      <4>2. ASSUME NEW l \in AllLines \ {iop}, Callback(l)' \in Slots
            PROVE  irqs'[Callback(l)'].set /\ irqs'[Callback(l)'].iop = l
        <5>1. Callback(l)' = Callback(l)
          BY <2>7, <4>2, SlotsAreCallbacks DEF Kept
        <5>2. irqs[Callback(l)].set /\ irqs[Callback(l)].iop = l
          BY <4>2, <5>1 DEF IInv, TableInv, HandlerSound
        <5>3. Callback(l) # k
          BY <2>3, <5>2
        <5> QED BY <4>1, <4>2, <5>1, <5>2, <5>3
      <4> QED BY <2>7, <4>1, <4>2 DEF HandlerSound, AllLines
    <3>3. OneSlotPerLine'
      BY <2>3, <3>1 DEF IInv, TableInv, OneSlotPerLine, RelayTypeOK
    <3>4. SlotsHoldLines'
      <4>1. irqs'[k].iop = iop /\ \A j \in Slots \ {k} : irqs'[j] = irqs[j]
        BY <3>1 DEF IInv, RelayTypeOK
      <4>2. ASSUME NEW j \in Slots \ {k}, irqs[j].set
            PROVE  /\ irqs[j].iop \in AllLines
                   /\ \/ Callback(irqs[j].iop)' = j
                      \/ /\ MayFail /\ irqs[j].iop \in SpdLines
                         /\ Callback(irqs[j].iop)' = NoCb
        <5>1. PICK l \in AllLines \ {iop} :
                 /\ l = irqs[j].iop
                 /\ Callback(l) = j \/ (MayFail /\ l \in SpdLines /\ Callback(l) = NoCb)
          BY <2>3, <4>2 DEF IInv, TableInv, SlotsHoldLines
        <5>2. Kept(Callback(l), Callback(l)')
          BY <2>7
        <5>3. l \in SpdLines => Callback(l)' # SpdHandler
          BY <2>2, CallbackAfter
        <5>4. Callback(l)' = j \/ (MayFail /\ l \in SpdLines /\ Callback(l)' = NoCb)
          BY <5>1, <5>2, <5>3, SlotsAreCallbacks DEF Kept
        <5> QED BY <4>1, <5>1, <5>4
      <4> QED BY <2>7, <4>1, <4>2 DEF SlotsHoldLines, AllLines
    <3>5. SpdLinesRelayed'
      BY <2>2, <2>7, SlotsAreCallbacks
      DEF IInv, IrqInv, IrqBase, HandlerOnDev9, SpdLinesRelayed, Callback, spd_valid_irq, AllLines, Kept
    <3> QED BY <2>2, <2>5, <3>2, <3>3, <3>4, <3>5 DEF IInv, TableInv
  <2> QED BY <2>2, <2>6, <2>7
<1> QED BY <1>1, <1>2 DEF request_map

\* remap changes neither the line nor the use of a slot.
LEMMA RemapStep ==
    ASSUME IInv, NEW iop \in RpcIrqs, NEW map \in RpcMaps, NEW rpc \in BOOLEAN,
           NEW ret \in Errnos, remap(iop, map, rpc, ret), UNCHANGED told, status' = ret
    PROVE  IInv'
<1>1. UNCHANGED irqVars
  BY DEF remap, Fails
<1>2. IrqInv' /\ SpdLinesRelayed' /\ \A l \in AllLines : Callback(l)' = Callback(l)
  BY <1>1
  DEF IInv, irqVars, intrmanVars, spdVars, IrqInv, IrqBase, IrqTypeOK, IntrmanTypeOK,
      SpdTypeOK, HandlerOnDev9, IdleServesNothing, Dev9Held, CountCovers,
      MaskedUnlessRequested, NoLostSpd, IrqActive, CountMatches, Requested, Held,
      SpdLinesRelayed, Callback
<1>3. /\ RelayTypeOK'
      /\ \A k \in Slots : irqs'[k].set = irqs[k].set /\ irqs'[k].iop = irqs[k].iop
  <2>1. CASE UNCHANGED irqs
    BY <2>1 DEF IInv, RelayTypeOK
  <2>2. ASSUME map <= FieldMax, NEW k \in Slots,
               irqs' = [irqs EXCEPT ![k].map = map, ![k].rpc = rpc]
        PROVE  /\ RelayTypeOK'
               /\ \A j \in Slots : irqs'[j].set = irqs[j].set /\ irqs'[j].iop = irqs[j].iop
    <3>1. map \in 0 .. FieldMax
      BY <2>2, RelayAssumption DEF FieldMax
    <3>2. irqs \in [Slots -> IrqMap]
      BY DEF IInv, RelayTypeOK
    <3>3. irqs' = [irqs EXCEPT ![k] = [irqs[k] EXCEPT !.map = map, !.rpc = rpc]]
      BY <2>2, <3>2
    <3>4. [irqs[k] EXCEPT !.map = map, !.rpc = rpc] \in IrqMap
      BY <3>1, <3>2 DEF IrqMap
    <3>5. irqs' \in [Slots -> IrqMap]
      BY <3>2, <3>3, <3>4
    <3>6. \A j \in Slots : irqs'[j].set = irqs[j].set /\ irqs'[j].iop = irqs[j].iop
      BY <3>2, <3>3 DEF IrqMap
    <3> QED BY <3>5, <3>6 DEF IInv, RelayTypeOK
  <2> QED BY <2>1, <2>2 DEF remap, Fails
<1>4. TableInv'
  BY <1>2, <1>3
  DEF IInv, TableInv, HandlerSound, OneSlotPerLine, SlotsHoldLines, AllLines
<1> QED BY <1>2, <1>3, <1>4 DEF IInv

\* release_map keeps the invariant: the line it releases is that of the slot.
LEMMA ReleaseMapStep ==
    ASSUME IInv, NEW iop \in RpcIrqs, NEW ret \in Errnos, release_map(iop, ret),
           UNCHANGED told, status' = ret
    PROVE  IInv'
<1>1. CASE \E errno : Fails(ret, errno)
  BY <1>1, RefusedStep
<1>2. CASE \E k \in Slots :
              /\ find_map(iop, k)
              /\ release_irq(iop, ret)
              /\ irqs' = IF ret = 0 THEN [irqs EXCEPT ![k] = Unused] ELSE irqs
  <2>1. PICK k \in Slots :
           /\ find_map(iop, k)
           /\ release_irq(iop, ret)
           /\ irqs' = IF ret = 0 THEN [irqs EXCEPT ![k] = Unused] ELSE irqs
    BY <1>2
  <2>2. /\ irqs[k].set /\ irqs[k].iop = iop /\ iop \in AllLines
        /\ \/ Callback(iop) = k
           \/ MayFail /\ iop \in SpdLines /\ Callback(iop) = NoCb
    BY <2>1 DEF find_map, IsFirst, MapsOf, IInv, TableInv, SlotsHoldLines
  <2>3. Callback(iop) # SpdHandler
    BY <2>2, SlotsAreCallbacks
  <2>4. /\ IrqInv'
        /\ \/ /\ ret = 0 \/ (ret < 0 /\ MayFail /\ iop \in SpdLines)
              /\ Callback(iop)' = NoCb
              /\ \A l \in AllLines \ {iop} : Kept(Callback(l), Callback(l)')
           \/ ret < 0 /\ \A l \in AllLines : Callback(l)' = Callback(l)
    BY <2>1, <2>2, <2>3, ReleaseIrq DEF IInv
  <2>5. RelayTypeOK'
    BY <2>1 DEF IInv, RelayTypeOK, IrqMap, Unused, FieldMax
  <2>6. SpdLinesRelayed'
    BY <2>4, SlotsAreCallbacks
    DEF IInv, IrqInv, IrqBase, HandlerOnDev9, SpdLinesRelayed, Callback, spd_valid_irq, AllLines, Kept
  <2>7. CASE ret < 0 /\ \A l \in AllLines : Callback(l)' = Callback(l)
    <3>1. TableInv'
      BY <2>1, <2>4, <2>7, TableKept DEF Kept
    <3> QED BY <2>4, <2>5, <2>6, <3>1 DEF IInv
  <2>8. CASE /\ ret < 0 /\ MayFail /\ iop \in SpdLines /\ Callback(iop)' = NoCb
             /\ \A l \in AllLines \ {iop} : Kept(Callback(l), Callback(l)')
    <3>1. irqs' = irqs
      BY <2>1, <2>8
    <3>2. TableInv'
      BY <2>2, <2>4, <2>8, <3>1, SlotsAreCallbacks, CallbackAfter
      DEF IInv, TableInv, HandlerSound, OneSlotPerLine, SlotsHoldLines, Kept, AllLines
    <3> QED BY <2>4, <2>5, <2>6, <3>2 DEF IInv
  <2>9. CASE /\ ret = 0 /\ Callback(iop)' = NoCb
             /\ \A l \in AllLines \ {iop} : Kept(Callback(l), Callback(l)')
    <3>1. irqs' = [irqs EXCEPT ![k] = Unused]
      BY <2>1, <2>9
    <3>2. TableInv'
      BY <2>2, <2>4, <2>9, <3>1, SlotsAreCallbacks, CallbackAfter
      DEF IInv, TableInv, HandlerSound, OneSlotPerLine, SlotsHoldLines, Kept, AllLines,
          RelayTypeOK, Unused
    <3> QED BY <2>4, <2>5, <2>6, <3>2 DEF IInv
  <2> QED BY <2>4, <2>7, <2>8, <2>9
<1> QED BY <1>1, <1>2 DEF release_map

----------------------------------------------------------------------------
(* Interrupts                                                               *)

\* Relaying an interrupt gives main a notification and changes nothing else.
LEMMA InvokeTells ==
    ASSUME IInv, NEW cb, Invoke(cb)
    PROVE  told' \subseteq Notices
  BY DEF IInv, RelayTypeOK, Invoke, service_irq, Notice, Notices, IrqMap, FieldMax

\* The steps of the interrupt handlers, of the devices, of foreign modules and
\* of main keep the invariant.
LEMMA MachineStep ==
    ASSUME IInv,
           \/ \E l \in AllLines : Raise(l)
           \/ \E l \in IntrmanLines : ServeLine(l) \/ ForeignRequest(l) \/ ForeignRelease(l)
           \/ SpdServe
           \/ \E n \in told : MainTakes(n)
    PROVE  IInv'
<1>. USE SlotsAreCallbacks
<1>1. CASE SpdServe \/ \E l \in SpdLines : RaiseSpd(l) /\ UNCHANGED <<irqs, status, told>>
  <2>1. IrqInv' /\ UNCHANGED <<handler, spd_irqs>>
    BY <1>1, SpdStep DEF SpdServe, IInv, IrqInv
  <2>2. UNCHANGED <<irqs, status>> /\ told' \subseteq Notices
    BY <1>1, InvokeTells DEF SpdServe, IInv, RelayTypeOK
  <2>3. TableInv'
    BY <2>1, <2>2, TableKept DEF Kept, Callback, AllLines
  <2> QED BY <2>1, <2>2, <2>3 DEF IInv, RelayTypeOK, SpdLinesRelayed
<1>2. ASSUME NEW l \in IntrmanLines, RaiseLine(l) \/ ServeLine(l) PROVE IInv'
  <2>1. UNCHANGED <<handler, enabled, spdVars, irqs, status>> /\ raised' \subseteq IntrmanLines
    BY <1>2 DEF RaiseLine, ServeLine, IInv, IrqInv, IrqBase, IrqTypeOK, IntrmanTypeOK
  <2>2. told' \subseteq Notices
    BY <1>2, InvokeTells DEF RaiseLine, ServeLine, IInv, RelayTypeOK
  <2>3. IrqInv'
    BY <2>1
    DEF spdVars, IInv, IrqInv, IrqBase, IrqTypeOK, IntrmanTypeOK, SpdTypeOK, HandlerOnDev9,
        IdleServesNothing, Dev9Held, CountCovers, MaskedUnlessRequested, NoLostSpd,
        IrqActive, CountMatches, Requested, Held
  <2>4. TableInv'
    BY <2>1, <2>3, TableKept DEF spdVars, Kept, Callback, AllLines
  <2> QED BY <2>1, <2>2, <2>3, <2>4 DEF IInv, spdVars, RelayTypeOK, SpdLinesRelayed
<1>3. ASSUME NEW l \in IntrmanLines, ForeignRequest(l) \/ ForeignRelease(l) PROVE IInv'
  <2>1. /\ handler[l] \in {NoCb, Foreign}
        /\ \E cb \in {NoCb, Foreign} : handler' = [handler EXCEPT ![l] = cb]
        /\ UNCHANGED <<raised, spdVars, irqs, status, told>>
        /\ enabled' \subseteq IntrmanLines
        /\ \A m \in IntrmanLines : (Held(m) => m \in enabled) => (Held(m)' => m \in enabled')
    BY <1>3
    DEF ForeignRequest, ForeignRelease, Free, Held, IInv, IrqInv, IrqBase, IrqTypeOK, IntrmanTypeOK
  <2>2. IrqTypeOK' /\ HandlerOnDev9'
    BY <2>1
    DEF spdVars, IInv, IrqInv, IrqBase, IrqTypeOK, IntrmanTypeOK, SpdTypeOK, HandlerOnDev9
  <2>3. Dev9Held'
    BY <2>1, SpdAssumption
    DEF spdVars, IInv, IrqInv, IrqBase, IrqTypeOK, IntrmanTypeOK, Dev9Held
  <2>4. IdleServesNothing' /\ CountCovers' /\ MaskedUnlessRequested' /\ NoLostSpd'
    BY <2>1
    DEF spdVars, IInv, IrqInv, IrqBase, IdleServesNothing, CountCovers, MaskedUnlessRequested,
        NoLostSpd, Requested
  <2>5. ~MayFail => CountMatches' /\ IrqActive'
    BY <2>1 DEF spdVars, IInv, IrqInv, IrqBase, IrqActive, CountMatches, Requested
  <2>6. TableInv'
    BY <2>1, SpdAssumption
    DEF IInv, IrqInv, IrqBase, IrqTypeOK, IntrmanTypeOK, TableInv, HandlerSound, OneSlotPerLine,
        SlotsHoldLines, spdVars, Callback, spd_valid_irq, AllLines
  <2> QED BY <2>1, <2>2, <2>3, <2>4, <2>5, <2>6
      DEF IInv, IrqInv, IrqBase, spdVars, RelayTypeOK, SpdLinesRelayed
<1>4. ASSUME NEW n \in told, MainTakes(n) PROVE IInv'
  <2>1. UNCHANGED <<irqVars, irqs, status>> /\ told' \subseteq Notices
    BY <1>4 DEF MainTakes, IInv, RelayTypeOK
  <2> QED BY <2>1, NothingChanged DEF IInv, RelayTypeOK
<1> QED BY <1>1, <1>2, <1>3, <1>4 DEF Raise

----------------------------------------------------------------------------
(* Theorems                                                                 *)

\* Every step keeps the invariant.
LEMMA NextIInv == IInv /\ [Next]_vars => IInv'
<1>. SUFFICES ASSUME IInv, [Next]_vars PROVE IInv'
  OBVIOUS
<1>1. CASE ServeRpc
  BY <1>1, RequestMapStep, RemapStep, ReleaseMapStep, RefusedStep DEF ServeRpc
<1>2. CASE \/ \E l \in AllLines : Raise(l)
           \/ \E l \in IntrmanLines : ServeLine(l) \/ ForeignRequest(l) \/ ForeignRelease(l)
           \/ SpdServe
           \/ \E n \in told : MainTakes(n)
  BY <1>2, MachineStep
<1>3. CASE UNCHANGED vars
  <2>1. UNCHANGED irqVars /\ UNCHANGED <<irqs, status, told>>
    BY <1>3 DEF vars
  <2> QED BY <2>1, NothingChanged DEF IInv, RelayTypeOK
<1> QED BY <1>1, <1>2, <1>3 DEF Next

\* The invariant holds in every state, for any number of lines, slots and calls
\* and whatever intrman answers.
THEOREM IInvHolds == Spec => []IInv
  BY InitIInv, NextIInv, PTL DEF Spec

\* Every variable keeps its type: no errno is converted to something else, and
\* no bit field of struct iop_irq_map is given a number it cannot hold.
THEOREM TypesHold == Spec => []TypeOK
<1>1. IInv => TypeOK
  BY DEF IInv, IrqInv, IrqBase, IrqTypeOK, RelayTypeOK, TypeOK
<1> QED BY <1>1, IInvHolds, PTL

\* No interrupt is ever relayed through a slot that is unused or another line's.
THEOREM HandlersAreSound == Spec => []HandlerSound
<1>1. IInv => HandlerSound
  BY DEF IInv, TableInv
<1> QED BY <1>1, IInvHolds, PTL

\* No line ever has two slots.
THEOREM OneSlotEach == Spec => []OneSlotPerLine
<1>1. IInv => OneSlotPerLine
  BY DEF IInv, TableInv
<1> QED BY <1>1, IInvHolds, PTL

\* spd_handle_irq holds IRQ_IOP_DEV9 exactly while the count is positive, even
\* after intrman refused to give it back.
THEOREM Dev9HeldByCount == Spec => []Dev9Held
<1>1. IInv => Dev9Held
  BY DEF IInv, IrqInv, IrqBase
<1> QED BY <1>1, IInvHolds, PTL

\* No line without a callback is ever let through.
THEOREM UnrequestedIsMasked == Spec => []MaskedUnlessRequested
<1>1. IInv => MaskedUnlessRequested
  BY DEF IInv, IrqInv, IrqBase
<1> QED BY <1>1, IInvHolds, PTL

\* The acknowledgement of spd_handle_irq never loses an interrupt.
THEOREM NoInterruptLost == Spec => []NoLostSpd
<1>1. IInv => NoLostSpd
  BY DEF IInv, IrqInv, IrqBase
<1> QED BY <1>1, IInvHolds, PTL

\* When intrman fails only as it must, the count is the number of lines in use.
THEOREM CountIsExact ==
    ASSUME ~MayFail PROVE Spec => []CountMatches
<1>1. IInv => CountMatches
  BY DEF IInv, IrqInv, IrqBase, IrqActive
<1> QED BY <1>1, IInvHolds, PTL

\* When intrman fails only as it must, a slot in use is the callback of its line
\* and the line is let through to it.
THEOREM SetSlotsAreActive ==
    ASSUME ~MayFail PROVE Spec => []SlotActive
<1>1. IInv => SlotActive
  <2>0. SUFFICES ASSUME IInv PROVE SlotActive
    OBVIOUS
  <2>1. SUFFICES ASSUME NEW k \in Slots, irqs[k].set
                 PROVE  /\ irqs[k].iop \in AllLines
                        /\ Callback(irqs[k].iop) = k
                        /\ Unmasked(irqs[k].iop)
    BY DEF SlotActive
  <2>2. irqs[k].iop \in AllLines /\ Callback(irqs[k].iop) = k /\ k # NoCb
    BY <2>0, <2>1, SlotsAreCallbacks DEF IInv, TableInv, SlotsHoldLines
  <2>3. IrqActive
    BY <2>0 DEF IInv, IrqInv
  <2>4. CASE irqs[k].iop \in IntrmanLines \ SpdLines
    BY <2>2, <2>3, <2>4 DEF IrqActive, Held, Unmasked, Callback, spd_valid_irq
  <2>5. CASE irqs[k].iop \in SpdLines
    <3>1. irqs[k].iop \in Requested
      BY <2>2, <2>5 DEF Requested, Callback, spd_valid_irq
    <3>2. IsFiniteSet(Requested)
      BY SpdAssumption, FS_Subset DEF Requested
    <3>3. Cardinality(Requested) \in Nat /\ Cardinality(Requested) # 0
      BY <3>1, <3>2, FS_EmptySet, FS_CardinalityType
    <3>4. handler[IRQ_IOP_DEV9] = SpdHandler
      BY <2>0, <2>3, <3>3 DEF IInv, IrqInv, IrqBase, Dev9Held, IrqActive, CountMatches
    <3>5. IRQ_IOP_DEV9 \in enabled
      BY <2>3, <3>4, SpdAssumption, SlotsAreCallbacks DEF IrqActive, Held
    <3> QED BY <2>2, <2>3, <2>5, <3>1, <3>4, <3>5 DEF IrqActive, Unmasked, spd_valid_irq
  <2> QED BY <2>2, <2>4, <2>5 DEF AllLines
<1> QED BY <1>1, IInvHolds, PTL

\* A notification that is new in a step is that of a relay in use, whose line was
\* raised and which the step leaves alone.
RelayStep ==
    \A n \in told' \ told : \E k \in Slots :
        /\ irqs[k].set /\ Notice(irqs[k]) = n
        /\ irqs[k].iop \in raised \cup pending
        /\ irqs'[k] = irqs[k]

\* A callback that is registered for a line relays that line.
LEMMA InvokeFollowsMap ==
    ASSUME IInv, NEW l \in AllLines, Invoke(Callback(l)), UNCHANGED irqs,
           l \in raised \cup pending
    PROVE  RelayStep
<1>1. CASE Callback(l) \in Slots
  <2>1. irqs[Callback(l)].set /\ irqs[Callback(l)].iop = l
    BY <1>1 DEF IInv, TableInv, HandlerSound
  <2>2. told' = told \cup {Notice(irqs[Callback(l)])}
    BY <1>1 DEF Invoke, service_irq
  <2> QED BY <1>1, <2>1, <2>2 DEF RelayStep
<1>2. CASE Callback(l) \notin Slots
  BY <1>2 DEF Invoke, RelayStep
<1> QED BY <1>1, <1>2

\* Main is told of nothing but interrupts of relayed lines, each under the map
\* the relay has at that moment.
THEOREM NoticesFollowMaps == Spec => RelayFollowsMap
<1>1. ASSUME IInv, Next PROVE RelayStep
  <2>1. CASE told' \subseteq told
    BY <2>1 DEF RelayStep
  <2>2. ASSUME NEW l \in IntrmanLines, ServeLine(l) PROVE RelayStep
    <3>1. Callback(l) = handler[l] /\ l \in AllLines
      BY <1>1, CallbackOfLine DEF AllLines
    <3> QED BY <1>1, <2>2, <3>1, InvokeFollowsMap DEF ServeLine
  <2>3. ASSUME NEW l \in SpdLines, SpdCall(l), Invoke(spd_irqs[l]), UNCHANGED irqs
        PROVE  RelayStep
    <3>1. Callback(l) = spd_irqs[l] /\ l \in AllLines
      BY <1>1, CallbackOfLine DEF AllLines
    <3> QED BY <1>1, <2>3, <3>1, InvokeFollowsMap DEF SpdCall
  <2>4. CASE \/ ServeRpc
             \/ \E l \in AllLines : Raise(l)
             \/ \E l \in IntrmanLines : ForeignRequest(l) \/ ForeignRelease(l)
             \/ \E n \in told : MainTakes(n)
    BY <2>1, <2>4 DEF ServeRpc, Raise, RaiseLine, ForeignRequest, ForeignRelease, MainTakes
  <2>5. CASE SpdServe
    BY <2>1, <2>3, <2>5 DEF SpdServe
  <2> QED BY <1>1, <2>2, <2>4, <2>5 DEF Next
<1>2. ASSUME UNCHANGED vars PROVE RelayStep
  BY <1>2 DEF vars, RelayStep
<1>3. IInv /\ [Next]_vars => [RelayStep]_vars
  BY <1>1, <1>2
<1> QED BY <1>3, IInvHolds, PTL DEF Spec, RelayFollowsMap, RelayStep

----------------------------------------------------------------------------
(* Calls that fail                                                          *)

\* A slot that is not in use holds what it held in the beginning: request_map
\* clears the slot again when the line cannot be had.
UnsetIsUnused == \A k \in Slots : ~irqs[k].set => irqs[k] = Unused

\* Slots change in the three procedures only, and keep that.
LEMMA UnsetStaysUnused ==
    IInv /\ UnsetIsUnused /\ [Next]_vars => UnsetIsUnused'
<1>. SUFFICES ASSUME IInv, UnsetIsUnused, [Next]_vars PROVE UnsetIsUnused'
  OBVIOUS
<1>1. irqs \in [Slots -> IrqMap]
  BY DEF IInv, RelayTypeOK
<1>2. CASE UNCHANGED irqs
  BY <1>2 DEF UnsetIsUnused
<1>3. ASSUME NEW k \in Slots, NEW m, m.set \/ m = Unused, irqs' = [irqs EXCEPT ![k] = m]
      PROVE  UnsetIsUnused'
  BY <1>1, <1>3 DEF UnsetIsUnused
<1>4. CASE ServeRpc
  <2>1. PICK ret \in Errnos :
           \/ \E iop \in RpcIrqs, map \in RpcMaps, rpc \in BOOLEAN :
                 \/ request_map(iop, map, rpc, ret)
                 \/ remap(iop, map, rpc, ret)
           \/ \E iop \in RpcIrqs : release_map(iop, ret)
           \/ Fails(ret, EINVAL)
    BY <1>4 DEF ServeRpc
  <2>2. ASSUME NEW iop \in RpcIrqs, NEW map \in RpcMaps, NEW rpc \in BOOLEAN,
               request_map(iop, map, rpc, ret)
        PROVE  UnsetIsUnused'
    BY <1>2, <1>3, <2>2 DEF request_map, Fails
  <2>3. ASSUME NEW iop \in RpcIrqs, NEW map \in RpcMaps, NEW rpc \in BOOLEAN,
               remap(iop, map, rpc, ret)
        PROVE  UnsetIsUnused'
    <3>1. ASSUME NEW k \in Slots, find_map(iop, k),
                 irqs' = [irqs EXCEPT ![k].map = map, ![k].rpc = rpc]
          PROVE  UnsetIsUnused'
      BY <1>1, <3>1 DEF find_map, IsFirst, MapsOf, IrqMap, UnsetIsUnused
    <3> QED BY <1>2, <2>3, <3>1 DEF remap, Fails
  <2>4. ASSUME NEW iop \in RpcIrqs, release_map(iop, ret) PROVE UnsetIsUnused'
    BY <1>2, <1>3, <2>4 DEF release_map, Fails
  <2> QED BY <1>2, <2>1, <2>2, <2>3, <2>4 DEF Fails
<1>5. CASE ~ServeRpc
  BY <1>2, <1>5
  DEF Next, Raise, RaiseLine, ServeLine, ForeignRequest, ForeignRelease, SpdServe, MainTakes, vars
<1> QED BY <1>4, <1>5

\* What a call that returns an error leaves, when intrman refuses only what it
\* must: with a refusal of its own the line of a slot can be lost.
LEMMA FailedRpcStep ==
    ASSUME IInv, UnsetIsUnused, ~MayFail, ServeRpc, status' # 0
    PROVE  UNCHANGED <<irqVars, irqs>>
<1>1. PICK ret \in Errnos \ {0} :
         \/ \E iop \in RpcIrqs, map \in RpcMaps, rpc \in BOOLEAN :
               \/ request_map(iop, map, rpc, ret)
               \/ remap(iop, map, rpc, ret)
         \/ \E iop \in RpcIrqs : release_map(iop, ret)
         \/ Fails(ret, EINVAL)
  BY DEF ServeRpc
<1>2. CASE \E errno : Fails(ret, errno)
  BY <1>2 DEF Fails
<1>3. ASSUME NEW iop \in RpcIrqs, NEW map \in RpcMaps, NEW rpc \in BOOLEAN, NEW k \in Slots,
             find_unset(k), request_irq(iop, k, ret),
             irqs' = [irqs EXCEPT ![k] =
                IF ret < 0 THEN Unused
                ELSE [set |-> TRUE, iop |-> iop, map |-> map, rpc |-> rpc]]
      PROVE  UNCHANGED <<irqVars, irqs>>
  <2>1. UNCHANGED irqVars /\ ret < 0
    BY <1>1, <1>3, RequestIrq, SlotsAreCallbacks DEF IInv
  <2>2. irqs[k] = Unused
    BY <1>3 DEF find_unset, IsFirst, UnsetMaps, UnsetIsUnused
  <2>3. irqs' = irqs
    BY <1>3, <2>1, <2>2 DEF IInv, RelayTypeOK
  <2> QED BY <2>1, <2>3
<1>4. ASSUME NEW iop \in RpcIrqs, NEW k \in Slots, find_map(iop, k), release_irq(iop, ret)
      PROVE  FALSE
  <2>1. iop \in AllLines /\ Callback(iop) = k
    BY <1>4 DEF find_map, IsFirst, MapsOf, IInv, TableInv, SlotsHoldLines
  <2>2. Callback(iop) # SpdHandler /\ Callback(iop) # NoCb
    BY <2>1, SlotsAreCallbacks
  <2> QED BY <1>1, <1>4, <2>1, <2>2, ReleaseIrq DEF IInv
<1>5. ASSUME NEW iop \in RpcIrqs, NEW map \in RpcMaps, NEW rpc \in BOOLEAN,
             request_map(iop, map, rpc, ret)
      PROVE  UNCHANGED <<irqVars, irqs>>
  BY <1>2, <1>3, <1>5 DEF request_map
<1>6. ASSUME NEW iop \in RpcIrqs, NEW map \in RpcMaps, NEW rpc \in BOOLEAN,
             remap(iop, map, rpc, ret)
      PROVE  UNCHANGED <<irqVars, irqs>>
  BY <1>1, <1>2, <1>6 DEF remap
<1>7. ASSUME NEW iop \in RpcIrqs, release_map(iop, ret) PROVE UNCHANGED <<irqVars, irqs>>
  BY <1>2, <1>4, <1>7 DEF release_map
<1> QED BY <1>1, <1>2, <1>5, <1>6, <1>7

\* When intrman refuses only what it must, a call that returns an error has
\* changed nothing, in the table or in either controller, however deep below the
\* failure was met.
THEOREM FailuresChangeNothing ==
    ASSUME ~MayFail PROVE Spec => FailedRpcChangesNothing
<1>. DEFINE Untouched == status' # 0 /\ told' = told /\ ServeRpc => UNCHANGED <<irqVars, irqs>>
<1>1. Init => UnsetIsUnused
  BY DEF Init, UnsetIsUnused
<1>2. IInv /\ UnsetIsUnused /\ [Next]_vars => [Untouched]_vars
  BY FailedRpcStep
<1>3. Spec => []UnsetIsUnused
  BY <1>1, UnsetStaysUnused, IInvHolds, PTL DEF Spec
<1> QED BY <1>2, <1>3, IInvHolds, PTL DEF Spec, FailedRpcChangesNothing
============================================================================
