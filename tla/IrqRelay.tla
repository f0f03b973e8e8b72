------------------------------ MODULE IrqRelay ------------------------------
(***************************************************************************)
(* module/irqrelay.c over module/irq.c, builtin/spd-irq.c and               *)
(* builtin/interrupt.c: interrupts of the IOP relayed to the main           *)
(* processor, which asks for each relay by remote procedure calls.          *)
(*                                                                          *)
(* The procedures run in the one thread of the RPC server, each in a        *)
(* critical section with interrupts off, hence one step each and only       *)
(* while no interrupt handler runs.                                         *)
(***************************************************************************)
EXTENDS Irq

CONSTANTS
    Slots,      \* indices of the table irqs, 0 .. MAX_IRQ_RELAYS-1
    RpcIrqs,    \* values of the iop field that RPC calls carry
    RpcMaps,    \* values of the map field that RPC calls carry
    Foreign     \* a handler of a module outside this repository

ASSUME RelayAssumption ==
    /\ Slots \subseteq Nat
    /\ Slots \cup {Foreign} \subseteq Callbacks
    /\ SpdHandler \notin Slots \cup {Foreign}
    /\ Foreign \notin Slots
    /\ RpcIrqs \subseteq 0 .. 255
    /\ RpcMaps \subseteq 0 .. 255

VARIABLES
    irqs,       \* the table of relays, a callback's argument is its index
    status,     \* the static result of irqrelay_service_rpc
    told        \* notifications main has been given and not yet taken

vars == <<irqVars, irqs, status, told>>

\* Both bit fields of struct iop_irq_map have seven bits.
FieldMax == 127

IrqMap == [set : BOOLEAN, iop : 0 .. FieldMax, map : 0 .. FieldMax, rpc : BOOLEAN]

Unused == [set |-> FALSE, iop |-> 0, map |-> 0, rpc |-> FALSE]

\* A notification: a command with the number, or a bit of the 32-bit SMFLAG.
Notices == [rpc : BOOLEAN, irq : 0 .. FieldMax]

TypeOK ==
    /\ IntrmanTypeOK
    /\ SpdTypeOK
    /\ irqs \in [Slots -> IrqMap]
    /\ status \in Errnos
    /\ told \subseteq Notices

Init ==
    /\ IntrmanInit
    /\ SpdInit
    /\ irqs = [k \in Slots |-> Unused]
    /\ status = 0
    /\ told = {}

----------------------------------------------------------------------------
(* Procedures                                                               *)

MapsOf(iop) == {k \in Slots : irqs[k].set /\ irqs[k].iop = iop}
UnsetMaps   == {k \in Slots : ~irqs[k].set}

IsFirst(k, S) == k \in S /\ \A j \in S : k <= j

\* A slip: the first slot is taken, in use or not.
find_unset_first(k) == IsFirst(k, Slots)

find_map(iop, k)  == IsFirst(k, MapsOf(iop))
find_unset(k)     == IsFirst(k, UnsetMaps)

Fails(ret, errno) == ret = -errno /\ UNCHANGED <<irqVars, irqs>>

request_map(iop, map, rpc, ret) ==
    \/ (iop > FieldMax \/ map > FieldMax) /\ Fails(ret, EINVAL)
    \/ /\ iop <= FieldMax /\ map <= FieldMax
       /\ \/ MapsOf(iop) # {} /\ Fails(ret, EBUSY)
          \/ MapsOf(iop) = {} /\ UnsetMaps = {} /\ Fails(ret, ENOMEM)
          \/ /\ MapsOf(iop) = {}
             /\ \E k \in Slots :
                   /\ find_unset(k)
                   /\ request_irq(iop, k, ret)
                   /\ irqs' = [irqs EXCEPT ![k] =
                         IF ret < 0 THEN Unused
                         ELSE [set |-> TRUE, iop |-> iop, map |-> map, rpc |-> rpc]]

remap(iop, map, rpc, ret) ==
    \/ map > FieldMax /\ Fails(ret, EINVAL)
    \/ map <= FieldMax /\ MapsOf(iop) = {} /\ Fails(ret, ENXIO)
    \/ /\ map <= FieldMax
       /\ ret = 0
       /\ \E k \in Slots :
             /\ find_map(iop, k)
             /\ irqs' = [irqs EXCEPT ![k].map = map, ![k].rpc = rpc]
       /\ UNCHANGED irqVars

\* A slip: the slot is cleared and the line kept.
release_map_table(iop, ret) ==
    \/ MapsOf(iop) = {} /\ Fails(ret, ENXIO)
    \/ /\ ret = 0
       /\ \E k \in Slots : find_map(iop, k) /\ irqs' = [irqs EXCEPT ![k] = Unused]
       /\ UNCHANGED irqVars

release_map(iop, ret) ==
    \/ MapsOf(iop) = {} /\ Fails(ret, ENXIO)
    \/ \E k \in Slots :
          /\ find_map(iop, k)
          /\ release_irq(iop, ret)
          /\ irqs' = IF ret = 0 THEN [irqs EXCEPT ![k] = Unused] ELSE irqs

\* A call to irqrelay_service_rpc; a wrong size or number is refused.
ServeRpc ==
    /\ spd_pc = "idle"
    /\ \E ret \in Errnos :
          /\ status' = ret
          /\ \/ \E iop \in RpcIrqs, map \in RpcMaps, rpc \in BOOLEAN :
                   \/ request_map(iop, map, rpc, ret)
                   \/ remap(iop, map, rpc, ret)
             \/ \E iop \in RpcIrqs : release_map(iop, ret)
             \/ Fails(ret, EINVAL)
    /\ UNCHANGED told

----------------------------------------------------------------------------
(* Interrupts                                                               *)

\* A set SMFLAG bit is the map modulo 32: the shift takes the low five bits.
Notice(m) == [rpc |-> m.rpc, irq |-> IF m.rpc THEN m.map ELSE m.map % 32]

service_irq(k) == told' = told \cup {Notice(irqs[k])}

\* What calling a callback does.
Invoke(cb) == IF cb \in Slots THEN service_irq(cb) ELSE UNCHANGED told

\* intrman serves a line that is not spd_handle_irq's.
ServeLine(l) ==
    /\ spd_pc = "idle"
    /\ l \in raised \cap enabled
    /\ handler[l] # SpdHandler
    /\ raised' = raised \ {l}
    /\ Invoke(handler[l])
    /\ UNCHANGED <<handler, enabled, spdVars, irqs, status>>

RaiseLine(l) ==
    /\ raised' = raised \cup {l}
    /\ UNCHANGED <<handler, enabled, spdVars, irqs, status, told>>

Raise(l) ==
    \/ l \in IntrmanLines /\ RaiseLine(l)
    \/ l \in SpdLines /\ RaiseSpd(l) /\ UNCHANGED <<irqs, status, told>>

SpdServe ==
    \/ SpdEnter /\ UNCHANGED <<irqs, status, told>>
    \/ SpdAck /\ UNCHANGED <<irqs, status, told>>
    \/ \E l \in SpdLines :
          SpdCall(l) /\ Invoke(spd_irqs[l]) /\ UNCHANGED <<irqs, status>>
    \/ SpdReturn /\ UNCHANGED <<irqs, status, told>>

----------------------------------------------------------------------------
(* The rest of the machine                                                  *)

\* Modules outside this repository hold lines of intrman, and give back only
\* those of their own.
ForeignRequest(l) ==
    /\ spd_pc = "idle" /\ Free(l)
    /\ handler' = [handler EXCEPT ![l] = Foreign]
    /\ enabled' = enabled \cup {l}
    /\ UNCHANGED <<raised, spdVars, irqs, status, told>>

ForeignRelease(l) ==
    /\ spd_pc = "idle" /\ handler[l] = Foreign
    /\ handler' = [handler EXCEPT ![l] = NoCb]
    /\ enabled' = enabled \ {l}
    /\ UNCHANGED <<raised, spdVars, irqs, status, told>>

\* Main takes a notification.
MainTakes(n) ==
    /\ n \in told
    /\ told' = told \ {n}
    /\ UNCHANGED <<irqVars, irqs, status>>

Next ==
    \/ ServeRpc
    \/ \E l \in AllLines : Raise(l)
    \/ \E l \in IntrmanLines : ServeLine(l) \/ ForeignRequest(l) \/ ForeignRelease(l)
    \/ SpdServe
    \/ \E n \in told : MainTakes(n)

Spec == Init /\ [][Next]_vars

\* Interrupt handlers run to their end, and intrman starves no line that is
\* raised again and again while it is let through.  Nothing obliges main to
\* call, the devices to raise, or other modules to come or go.
Fairness ==
    /\ WF_vars(SpdServe)
    /\ \A l \in IntrmanLines : SF_vars(ServeLine(l))

LiveSpec == Spec /\ Fairness

----------------------------------------------------------------------------
(* Properties                                                               *)

\* The argument of every registered service_irq is a slot in use for that very
\* line, so that no interrupt is relayed through a slot that was released or
\* given to another line (irqrelay.c, lines 143-147 and 202-204).
HandlerSound ==
    \A l \in AllLines : Callback(l) \in Slots =>
        /\ irqs[Callback(l)].set
        /\ irqs[Callback(l)].iop = l

\* No line has two slots: find_map cannot hide a second one.
OneSlotPerLine ==
    \A j, k \in Slots :
        irqs[j].set /\ irqs[k].set /\ irqs[j].iop = irqs[k].iop => j = k

\* "IRQ is active if %true" (irqrelay.c, line 57): a slot in use is the callback
\* of its line, and nothing on the way masks the line.
SlotActive ==
    \A k \in Slots : irqs[k].set =>
        /\ irqs[k].iop \in AllLines
        /\ Callback(irqs[k].iop) = k
        /\ Unmasked(irqs[k].iop)

\* Main is told of an interrupt only when a relay in use maps a line that was
\* raised, or is being served, to that notification.
RelayFollowsMap ==
    [][\A n \in told' \ told : \E k \in Slots :
          /\ irqs[k].set /\ Notice(irqs[k]) = n
          /\ irqs[k].iop \in raised \cup pending
          /\ irqs'[k] = irqs[k]]_vars

\* A call that returns an error leaves the table, both controllers and the
\* device as they were, however deep below the failure was met.
FailedRpcChangesNothing ==
    [][status' # 0 /\ told' = told /\ ServeRpc =>
          UNCHANGED <<irqVars, irqs>>]_vars

\* An interrupt of a relayed line reaches main under the map of that moment,
\* or the relay is released or lost before.
Due(l) == l \in raised \cup owed
IsRelayed(l) == \E k \in Slots : irqs[k].set /\ irqs[k].iop = l
Told(l) == \E k \in Slots : irqs[k].set /\ irqs[k].iop = l /\ Notice(irqs[k]) \in told

DueIsTold ==
    \A l \in AllLines : Due(l) /\ IsRelayed(l) ~> Told(l) \/ ~IsRelayed(l)
============================================================================
