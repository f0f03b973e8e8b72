---------------------------- MODULE SifCmdProofs ----------------------------
(***************************************************************************)
(* The packet of sif_cmd_opt_data is valid for as long as the DMA           *)
(* controller may read it, and sending it keeps the promise of SifChannel,  *)
(* for any number of threads and ids and any length of the DMA queue.       *)
(*                                                                          *)
(* PacketsValid is not inductive: that a function does not return too early *)
(* rests on the ids of the transfers in the queue being different, so that  *)
(* none of them is taken for another, and a packet is what was asked for    *)
(* from the call on, not only once it is queued.                            *)
(***************************************************************************)
EXTENDS SifCmd, SequenceTheorems, TLAPS

\* What a context has, by where it is.
FramesMatch ==
    \A c \in Contexts :
        /\ pc[c] = "runs" => asked[c] = None
        /\ pc[c] # "runs" => asked[c] \in Commands /\ packet[c] = asked[c]
        /\ pc[c] = "wait" => dma_id[c] \in Ids

\* No two transfers have the same id.
IdsDiffer ==
    \A i, j \in DOMAIN queue : queue[i].id = queue[j].id => i = j

IInv ==
    /\ PacketsValid
    /\ FramesMatch
    /\ IdsDiffer

----------------------------------------------------------------------------
(* A call begins                                                            *)

\* Whatever is called, what is asked for is a command that fits a packet.
LEMMA CallBegins ==
    ASSUME NEW c \in Contexts, Call(c)
    PROVE  \E kind \in Kinds, n \in 0 .. CMD_PACKET_PAYLOAD_MAX : sif_cmd_opt_data(c, kind, n)
<1>1. PICK n \in Sizes : sif_cmd(c, n) \/ putk(c, n) \/ printk(c, n)
  BY DEF Call
<1>2. n \in Nat
  BY SifAssumption
<1>3. \A kind \in Kinds, m \in Nat :
         sif_cmd_opt_data(c, kind, m) => m \in 0 .. CMD_PACKET_PAYLOAD_MAX
  BY DEF sif_cmd_opt_data, TooLarge, CMD_PACKET_PAYLOAD_MAX
<1>4. "relay" \in Kinds /\ "printk" \in Kinds
  BY DEF Kinds
<1>5. CASE sif_cmd(c, n)
  BY <1>2, <1>5, <1>3, <1>4 DEF sif_cmd
<1>6. ASSUME NEW length \in Nat, putk(c, length)
      PROVE  \E kind \in Kinds, m \in 0 .. CMD_PACKET_PAYLOAD_MAX : sif_cmd_opt_data(c, kind, m)
  <2>1. length + 1 \in Nat
    OBVIOUS
  <2> QED BY <1>6, <2>1, <1>3, <1>4 DEF putk
<1>7. CASE printk(c, n)
  <2>1. Min({n, CMD_PACKET_PAYLOAD_MAX - 1}) \in Nat
    <3>1. \E x \in {n, 95} : \A y \in {n, 95} : x =< y
      BY <1>2
    <3> QED BY <1>2, <3>1 DEF Min, CMD_PACKET_PAYLOAD_MAX
  <2> QED BY <1>6, <1>7, <2>1 DEF printk
<1> QED BY <1>1, <1>2, <1>5, <1>6, <1>7

\* A new call builds its packet in a frame the controller does not read.
LEMMA CallStep ==
    ASSUME IInv, NEW c \in Contexts, NEW kind \in Kinds,
           NEW n \in 0 .. CMD_PACKET_PAYLOAD_MAX, sif_cmd_opt_data(c, kind, n)
    PROVE  IInv'
<1>. USE DEF IInv, PacketsValid, TypeOK, sif_cmd_opt_data
<1>1. [cmd |-> kind, size |-> n] \in Commands
  BY DEF Commands
<1>2. TypeOK'
  BY <1>1
<1>3. PacketsValid'
  BY <1>2
<1>4. FramesMatch'
  BY <1>1 DEF FramesMatch
<1>5. IdsDiffer'
  BY DEF IdsDiffer
<1> QED BY <1>3, <1>4, <1>5

\* The places of the queue, and what is in them.
LEMMA QueueElements ==
    ASSUME TypeOK
    PROVE  /\ DOMAIN queue = 1 .. Len(queue) /\ Len(queue) \in Nat
           /\ \A i \in DOMAIN queue : queue[i] \in Transfers
<1>1. queue \in Seq(Transfers)
  BY DEF TypeOK
<1> QED BY <1>1, LenProperties, ElementOfSeq

----------------------------------------------------------------------------
(* A packet is queued                                                       *)

\* The id is new, and the sender waits for it.
LEMMA SendStep ==
    ASSUME IInv, NEW c \in Contexts, SendCmd(c)
    PROVE  IInv'
<1>. USE DEF IInv, PacketsValid, TypeOK
<1>1. PICK id \in Ids :
         /\ ~Incomplete(id)
         /\ dma_id' = [dma_id EXCEPT ![c] = id]
         /\ queue' = Append(queue, [id |-> id, from |-> c])
  BY DEF SendCmd
<1>2. /\ pc[c] = "send" /\ pc' = [pc EXCEPT ![c] = "wait"]
      /\ Len(queue) < DmaMax
      /\ UNCHANGED <<asked, packet, received>>
  BY DEF SendCmd
<1>3. /\ queue' \in Seq(Transfers)
      /\ Len(queue') = Len(queue) + 1
      /\ \A i \in 1 .. Len(queue) : queue'[i] = queue[i]
      /\ queue'[Len(queue) + 1] = [id |-> id, from |-> c]
  BY <1>1, AppendProperties DEF Transfers
<1>4. DOMAIN queue' = 1 .. Len(queue) + 1 /\ DOMAIN queue = 1 .. Len(queue)
  BY <1>3, LenProperties
<1>5. TypeOK'
  BY <1>1, <1>2, <1>3, SifAssumption, LenProperties
<1>6. \A i \in DOMAIN queue : queue[i].id # id /\ queue[i].from # c
  BY <1>1, <1>2 DEF Incomplete
<1>7. PacketsValid'
  <2>1. \A i \in 1 .. Len(queue) : queue[i] \in Transfers
    BY ElementOfSeq
  <2>2. ASSUME NEW i \in DOMAIN queue'
        PROVE  /\ pc'[queue'[i].from] = "wait"
               /\ dma_id'[queue'[i].from] = queue'[i].id
               /\ packet'[queue'[i].from] = asked'[queue'[i].from]
    <3>1. CASE i \in 1 .. Len(queue)
      BY <1>1, <1>2, <1>3, <1>4, <1>6, <2>1, <3>1 DEF Transfers
    <3>2. CASE i = Len(queue) + 1
      BY <1>1, <1>2, <1>3, <3>2 DEF FramesMatch
    <3> QED BY <1>4, <2>2, <3>1, <3>2
  <2> QED BY <1>5, <2>2
<1>8. FramesMatch'
  BY <1>1, <1>2 DEF FramesMatch
<1>9. IdsDiffer'
  BY <1>3, <1>4, <1>6 DEF IdsDiffer
<1> QED BY <1>7, <1>8, <1>9

----------------------------------------------------------------------------
(* A packet is transferred                                                  *)

\* What is left of the queue, one place further up.
LEMMA QueueAdvances ==
    ASSUME IInv, Transfer
    PROVE  /\ queue' \in Seq(Transfers) /\ Len(queue') = Len(queue) - 1
           /\ DOMAIN queue = 1 .. Len(queue) /\ DOMAIN queue' = 1 .. Len(queue) - 1
           /\ \A i \in DOMAIN queue' : i + 1 \in DOMAIN queue /\ queue'[i] = queue[i + 1]
           /\ 1 \in DOMAIN queue /\ Head(queue) = queue[1]
           /\ \A i \in DOMAIN queue : queue[i] \in Transfers
<1>. USE DEF IInv, PacketsValid, TypeOK
<1>1. queue \in Seq(Transfers) /\ queue # <<>> /\ queue' = Tail(queue)
  BY DEF Transfer
<1>2. Len(queue) \in Nat \ {0} /\ DOMAIN queue = 1 .. Len(queue)
  BY <1>1, EmptySeq, LenProperties
<1>3. /\ queue' \in Seq(Transfers) /\ Len(queue') = Len(queue) - 1
      /\ \A i \in 1 .. Len(queue') : queue'[i] = queue[i + 1]
  BY <1>1, HeadTailProperties
<1>4. DOMAIN queue' = 1 .. Len(queue')
  BY <1>3, LenProperties
<1> QED BY <1>1, <1>2, <1>3, <1>4, ElementOfSeq

\* The frames of those that wait stay as they are.
LEMMA TransferStep ==
    ASSUME IInv, Transfer
    PROVE  IInv'
<1>. USE DEF IInv, PacketsValid, TypeOK
<1>1. UNCHANGED <<pc, asked, packet, dma_id>> /\ received' = packet[queue[1].from]
  BY QueueAdvances DEF Transfer
<1>2. TypeOK'
  <2>1. queue' \in Seq(Transfers) /\ Len(queue') <= DmaMax
    BY QueueAdvances, QueueElements, SifAssumption
  <2>2. received' \in Commands \cup {None, Junk}
    BY <1>1, QueueAdvances DEF Transfers
  <2> QED BY <1>1, <2>1, <2>2
<1>3. PacketsValid'
  BY <1>1, <1>2, QueueAdvances
<1>4. FramesMatch'
  BY <1>1 DEF FramesMatch
<1>5. IdsDiffer'
  BY QueueAdvances DEF IdsDiffer
<1> QED BY <1>3, <1>4, <1>5

----------------------------------------------------------------------------
(* The call returns                                                         *)

\* Nothing in the queue refers to the frame that is given up.
LEMMA ReturnIsLate ==
    ASSUME IInv, NEW c \in Contexts, Relaxed(c)
    PROVE  \A i \in DOMAIN queue : queue[i].from # c
  BY DEF IInv, PacketsValid, Relaxed, Completed, Incomplete

LEMMA RelaxedStep ==
    ASSUME IInv, NEW c \in Contexts, Relaxed(c)
    PROVE  IInv'
<1>. USE DEF IInv, PacketsValid, TypeOK
<1>1. /\ pc' = [pc EXCEPT ![c] = "runs"] /\ asked' = [asked EXCEPT ![c] = None]
      /\ packet' = [packet EXCEPT ![c] = Junk] /\ dma_id' = [dma_id EXCEPT ![c] = 0]
      /\ UNCHANGED <<queue, received>>
  BY DEF Relaxed
<1>2. TypeOK'
  BY <1>1
<1>3. \A i \in DOMAIN queue : queue[i].from \in Contexts
  BY QueueElements DEF Transfers
<1>4. PacketsValid'
  BY <1>1, <1>2, <1>3, ReturnIsLate
<1>5. FramesMatch'
  BY <1>1 DEF FramesMatch
<1>6. IdsDiffer'
  BY <1>1 DEF IdsDiffer
<1> QED BY <1>4, <1>5, <1>6

----------------------------------------------------------------------------
(* Theorems                                                                 *)

\* The invariant holds in every state.
THEOREM IInvHolds == Spec => []IInv
<1>1. Init => IInv
  <2>1. SUFFICES ASSUME Init PROVE IInv
    OBVIOUS
  <2>2. DOMAIN queue = {} /\ Len(queue) = 0 /\ queue \in Seq(Transfers)
    BY <2>1, EmptySeq DEF Init
  <2> QED BY <2>1, <2>2, SifAssumption DEF Init, IInv, PacketsValid, TypeOK, FramesMatch, IdsDiffer
<1>2. IInv /\ [Next]_vars => IInv'
  <2>1. SUFFICES ASSUME IInv, [Next]_vars PROVE IInv'
    OBVIOUS
  <2>2. ASSUME NEW c \in Contexts, Call(c) PROVE IInv'
    BY <2>1, <2>2, CallBegins, CallStep
  <2>3. ASSUME NEW c \in Contexts, SendCmd(c) PROVE IInv'
    BY <2>1, <2>3, SendStep
  <2>4. ASSUME NEW c \in Contexts, Relaxed(c) PROVE IInv'
    BY <2>1, <2>4, RelaxedStep
  <2>5. CASE Transfer
    BY <2>1, <2>5, TransferStep
  <2>6. CASE UNCHANGED vars
    BY <2>1, <2>6 DEF vars, IInv, PacketsValid, TypeOK, FramesMatch, IdsDiffer
  <2> QED BY <2>1, <2>2, <2>3, <2>4, <2>5, <2>6 DEF Next
<1> QED BY <1>1, <1>2, PTL DEF Spec

\* The controller never reads a frame whose function has returned or holds
\* another packet than the one it was queued for ("packet and src must remain
\* valid", include/iopmod/module/sifcmd.h).
THEOREM PacketsAreValid == Spec => []PacketsValid
<1>1. IInv => PacketsValid
  BY DEF IInv
<1> QED BY <1>1, IInvHolds, PTL

\* sif_cmd_opt_data implements SifChannel: each command is received unaltered,
\* once, and before the call returns.
THEOREM SendsAreIntact == Spec => SendsIntact
<1>. DEFINE Queued(c) == \E i \in DOMAIN queue : queue[i].from = c
            Arrived == {c \in Contexts : pc[c] = "wait" /\ ~Queued(c)}
<1>1. Init => Channel!Init
  BY DEF Init, Channel!Init
<1>2. IInv /\ [Next]_vars => [Channel!Next]_Channel!chanVars
  <2>. SUFFICES ASSUME IInv, [Next]_vars PROVE [Channel!Next]_Channel!chanVars
    OBVIOUS
  <2>. USE DEF IInv, PacketsValid, TypeOK
  <2>1. ASSUME NEW c \in Contexts, Call(c) PROVE Channel!Begin(c)
    <3>1. PICK kind \in Kinds, n \in 0 .. CMD_PACKET_PAYLOAD_MAX : sif_cmd_opt_data(c, kind, n)
      BY <2>1, CallBegins
    <3>2. [cmd |-> kind, size |-> n] \in Commands
      BY DEF Commands
    <3>3. asked[c] = None /\ asked' = [asked EXCEPT ![c] = [cmd |-> kind, size |-> n]]
      BY <3>1 DEF sif_cmd_opt_data, FramesMatch
    <3>4. Arrived' = Arrived /\ UNCHANGED received
      BY <3>1 DEF sif_cmd_opt_data
    <3> QED BY <3>2, <3>3, <3>4 DEF Channel!Begin
  <2>2. ASSUME NEW c \in Contexts, SendCmd(c) PROVE UNCHANGED Channel!chanVars
    <3>1. PICK id \in Ids : queue' = Append(queue, [id |-> id, from |-> c])
      BY <2>2 DEF SendCmd
    <3>2. /\ Len(queue') = Len(queue) + 1 /\ queue' \in Seq(Transfers)
          /\ \A i \in 1 .. Len(queue) : queue'[i] = queue[i]
          /\ queue'[Len(queue) + 1] = [id |-> id, from |-> c]
      BY <3>1, AppendProperties DEF Transfers
    <3>3. DOMAIN queue' = 1 .. Len(queue) + 1 /\ DOMAIN queue = 1 .. Len(queue)
          /\ Len(queue) \in Nat
      BY <3>2, LenProperties
    <3>4. Queued(c)'
      BY <3>2, <3>3
    <3>5. \A d \in Contexts \ {c} : Queued(d)' <=> Queued(d)
      BY <3>2, <3>3
    <3>6. Arrived' = Arrived
      BY <2>2, <3>4, <3>5 DEF SendCmd
    <3> QED BY <2>2, <3>6 DEF SendCmd, Channel!chanVars
  <2>3. ASSUME NEW c \in Contexts, Relaxed(c) PROVE Channel!Return(c)
    <3>1. c \in Arrived
      BY <2>3, ReturnIsLate DEF Relaxed
    <3>2. Arrived' = Arrived \ {c}
      BY <2>3 DEF Relaxed
    <3> QED BY <2>3, <3>1, <3>2 DEF Relaxed, Channel!Return
  <2>4. CASE Transfer
    <3>1. PICK s \in Contexts : s = queue[1].from /\ pc[s] = "wait" /\ packet[s] = asked[s]
      BY <2>4, QueueAdvances DEF Transfers
    <3>2. asked[s] # None /\ s \notin Arrived
      BY <2>4, <3>1, QueueAdvances, NoneAssumption DEF FramesMatch
    <3>3. ~Queued(s)'
      <4>1. SUFFICES ASSUME NEW i \in DOMAIN queue', queue'[i].from = s PROVE FALSE
        OBVIOUS
      <4>2. i + 1 \in DOMAIN queue /\ queue[i + 1].from = s /\ i + 1 # 1
        BY <2>4, <4>1, QueueAdvances, QueueElements
      <4>3. queue[i + 1].id = queue[1].id
        BY <2>4, <3>1, <4>2, QueueAdvances
      <4> QED BY <2>4, <4>2, <4>3, QueueAdvances DEF IdsDiffer
    <3>4. \A d \in Contexts \ {s} : Queued(d)' <=> Queued(d)
      <4>1. ASSUME NEW d \in Contexts \ {s}, Queued(d) PROVE Queued(d)'
        <5>1. PICK i \in DOMAIN queue : queue[i].from = d
          BY <4>1
        <5>2. i # 1
          BY <3>1, <5>1
        <5>3. i - 1 \in DOMAIN queue' /\ queue'[i - 1] = queue[i]
          BY <2>4, <5>2, QueueAdvances, QueueElements
        <5> QED BY <5>1, <5>3
      <4>2. ASSUME NEW d \in Contexts \ {s}, Queued(d)' PROVE Queued(d)
        BY <2>4, <4>2, QueueAdvances
      <4> QED BY <4>1, <4>2
    <3>5. Arrived' = Arrived \cup {s}
      BY <2>4, <3>1, <3>3, <3>4 DEF Transfer
    <3>6. received' = asked[s] /\ UNCHANGED asked
      BY <2>4, <3>1, QueueAdvances DEF Transfer
    <3>7. Channel!Receive(s)
      BY <3>2, <3>5, <3>6 DEF Channel!Receive
    <3> QED BY <3>7 DEF Channel!Next
  <2>5. CASE UNCHANGED vars
    BY <2>5 DEF vars, Channel!chanVars
  <2> QED BY <2>1, <2>2, <2>3, <2>4, <2>5 DEF Next, Channel!Next
<1> QED BY <1>1, <1>2, IInvHolds, PTL DEF Spec, SendsIntact, Channel!Spec
============================================================================
