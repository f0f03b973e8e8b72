------------------------------- MODULE SifCmd -------------------------------
(***************************************************************************)
(* Sending commands to the main processor: sif_cmd_opt_data and             *)
(* sif_dma_relax_for_completion of builtin/sif.c, putk of builtin/printk.c  *)
(* and printk of module/printk.c.                                           *)
(*                                                                          *)
(* The packet is a local variable of the caller, and the DMA controller     *)
(* reads it when it gets to it, not when it is queued.  Threads preempt one *)
(* another at any step; interrupts do too, and while one is handled no      *)
(* thread runs, the DMA controller does.  Every context has its own stack   *)
(* frame.  The ROM modules sifcmd and sifman are external: a bounded queue  *)
(* of transfers, done in order, each with an id in use until it completes.  *)
(***************************************************************************)
EXTENDS Integers, Sequences, FiniteSetsExt

CONSTANTS
    Threads,    \* threads that send commands
    Irq,        \* the interrupt context
    Sizes,      \* payload sizes of direct calls, and lengths of strings
    Ids,        \* ids of DMA transfers
    DmaMax,     \* transfers the DMA queue has room for
    None,       \* no command
    Junk        \* what is left in a frame whose function has returned

ASSUME SifAssumption ==
    /\ Irq \notin Threads
    /\ Sizes \subseteq Nat
    /\ Ids \subseteq Nat \ {0}
    /\ DmaMax \in Nat \ {0}

Contexts == Threads \cup {Irq}

CMD_PACKET_PAYLOAD_MAX == 96

EINVAL == 22

\* A command as main sees it: what it is for, and the size of its payload.
Kinds == {"relay", "printk"}
Commands == [cmd : Kinds, size : 0 .. CMD_PACKET_PAYLOAD_MAX]

ASSUME NoneAssumption == None \notin Commands /\ Junk \notin Commands

VARIABLES
    pc,         \* where each context is in sif_cmd_opt_data
    asked,      \* the call each context made, or None
    packet,     \* the packet in the stack frame of each context
    dma_id,     \* the local variable of that name
    queue,      \* transfers the DMA controller has not completed
    received    \* the command main received last, or None

vars == <<pc, asked, packet, dma_id, queue, received>>

Transfers == [id : Ids, from : Contexts]

TypeOK ==
    /\ pc \in [Contexts -> {"runs", "send", "wait"}]
    /\ asked \in [Contexts -> Commands \cup {None}]
    /\ packet \in [Contexts -> Commands \cup {Junk}]
    /\ dma_id \in [Contexts -> Ids \cup {0}]
    /\ queue \in Seq(Transfers) /\ Len(queue) <= DmaMax
    /\ received \in Commands \cup {None, Junk}

Init ==
    /\ pc = [c \in Contexts |-> "runs"]
    /\ asked = [c \in Contexts |-> None]
    /\ packet = [c \in Contexts |-> Junk]
    /\ dma_id = [c \in Contexts |-> 0]
    /\ queue = <<>>
    /\ received = None

----------------------------------------------------------------------------

\* A context runs when it is the interrupt context or no interrupt is handled.
Runs(c) == c = Irq \/ pc[Irq] = "runs"

\* The DMA controller has not completed the transfer.
Incomplete(id) == \E i \in DOMAIN queue : queue[i].id = id

\* A slip: the payload is compared with the size of a whole packet.
TooLargeForPacket(payload_size) == payload_size > 112

TooLarge(payload_size) == payload_size > CMD_PACKET_PAYLOAD_MAX

\* A call with a payload of this size; -EINVAL if it is too large.
sif_cmd_opt_data(c, kind, payload_size) ==
    /\ pc[c] = "runs" /\ Runs(c)
    /\ ~TooLarge(payload_size)
    /\ LET m == [cmd |-> kind, size |-> payload_size]
       IN asked' = [asked EXCEPT ![c] = m] /\ packet' = [packet EXCEPT ![c] = m]
    /\ pc' = [pc EXCEPT ![c] = "send"]
    /\ UNCHANGED <<dma_id, queue, received>>

sif_cmd(c, size) == sif_cmd_opt_data(c, "relay", size)

\* The terminating zero is sent too.
putk(c, length) == sif_cmd_opt_data(c, "printk", length + 1)

\* vsnprintf has a buffer as large as the largest payload: it leaves room for
\* the terminating zero and cuts off what does not fit.
printk(c, length) == putk(c, Min({length, CMD_PACKET_PAYLOAD_MAX - 1}))

\* A slip: no second attempt when there is no room.
SendCmdOnce(c) ==
    /\ pc[c] = "send" /\ Runs(c)
    /\ \/ Len(queue) = DmaMax /\ UNCHANGED queue /\ dma_id' = [dma_id EXCEPT ![c] = 0]
       \/ /\ Len(queue) < DmaMax
          /\ \E id \in Ids :
                /\ ~Incomplete(id)
                /\ dma_id' = [dma_id EXCEPT ![c] = id]
                /\ queue' = Append(queue, [id |-> id, from |-> c])
    /\ pc' = [pc EXCEPT ![c] = "wait"]
    /\ UNCHANGED <<asked, packet, received>>

\* One round of the loop around send_cmd: it returns 0 when there is no room.
SendCmd(c) ==
    /\ pc[c] = "send" /\ Runs(c)
    /\ Len(queue) < DmaMax
    /\ \E id \in Ids :
          /\ ~Incomplete(id)
          /\ dma_id' = [dma_id EXCEPT ![c] = id]
          /\ queue' = Append(queue, [id |-> id, from |-> c])
    /\ pc' = [pc EXCEPT ![c] = "wait"]
    /\ UNCHANGED <<asked, packet, received>>

\* A slip: a transfer that has begun is taken for done.
CompletedWhenBegun(c) == ~\E i \in DOMAIN queue \ {1} : queue[i].id = dma_id[c]

\* The busy wait ends, the function returns and its frame is no more.
Completed(c) == ~Incomplete(dma_id[c])

Relaxed(c) ==
    /\ pc[c] = "wait" /\ Runs(c)
    /\ Completed(c)
    /\ pc' = [pc EXCEPT ![c] = "runs"]
    /\ asked' = [asked EXCEPT ![c] = None]
    /\ packet' = [packet EXCEPT ![c] = Junk]
    /\ dma_id' = [dma_id EXCEPT ![c] = 0]
    /\ UNCHANGED <<queue, received>>

\* The controller copies the packet at the head of the queue to main.
Transfer ==
    /\ queue # <<>>
    /\ received' = packet[Head(queue).from]
    /\ queue' = Tail(queue)
    /\ UNCHANGED <<pc, asked, packet, dma_id>>

Call(c) == \E n \in Sizes : sif_cmd(c, n) \/ putk(c, n) \/ printk(c, n)

Next ==
    \/ \E c \in Contexts : Call(c) \/ SendCmd(c) \/ Relaxed(c)
    \/ Transfer

\* The controller goes on by itself.  The scheduler lets each context go on,
\* interrupts leave threads time, and a context that finds room in the queue
\* over and over does get it.
Fairness ==
    /\ WF_vars(Transfer)
    /\ \A c \in Contexts : SF_vars(SendCmd(c)) /\ SF_vars(Relaxed(c))

Spec == Init /\ [][Next]_vars

LiveSpec == Spec /\ Fairness

----------------------------------------------------------------------------
(* Properties                                                               *)

\* The controller never reads a frame whose function has returned or has gone
\* on to another packet: what is queued for a context is what it asked for, and
\* no larger than a packet ("packet and src must remain valid",
\* include/iopmod/module/sifcmd.h).
PacketsValid ==
    /\ TypeOK
    /\ \A i \in DOMAIN queue :
          /\ pc[queue[i].from] = "wait"
          /\ dma_id[queue[i].from] = queue[i].id
          /\ packet[queue[i].from] = asked[queue[i].from]

\* Commands reach main unaltered and once, before the call returns and not
\* after, and a payload that is refused does not reach it.
Channel == INSTANCE SifChannel WITH
    call <- asked,
    arrived <- {c \in Contexts : pc[c] = "wait" /\ ~\E i \in DOMAIN queue : queue[i].from = c}

SendsIntact == Channel!Spec

\* They do reach main, and the call does return, also when the queue was full
\* and the sender had to try again.
SendsReturn == Channel!LiveSpec
============================================================================
