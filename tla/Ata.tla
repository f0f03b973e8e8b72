-------------------------------- MODULE Ata --------------------------------
(***************************************************************************)
(* module/ata.c: the main processor sends lists of scatter-gather entries,  *)
(* the IOP moves the data of each entry from the disk to main in pieces,    *)
(* first through its own buffer and then through the bounce buffer main     *)
(* announced, and acknowledges the list.                                    *)
(*                                                                          *)
(* ata_sif_cmd is called from the interrupt of the SIF, and transfers the   *)
(* whole list there.  The thread sg_event runs the same function on the     *)
(* same structure once, since its semaphore starts at one.  Interrupts come *)
(* between any two steps of the thread, which is compiled with -O0: every   *)
(* mention of a field of the structure reads it from memory.                *)
(*                                                                          *)
(* Sizes and addresses are in units of their own; the disk delivers the     *)
(* units of a list in order.  Main is external: it sends a list when it has *)
(* nothing outstanding, takes the first acknowledgement for the answer, and *)
(* copies a piece out of the bounce buffer before the next one is sent.     *)
(***************************************************************************)
EXTENDS Integers, Sequences

CONSTANTS
    BufSize,    \* sizeof(dev->buffer)
    AlignTo,    \* alignment of SIF DMA
    MaxSg,      \* MAX_ATA_SIF_SG: entries of the table, and of a packet
    BounceSizes,\* sizes of bounce buffers main may announce
    Lists,      \* lists of entries main may send
    MaxLists,   \* bound: how many lists main sends
    Memory      \* addresses of main memory the lists name

Entries == [addr : Nat, size : Nat]

\* A packet of main holds no more entries than the table, and the count is that
\* of the entries in it: the code compares it with nothing.
ASSUME AtaAssumption ==
    /\ {BufSize, AlignTo, MaxSg} \subseteq Nat \ {0}
    /\ BounceSizes \subseteq Nat \ {0}
    /\ Lists \subseteq [write : BOOLEAN, entry : Seq(Entries)]
    /\ \A l \in Lists : Len(l.entry) <= MaxSg
    /\ MaxLists \in Nat /\ Memory \subseteq Nat

Contexts == {"irq", "thread"}
Nothing == -1

VARIABLES
    pc,         \* where each context is
    seen,       \* the value of dev->index a context has read
    e,          \* the number of the entry it points to
    size,       \* wanted_size of the piece being moved through the buffer
    offset,     \* how much of it has gone through the bounce buffer
    count,      \* dev->opt.count
    write,      \* dev->opt.write
    entry,      \* dev->sg.entry: what is left of each entry
    index,      \* dev->index
    dir,        \* dev->dir: -1 undetermined, 0 read, 1 write
    spd,        \* the direction the SPD is programmed for, likewise
    bb,         \* dev->bb.size
    buffer,     \* dev->buffer: the disk unit in each of its places
    disk,       \* the next unit of the list the disk delivers
    mail,       \* the command on its way from main, or NoMail
    acks,       \* acknowledgements on their way to main
    taken,      \* history: acknowledgements that main has got
    waiting,    \* main has sent a list and waits for the acknowledgement
    current,    \* history: the list that arrived last, NoMail before the first
    lists,      \* how many lists main has sent
    processed,  \* history: how many lists have been transferred to the end
    memory      \* main memory: the disk unit this list put in each place, or Nothing

local == <<pc, seen, e, size, offset>>
dev == <<count, write, entry, index, dir, spd, bb, buffer>>
main == <<mail, waiting, lists, taken>>
vars == <<local, dev, disk, acks, current, processed, memory, main>>

NoMail == [op |-> "none"]

\* The commands of main: rop_bb and rop_sg.  rop_rd is what the IOP sends for
\* every piece, and nothing sends rop_wr.
Commands ==
    {NoMail} \cup [op : {"bb"}, size : BounceSizes]
             \cup [op : {"sg"}, write : BOOLEAN, entry : Seq(Entries)]

OneOf(a, b) == IF a < b THEN a ELSE b
ALIGN(n) == ((n + AlignTo - 1) \div AlignTo) * AlignTo

Init ==
    /\ pc = [irq |-> "idle", thread |-> "test"]
    /\ seen = [c \in Contexts |-> 0]
    /\ e = [c \in Contexts |-> 0]
    /\ size = [c \in Contexts |-> 0]
    /\ offset = [c \in Contexts |-> 0]
    /\ count = 0 /\ write = FALSE /\ index = 0
    /\ entry = [j \in 1 .. MaxSg |-> [addr |-> 0, size |-> 0]]
    /\ dir = -1 /\ spd = -1
    /\ bb = 0
    /\ buffer = [i \in 0 .. BufSize - 1 |-> Nothing]
    /\ disk = 0
    /\ mail = NoMail /\ acks = 0 /\ taken = 0 /\ waiting = FALSE
    /\ current = NoMail
    /\ lists = 0 /\ processed = 0
    /\ memory = [a \in Memory |-> Nothing]

----------------------------------------------------------------------------
(* Main                                                                     *)

Announce ==
    /\ mail = NoMail /\ ~waiting
    /\ \E n \in BounceSizes : mail' = [op |-> "bb", size |-> n]
    /\ UNCHANGED <<local, dev, disk, acks, current, processed, memory, waiting, lists, taken>>

IsWhole(n) == n % AlignTo = 0
InWholeUnits(l) == \A j \in DOMAIN l.entry : IsWhole(l.entry[j].addr) /\ IsWhole(l.entry[j].size)

\* Main announces a bounce buffer before a list: it "will be used for addresses
\* and sizes that are nonmultiples of 16 bytes" (ata_sif_cmd_bb), and a list
\* without any may do without.
SendList ==
    /\ mail = NoMail /\ ~waiting /\ lists < MaxLists
    /\ \E l \in Lists :
          /\ bb = 0 => InWholeUnits(l)
          /\ mail' = [op |-> "sg", write |-> l.write, entry |-> l.entry]
    /\ waiting' = TRUE
    /\ lists' = lists + 1
    /\ UNCHANGED <<local, dev, disk, acks, current, processed, memory, taken>>

TakeAck ==
    /\ acks > 0
    /\ acks' = acks - 1 /\ taken' = taken + 1
    /\ waiting' = FALSE
    /\ UNCHANGED <<local, dev, disk, current, processed, memory, mail, lists>>

----------------------------------------------------------------------------
(* Commands, in the interrupt of the SIF                                    *)

Interrupts(op) == pc["irq"] = "idle" /\ mail.op = op /\ mail' = NoMail

ata_sif_cmd_bb ==
    /\ Interrupts("bb")
    /\ bb' = mail.size
    /\ UNCHANGED <<local, count, write, entry, index, dir, spd, buffer, disk, acks, current,
                   processed, memory, waiting, lists, taken>>

\* The SPD is programmed only if the direction is another than dev->dir says.
ata_direction(w) ==
    LET d == IF w THEN 1 ELSE 0
    IN  dir' = d /\ spd' = IF dir = d THEN spd ELSE d

\* Entries beyond those of the list keep what the list before left in them.
Overlay(l) == [j \in 1 .. MaxSg |-> IF j <= Len(l) THEN l[j] ELSE entry[j]]

ata_sif_cmd_sg ==
    /\ Interrupts("sg")
    /\ ata_direction(mail.write)
    /\ count' = Len(mail.entry) /\ write' = mail.write
    /\ entry' = Overlay(mail.entry)
    /\ index' = 0
    /\ pc' = [pc EXCEPT !["irq"] = "test"]
    /\ current' = mail /\ disk' = 0
    /\ memory' = [a \in Memory |-> Nothing]
    /\ UNCHANGED <<seen, e, size, offset, bb, buffer, acks, processed, waiting, lists, taken>>

----------------------------------------------------------------------------
(* ata_sif_cmd_sg_transfer, in either context                               *)

Runs(c) == c = "irq" \/ pc["irq"] = "idle"

At(c, place) == pc[c] = place /\ Runs(c)
Go(c, place) == pc' = [pc EXCEPT ![c] = place]

\* The loop test reads dev->index, and then dev->opt.count.
ReadIndex(c) ==
    /\ At(c, "test")
    /\ seen' = [seen EXCEPT ![c] = index]
    /\ Go(c, "compare")
    /\ UNCHANGED <<e, size, offset, dev, disk, acks, current, processed, memory, main>>

\* A list has been processed when the loop of the interrupt ends.
More(c, more) ==
    /\ Go(c, IF more THEN "point" ELSE "ack")
    /\ processed' = IF c = "irq" /\ ~more THEN processed + 1 ELSE processed

\* A slip: the last entry is left out.
CompareNext(c) ==
    /\ At(c, "compare")
    /\ More(c, seen[c] + 1 < count)
    /\ UNCHANGED <<seen, e, size, offset, dev, disk, acks, current, memory, main>>

Compare(c) ==
    /\ At(c, "compare")
    /\ More(c, seen[c] < count)
    /\ UNCHANGED <<seen, e, size, offset, dev, disk, acks, current, memory, main>>

\* The address of the entry is computed from dev->index, read once more.
Point(c) ==
    /\ At(c, "point")
    /\ e' = [e EXCEPT ![c] = index]
    /\ Go(c, "look")
    /\ UNCHANGED <<seen, size, offset, dev, disk, acks, current, processed, memory, main>>

\* What e points to: beyond the table are the fields behind it, index and dir.
Pointed(c) == IF e[c] < MaxSg THEN entry[e[c] + 1] ELSE [addr |-> index, size |-> dir]

Look(c) ==
    /\ At(c, "look")
    /\ Go(c, IF Pointed(c).size = 0 THEN "load" ELSE "move")
    /\ UNCHANGED <<seen, e, size, offset, dev, disk, acks, current, processed, memory, main>>

\* The increment of dev->index reads it before it writes it.
Load(c) ==
    /\ At(c, "load")
    /\ seen' = [seen EXCEPT ![c] = index]
    /\ Go(c, "skip")
    /\ UNCHANGED <<e, size, offset, dev, disk, acks, current, processed, memory, main>>

Skip(c) ==
    /\ At(c, "skip")
    /\ index' = seen[c] + 1
    /\ Go(c, "test")
    /\ UNCHANGED <<seen, e, size, offset, count, write, entry, dir, spd, bb, buffer, disk,
                   acks, current, processed, memory, main>>

\* A slip: the next piece goes where the one before went.
AdvanceSize(c, n) ==
    /\ entry' = [entry EXCEPT ![e[c] + 1].size = @ - n]
    /\ UNCHANGED <<index, dir>>

\* What e points to shrinks by what was moved.
Advance(c, n) ==
    IF e[c] < MaxSg
    THEN /\ entry' = [entry EXCEPT ![e[c] + 1] = [addr |-> @.addr + n, size |-> @.size - n]]
         /\ UNCHANGED <<index, dir>>
    ELSE /\ index' = index + n /\ dir' = dir - n
         /\ UNCHANGED entry

Piece(c) == OneOf(Pointed(c).size, BufSize)

\* ata_write moves nothing yet.
Write(c) ==
    /\ At(c, "move") /\ write
    /\ Advance(c, Piece(c))
    /\ Go(c, "test")
    /\ UNCHANGED <<seen, e, size, offset, count, write, spd, bb, buffer, disk, acks,
                   current, processed, memory, main>>

\* ata_read_dma fills the buffer from its start, if the SPD is programmed for it.
ata_read_dma(c) ==
    /\ At(c, "move") /\ ~write
    /\ LET n    == Piece(c)
           read == IF spd = 0 THEN n ELSE 0
       IN /\ buffer' = [i \in DOMAIN buffer |-> IF i < read THEN disk + i ELSE buffer[i]]
          /\ disk' = disk + read
          /\ size' = [size EXCEPT ![c] = n]
    /\ offset' = [offset EXCEPT ![c] = 0]
    /\ Go(c, "bounce")
    /\ UNCHANGED <<seen, e, count, write, entry, index, dir, spd, bb, acks, current,
                   processed, memory, main>>

\* Slips: the size of the bounce buffer, or of what is left over from whole
\* alignment units, is forgotten.
WantedAtOnce(c)  == OneOf(size[c] - offset[c], BufSize)
WantedAligned(c) == (OneOf(size[c] - offset[c], bb) \div AlignTo) * AlignTo

Wanted(c) == OneOf(OneOf(size[c] - offset[c], BufSize), bb)

\* A round of the loop of ata_sif_cmd_rd_bounce: the piece goes to the bounce
\* buffer and main copies it to the address of the entry.
Bounce(c) ==
    /\ At(c, "bounce") /\ offset[c] < size[c]
    /\ LET to   == Pointed(c).addr + offset[c]
           n    == Wanted(c)
       IN memory' = [a \in Memory |->
             IF to <= a /\ a < to + n THEN buffer[offset[c] + a - to] ELSE memory[a]]
    /\ offset' = [offset EXCEPT ![c] = @ + Wanted(c)]
    /\ UNCHANGED <<pc, seen, e, size, dev, disk, acks, current, processed, main>>

Bounced(c) ==
    /\ At(c, "bounce") /\ offset[c] >= size[c]
    /\ Advance(c, size[c])
    /\ Go(c, "test")
    /\ UNCHANGED <<seen, e, size, offset, count, write, spd, bb, buffer, disk, acks,
                   current, processed, memory, main>>

\* A slip: the thread goes on without its semaphore.
AckAgain(c) ==
    /\ At(c, "ack")
    /\ acks' = acks + 1
    /\ Go(c, IF c = "irq" THEN "idle" ELSE "test")
    /\ UNCHANGED <<seen, e, size, offset, dev, disk, current, processed, memory, main>>

\* The interrupt ends; the thread waits on its semaphore, which nothing signals.
ata_sif_cmd_sg_ack(c) ==
    /\ At(c, "ack")
    /\ acks' = acks + 1
    /\ Go(c, "idle")
    /\ UNCHANGED <<seen, e, size, offset, dev, disk, current, processed, memory, main>>

ata_sif_cmd_sg_transfer(c) ==
    \/ ReadIndex(c) \/ Compare(c) \/ Point(c) \/ Look(c)
    \/ Load(c) \/ Skip(c) \/ Write(c) \/ ata_read_dma(c) \/ Bounce(c) \/ Bounced(c)
    \/ ata_sif_cmd_sg_ack(c)

Next ==
    \/ Announce \/ SendList \/ TakeAck
    \/ ata_sif_cmd_bb \/ ata_sif_cmd_sg
    \/ \E c \in Contexts : ata_sif_cmd_sg_transfer(c)

Spec == Init /\ [][Next]_vars

\* Commands arrive, the disk delivers, and both contexts go on.
Fairness ==
    /\ WF_vars(ata_sif_cmd_bb) /\ WF_vars(ata_sif_cmd_sg)
    /\ \A c \in Contexts : WF_vars(ata_sif_cmd_sg_transfer(c))

LiveSpec == Spec /\ Fairness

----------------------------------------------------------------------------
(* Properties                                                               *)

Places == {"idle", "test", "compare", "point", "look", "load", "skip", "move", "bounce", "ack"}

TypeOK ==
    /\ pc \in [Contexts -> Places]
    /\ seen \in [Contexts -> Nat] /\ e \in [Contexts -> 0 .. MaxSg]
    /\ size \in [Contexts -> 0 .. BufSize] /\ offset \in [Contexts -> Nat]
    /\ \A c \in Contexts : offset[c] <= size[c]
    /\ entry \in [1 .. MaxSg -> Entries]
    /\ count \in 0 .. MaxSg /\ index \in Nat
    /\ {dir, spd} \subseteq {-1, 0, 1}
    /\ bb \in BounceSizes \cup {0}
    /\ {mail, current} \subseteq Commands

\* Where the units of a list belong: those of its first entry come first.
InOrder(at, l) ==
    at[1] = 0 /\ \A j \in DOMAIN l : at[j + 1] = at[j] + l[j].size

\* Whether an address is one of an entry.
In(a, x) == x.addr <= a /\ a < x.addr + x.size

\* When a list of reads is acknowledged, main memory holds the units of the
\* disk in the order of the list, each entry complete, and nothing else is
\* touched, however the entries straddle the two buffers and whatever was done
\* before, by the list before or by the thread (ata_sif_cmd_sg_transfer).
ReadsComplete ==
    pc["irq"] = "ack" /\ ~write =>
        LET l == current.entry
        IN  \E at \in [1 .. Len(l) + 1 -> 0 .. disk] :
                /\ InOrder(at, l)
                /\ \A a \in Memory :
                      /\ (\A j \in DOMAIN l : ~In(a, l[j])) => memory[a] = Nothing
                      /\ \A j \in DOMAIN l : In(a, l[j]) => memory[a] = at[j] + a - l[j].addr

\* SIF DMA moves whole alignment units: a piece rounded up fits the bounce
\* buffer it is sent to and does not read past the end of the buffer it is
\* sent from ("the destination buffer must accommodate for that", sif.c).
BounceFits ==
    /\ TypeOK
    /\ \A c \in Contexts : At(c, "bounce") /\ offset[c] < size[c] =>
          /\ ALIGN(Wanted(c)) <= bb
          /\ offset[c] + ALIGN(Wanted(c)) <= BufSize

\* The thread never transfers anything, nor changes what tells the interrupt how
\* the SPD is programmed: of all that the two share it changes dev->index only
\* (sg_event, "the same function on the same structure").  This is so while no
\* list fills the table or no list writes (TableHolds in AtaProofs).
ThreadMovesNothing ==
    [][pc'["thread"] # pc["thread"] => UNCHANGED <<entry, memory, disk, dir>>]_vars

\* What is transferred is an entry of the list that main sent: "Process
\* requested list of transfers" (ata_sif_cmd).  The code keeps to it under the
\* condition of ThreadMovesNothing only.
MovesAreRequested == \A c \in Contexts : pc[c] = "move" => e[c] < count

\* Acknowledgements are neither lost nor sent twice, ever: main has got, or is
\* about to get, one for each list that was processed, and a single one that
\* is the thread's (ata_sif_cmd_sg_ack, sg_event).
AcksAreExact ==
    acks + taken + (IF pc["irq"] = "ack" THEN 1 ELSE 0)
        = processed + (IF pc["thread"] = "idle" THEN 1 ELSE 0)

\* Main knows from the acknowledgement "that the list of transfers has been
\* processed" (ata_sif_cmd_sg_transfer).  The code does not keep to it: the
\* thread acknowledges a list that nobody sent.
AnsweredIsProcessed == ~waiting => processed = lists

\* A list that was sent is processed to its end and then acknowledged, whatever
\* the sizes of its entries.  The loop over the bounce buffer never ends in the
\* interrupt if none was announced, and it is only then that it does not
\* (ata_sif_cmd_rd_bounce).
ListIsAcked ==
    \A n \in 1 .. MaxLists :
        lists = n ~> \/ processed = n /\ pc["irq"] = "idle"
                     \/ bb = 0 /\ pc["irq"] = "bounce"
=============================================================================
