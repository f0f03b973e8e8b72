----------------------------- MODULE AtaProofs -----------------------------
(***************************************************************************)
(* The transfers of module/ata.c: what is read arrives in the order of the  *)
(* list, the pieces fit the buffers, and the thread that runs the same      *)
(* function on the same structure moves nothing, for any lists, sizes of    *)
(* buffers and number of lists.                                             *)
(*                                                                          *)
(* That the thread moves nothing is not plain from the code: it compares an *)
(* index it read before an interrupt with the count of the list that the    *)
(* interrupt brought, and then goes on to the entry at the index it reads   *)
(* after.  What saves it is that an interrupt leaves nothing of any entry,  *)
(* and that the index stays within the table or, where a list may fill the  *)
(* table, that the field behind it happens to be zero, the direction of a   *)
(* read.  TableHolds is this condition, and the run ata_table shows what    *)
(* happens without it.                                                      *)
(***************************************************************************)
EXTENDS Ata, TLAPS

\* No list fills the table, or no list writes.
TableHolds ==
    \/ \A l \in Lists : Len(l.entry) < MaxSg
    \/ \A l \in Lists : ~l.write

\* The most entries of a list.
Longest == IF \A l \in Lists : Len(l.entry) < MaxSg THEN MaxSg - 1 ELSE MaxSg

\* What the inductive invariants say of numbers and of commands; the commands
\* that send entries have a list of Lists.
Numbers ==
    /\ disk \in Nat
    /\ DOMAIN buffer = 0 .. BufSize - 1
    /\ count <= Longest
    /\ \A m \in {mail, current} :
          m.op = "sg" => \E l \in Lists : m.write = l.write /\ m.entry = l.entry

\* The SPD is programmed as dev->dir says, for the list that is transferred.
Directions ==
    /\ dir = spd
    /\ dir = -1 => count = 0 /\ pc["thread"] \notin {"point", "look", "load", "skip"}
    /\ dir = 1 => \E l \in Lists : l.write
    /\ pc["irq"] # "idle" => spd = IF write THEN 1 ELSE 0

\* Between interrupts nothing is left of any entry.
NothingLeft == pc["irq"] = "idle" => \A j \in 1 .. MaxSg : entry[j].size = 0

\* The thread leaves the index one past the longest list at most, and then ends
\* its loop; it goes on to an entry only with an index within the list or at
\* the end of it, and finds nothing there.
ThreadGoesOn ==
    /\ index <= Longest + 1
    /\ pc["thread"] \in {"point", "look", "load"} => index <= Longest
    /\ pc["thread"] = "compare" => index <= Longest \/ seen["thread"] > Longest
    /\ pc["thread"] = "look" => e["thread"] <= Longest
    /\ pc["thread"] = "skip" => seen["thread"] <= Longest
    /\ pc["thread"] \notin {"move", "bounce"}

\* In an interrupt what is left is of this entry and of those that follow it
\* in the list.
InterruptMoves ==
    pc["irq"] # "idle" =>
        /\ current.op = "sg" /\ count = Len(current.entry) /\ write = current.write
        /\ \A j \in 1 .. MaxSg : j <= index \/ j > count => entry[j].size = 0
        /\ index <= count
        /\ pc["irq"] \notin {"test", "compare", "ack"} => index < count
        /\ pc["irq"] \in {"compare", "skip"} => seen["irq"] = index
        /\ pc["irq"] \in {"look", "move", "bounce"} => e["irq"] = index
        /\ pc["irq"] \in {"load", "skip"} => entry[index + 1].size = 0
        /\ pc["irq"] = "bounce" =>
              ~write /\ size["irq"] = OneOf(entry[index + 1].size, BufSize)
        /\ pc["irq"] = "ack" => index = count

IInv ==
    /\ TypeOK /\ Numbers
    /\ Directions
    /\ NothingLeft
    /\ ThreadGoesOn
    /\ InterruptMoves

\* Beside AcksAreExact, that acknowledgements are counted in numbers.
AcksCounted ==
    /\ DOMAIN pc = Contexts
    /\ acks \in Nat /\ taken \in Nat /\ processed \in Nat
    /\ AcksAreExact

\* The place after the last that has reached main memory, of the entry that is
\* being moved.
Reached == entry[index + 1].addr + IF pc["irq"] = "bounce" THEN offset["irq"] ELSE 0

\* The units that the disk has delivered are those of the entries before this
\* one, of what is gone of this one, and of the buffer.
Delivered(at, l) ==
    /\ at \in [1 .. index + 1 -> 0 .. disk]
    /\ at[1] = 0 /\ \A j \in 1 .. index : at[j + 1] = at[j] + l[j].size
    /\ index < count =>
          disk = at[index + 1] + l[index + 1].size - entry[index + 1].size
                 + IF pc["irq"] = "bounce" THEN size["irq"] ELSE 0

\* What is left of an entry is its end; those that follow are whole.
Remain(l) ==
    /\ index < count =>
          /\ entry[index + 1].addr + entry[index + 1].size
                = l[index + 1].addr + l[index + 1].size
          /\ entry[index + 1].addr >= l[index + 1].addr
    /\ \A j \in index + 2 .. count : entry[j] = l[j]

\* The buffer holds the last units the disk delivered.
Buffered ==
    pc["irq"] = "bounce" => \A i \in 0 .. size["irq"] - 1 : buffer[i] = disk - size["irq"] + i

\* Main memory holds the entries before this one and the beginning of this one.
Arrived(at, l) ==
    \A a \in Memory :
        /\ (\A j \in DOMAIN l : ~In(a, l[j])) => memory[a] = Nothing
        /\ \A j \in 1 .. index : In(a, l[j]) => memory[a] = at[j] + a - l[j].addr
        /\ index < count /\ l[index + 1].addr <= a /\ a < Reached =>
              memory[a] = at[index + 1] + a - l[index + 1].addr

Reading ==
    pc["irq"] # "idle" /\ ~write =>
        \E at \in [1 .. index + 1 -> 0 .. disk] :
            /\ Delivered(at, current.entry) /\ Remain(current.entry)
            /\ Buffered /\ Arrived(at, current.entry)

\* The pieces that have gone through the bounce buffer are whole alignment
\* units, but the last of them.
Whole(n) == \E k \in Nat : n = k * AlignTo

PiecesAreWhole ==
    /\ bb # 0 => Whole(bb)
    /\ pc["irq"] = "bounce" /\ offset["irq"] < size["irq"] => Whole(offset["irq"])

----------------------------------------------------------------------------
(* Lemmas                                                                   *)

\* A command is none, a bounce buffer or a list.
LEMMA CommandKinds ==
    ASSUME NEW m \in Commands
    PROVE  \/ m.op = "none"
           \/ m.op = "bb" /\ m.size \in BounceSizes
           \/ m.op = "sg" /\ m.write \in BOOLEAN /\ m.entry \in Seq(Entries)
  BY DEF Commands, NoMail

\* No list is longer than the longest, and one that fills the table reads.
LEMMA LongestList ==
    /\ Longest \in 0 .. MaxSg /\ MaxSg \in Nat \ {0}
    /\ \A l \in Lists : l.entry \in Seq(Entries) /\ Len(l.entry) \in Nat /\ Len(l.entry) <= Longest
    /\ TableHolds /\ Longest = MaxSg => \A l \in Lists : ~l.write
<1>1. MaxSg \in Nat \ {0}
  BY AtaAssumption
<1>2. \A l \in Lists : l.entry \in Seq(Entries) /\ Len(l.entry) \in Nat /\ Len(l.entry) <= MaxSg
  BY AtaAssumption
<1>3. CASE \A l \in Lists : Len(l.entry) < MaxSg
  <2>1. Longest = MaxSg - 1
    BY <1>3 DEF Longest
  <2> QED BY <1>1, <1>2, <1>3, <2>1
<1>4. CASE ~\A l \in Lists : Len(l.entry) < MaxSg
  <2>1. Longest = MaxSg
    BY <1>4 DEF Longest
  <2> QED BY <1>1, <1>2, <1>4, <2>1 DEF TableHolds
<1> QED BY <1>3, <1>4

\* The table holds entries.
LEMMA TableOfEntries ==
    ASSUME TypeOK, NEW j \in 1 .. MaxSg
    PROVE  entry[j] \in Entries /\ entry[j].addr \in Nat /\ entry[j].size \in Nat
  BY DEF TypeOK, Entries

\* What the interrupt points to is an entry of the list.
LEMMA PointedIsEntry ==
    ASSUME IInv, pc["irq"] \in {"look", "move", "bounce"}
    PROVE  /\ e["irq"] = index /\ index \in Nat /\ index < count /\ index < MaxSg
           /\ index + 1 \in 1 .. MaxSg /\ entry[index + 1] \in Entries
           /\ entry[index + 1].size \in Nat /\ Pointed("irq") = entry[index + 1]
<1>1. e["irq"] = index /\ index < count
  BY DEF IInv, InterruptMoves
<1>2. index \in Nat /\ count \in 0 .. MaxSg /\ MaxSg \in Nat
  BY LongestList DEF IInv, TypeOK
<1>3. index < MaxSg /\ index + 1 \in 1 .. MaxSg
  BY <1>1, <1>2
<1>4. entry[index + 1] \in Entries /\ entry[index + 1].size \in Nat
  BY <1>3, TableOfEntries DEF IInv
<1> QED BY <1>1, <1>2, <1>3, <1>4 DEF Pointed

\* An entry that is advanced by no more than is left of it is an entry.
LEMMA Advanced ==
    ASSUME IInv, pc["irq"] \in {"move", "bounce"},
           NEW n \in Nat, n <= entry[index + 1].size, Advance("irq", n)
    PROVE  /\ entry' \in [1 .. MaxSg -> Entries]
           /\ entry'[index + 1].addr = entry[index + 1].addr + n
           /\ entry'[index + 1].size = entry[index + 1].size - n
           /\ \A j \in 1 .. MaxSg : j # index + 1 => entry'[j] = entry[j]
           /\ index' = index /\ dir' = dir
<1>. DEFINE x == entry[index + 1]
            f == [addr |-> x.addr + n, size |-> x.size - n]
<1>1. e["irq"] = index /\ index < MaxSg /\ index + 1 \in 1 .. MaxSg /\ x \in Entries
  BY PointedIsEntry
<1>2. f \in Entries
  BY <1>1 DEF Entries
<1>3. entry' = [entry EXCEPT ![index + 1] = f] /\ index' = index /\ dir' = dir
  BY <1>1 DEF Advance
<1> QED BY <1>1, <1>2, <1>3 DEF IInv, TypeOK

LEMMA Went ==
    ASSUME TypeOK, NEW c \in Contexts, NEW place \in Places, Go(c, place)
    PROVE  /\ pc' \in [Contexts -> Places] /\ pc'[c] = place
           /\ \A d \in Contexts \ {c} : pc'[d] = pc[d]
  BY DEF TypeOK, Go

\* The loop of the transfer goes on or ends.
LEMMA Looped ==
    ASSUME NEW c \in Contexts, Compare(c)
    PROVE  /\ At(c, "compare")
           /\ Go(c, IF seen[c] < count THEN "point" ELSE "ack")
           /\ UNCHANGED <<seen, e, size, offset, dev, disk, acks, current, memory, main>>
  BY DEF Compare, More

\* Only an interrupt moves.
LEMMA OnlyInterruptMoves ==
    ASSUME IInv, NEW c \in Contexts, At(c, "move") \/ At(c, "bounce")
    PROVE  c = "irq" /\ pc["irq"] # "idle"
  BY DEF Contexts, At, IInv, ThreadGoesOn

----------------------------------------------------------------------------
(* Steps                                                                    *)

LEMMA MainStep ==
    ASSUME IInv, Announce \/ SendList \/ TakeAck
    PROVE  IInv'
<1>1. UNCHANGED <<pc, seen, e, size, offset, count, write, entry, index>>
      /\ UNCHANGED <<dir, spd, bb, buffer, disk, current>>
  BY DEF Announce, SendList, TakeAck, local, dev
<1>2. mail' \in Commands
      /\ (mail'.op = "sg" => \E l \in Lists : mail'.write = l.write /\ mail'.entry = l.entry)
  <2>1. CASE Announce
    BY <2>1 DEF Announce, Commands
  <2>2. CASE SendList
    <3>1. PICK l \in Lists : mail' = [op |-> "sg", write |-> l.write, entry |-> l.entry]
      BY <2>2 DEF SendList
    <3>2. l.write \in BOOLEAN /\ l.entry \in Seq(Entries)
      BY AtaAssumption
    <3>3. mail' \in [op : {"sg"}, write : BOOLEAN, entry : Seq(Entries)]
      BY <3>1, <3>2
    <3> QED BY <3>1, <3>3 DEF Commands
  <2>3. CASE TakeAck
    BY <2>3 DEF TakeAck, IInv, TypeOK, Numbers
  <2> QED BY <2>1, <2>2, <2>3
<1>3. TypeOK' /\ Numbers'
  BY <1>1, <1>2 DEF IInv, TypeOK, Numbers
<1>4. Directions' /\ NothingLeft' /\ ThreadGoesOn' /\ InterruptMoves'
  BY <1>1 DEF IInv, Directions, NothingLeft, ThreadGoesOn, InterruptMoves
<1> QED BY <1>3, <1>4 DEF IInv

LEMMA BounceBufferStep ==
    ASSUME IInv, ata_sif_cmd_bb
    PROVE  IInv'
<1>1. pc["irq"] = "idle" /\ mail.op = "bb" /\ mail' = NoMail /\ bb' = mail.size
      /\ UNCHANGED <<pc, seen, e, size, offset, count, write, entry, index>>
      /\ UNCHANGED <<dir, spd, buffer, disk, current>>
  BY DEF ata_sif_cmd_bb, Interrupts, local
<1>2. bb' \in BounceSizes /\ mail' \in Commands /\ mail'.op = "none"
  BY <1>1, CommandKinds DEF IInv, TypeOK, Commands, NoMail
<1>3. TypeOK' /\ Numbers'
  BY <1>1, <1>2 DEF IInv, TypeOK, Numbers
<1>4. Directions' /\ NothingLeft' /\ ThreadGoesOn' /\ InterruptMoves'
  BY <1>1 DEF IInv, Directions, NothingLeft, ThreadGoesOn, InterruptMoves
<1> QED BY <1>3, <1>4 DEF IInv

\* Nothing is left of the lists before, and the index is that of an entry again.
LEMMA ListStep ==
    ASSUME IInv, ata_sif_cmd_sg
    PROVE  IInv'
<1>1. pc["irq"] = "idle" /\ mail.op = "sg" /\ mail' = NoMail
      /\ count' = Len(mail.entry) /\ write' = mail.write /\ index' = 0
      /\ pc' = [pc EXCEPT !["irq"] = "test"] /\ current' = mail /\ disk' = 0
      /\ UNCHANGED <<seen, e, size, offset, bb, buffer>>
  BY DEF ata_sif_cmd_sg, Interrupts
<1>2. PICK l \in Lists : mail.write = l.write /\ mail.entry = l.entry
  BY <1>1 DEF IInv, Numbers
<1>3. mail.entry \in Seq(Entries) /\ mail.write \in BOOLEAN
      /\ Len(mail.entry) \in Nat /\ Len(mail.entry) <= Longest
      /\ Longest \in 0 .. MaxSg /\ MaxSg \in Nat
  BY <1>1, <1>2, CommandKinds, LongestList DEF IInv, TypeOK
<1>4. dir' = spd' /\ dir' = IF write' THEN 1 ELSE 0
  BY <1>1 DEF ata_sif_cmd_sg, ata_direction, IInv, Directions
<1>5. /\ entry' \in [1 .. MaxSg -> Entries]
      /\ \A j \in 1 .. MaxSg : j > Len(mail.entry) => entry'[j] = entry[j]
  <2>1. entry' = [j \in 1 .. MaxSg |-> IF j <= Len(mail.entry) THEN mail.entry[j] ELSE entry[j]]
    BY DEF ata_sif_cmd_sg, Overlay
  <2>2. \A j \in 1 .. MaxSg : j <= Len(mail.entry) => mail.entry[j] \in Entries
    BY <1>3
  <2> QED BY <1>3, <2>1, <2>2 DEF IInv, TypeOK
<1>6. mail' \in Commands /\ mail'.op = "none"
  BY <1>1 DEF Commands, NoMail
<1>7. pc' \in [Contexts -> Places] /\ pc'["irq"] = "test" /\ pc'["thread"] = pc["thread"]
  BY <1>1 DEF IInv, TypeOK, Contexts, Places
<1>8. TypeOK'
  BY <1>1, <1>3, <1>4, <1>5, <1>6, <1>7 DEF IInv, TypeOK
<1>9. Numbers'
  BY <1>1, <1>3, <1>6 DEF IInv, Numbers
<1>10. Directions'
  <2>1. dir' # -1 /\ (dir' = 1 => l.write)
    BY <1>1, <1>2, <1>4
  <2> QED BY <1>2, <1>4, <2>1 DEF Directions
<1>11. NothingLeft'
  BY <1>7 DEF NothingLeft
<1>12. ThreadGoesOn'
  BY <1>1, <1>3, <1>7 DEF IInv, ThreadGoesOn
<1>13. InterruptMoves'
  <2>1. \A j \in 1 .. MaxSg : j <= index' \/ j > count' => entry'[j].size = 0
    BY <1>1, <1>3, <1>5 DEF IInv, NothingLeft
  <2> QED BY <1>1, <1>3, <1>7, <2>1 DEF InterruptMoves
<1> QED BY <1>8, <1>9, <1>10, <1>11, <1>12, <1>13 DEF IInv

\* The steps of the loop that leave entries alone, in an interrupt.
LEMMA InterruptLoopStep ==
    ASSUME IInv,
           ReadIndex("irq") \/ Compare("irq") \/ Point("irq") \/ Look("irq")
               \/ Load("irq") \/ Skip("irq")
    PROVE  IInv'
<1>1. UNCHANGED <<size, offset, count, write, entry, dir, spd, bb, buffer>>
      /\ UNCHANGED <<disk, current, mail>>
  BY Looped DEF ReadIndex, Point, Look, Load, Skip, dev, main, Contexts
<1>2. /\ pc["irq"] \in {"test", "compare", "point", "look", "load", "skip"}
      /\ \E place \in Places \ {"idle", "bounce"} : Go("irq", place)
  BY Looped DEF ReadIndex, Point, Look, Load, Skip, At, Places, Contexts
<1>3. /\ pc' \in [Contexts -> Places] /\ pc'["irq"] \notin {"idle", "bounce"}
      /\ pc'["thread"] = pc["thread"]
  BY <1>2, Went DEF IInv, Contexts, Places
<1>4. /\ index \in Nat /\ count \in 0 .. MaxSg /\ MaxSg \in Nat /\ Longest \in Nat
      /\ count <= Longest /\ index <= count
      /\ seen \in [Contexts -> Nat] /\ e \in [Contexts -> 0 .. MaxSg]
  BY <1>2, LongestList DEF IInv, TypeOK, Numbers, InterruptMoves
<1>5. /\ seen' \in [Contexts -> Nat] /\ e' \in [Contexts -> 0 .. MaxSg]
      /\ seen'["thread"] = seen["thread"] /\ e'["thread"] = e["thread"]
      /\ index' \in Nat /\ index' <= count
      /\ InterruptMoves'
  <2>1. InterruptMoves
    BY DEF IInv
  <2>2. CASE ReadIndex("irq")
    <3>1. pc'["irq"] = "compare" /\ seen' = [seen EXCEPT !["irq"] = index]
          /\ UNCHANGED <<e, index>>
      BY <2>2 DEF ReadIndex, Go, dev, IInv, TypeOK, Contexts
    <3> QED BY <1>1, <1>2, <1>4, <2>1, <3>1 DEF InterruptMoves, Contexts
  <2>3. CASE Compare("irq")
    <3>1. pc["irq"] = "compare" /\ UNCHANGED <<seen, e, index>>
          /\ pc'["irq"] = IF seen["irq"] < count THEN "point" ELSE "ack"
      BY <2>3, Looped DEF At, Go, dev, IInv, TypeOK, Contexts
    <3> QED BY <1>1, <1>4, <2>1, <3>1 DEF InterruptMoves
  <2>4. CASE Point("irq")
    <3>1. pc["irq"] = "point" /\ pc'["irq"] = "look" /\ e' = [e EXCEPT !["irq"] = index]
          /\ UNCHANGED <<seen, index>>
      BY <2>4 DEF Point, At, Go, dev, IInv, TypeOK, Contexts
    <3>2. index < count
      BY <2>1, <3>1 DEF InterruptMoves
    <3> QED BY <1>1, <1>4, <2>1, <3>1, <3>2 DEF InterruptMoves, Contexts
  <2>5. CASE Look("irq")
    <3>1. pc["irq"] = "look" /\ UNCHANGED <<seen, e, index>>
          /\ pc'["irq"] = IF Pointed("irq").size = 0 THEN "load" ELSE "move"
      BY <2>5 DEF Look, At, Go, dev, IInv, TypeOK, Contexts
    <3>2. Pointed("irq") = entry[index + 1] /\ e["irq"] = index /\ index < count
      BY <3>1, PointedIsEntry
    <3> QED BY <1>1, <1>4, <2>1, <3>1, <3>2 DEF InterruptMoves
  <2>6. CASE Load("irq")
    <3>1. pc["irq"] = "load" /\ pc'["irq"] = "skip" /\ seen' = [seen EXCEPT !["irq"] = index]
          /\ UNCHANGED <<e, index>>
      BY <2>6 DEF Load, At, Go, dev, IInv, TypeOK, Contexts
    <3> QED BY <1>1, <1>4, <2>1, <3>1 DEF InterruptMoves, Contexts
  <2>7. CASE Skip("irq")
    <3>1. pc["irq"] = "skip" /\ pc'["irq"] = "test" /\ index' = seen["irq"] + 1
          /\ UNCHANGED <<seen, e>>
      BY <2>7 DEF Skip, At, Go, IInv, TypeOK, Contexts
    <3>2. index' = index + 1 /\ index < count /\ entry[index + 1].size = 0
      BY <2>1, <3>1 DEF InterruptMoves
    <3>3. \A j \in 1 .. MaxSg : j <= index + 1 \/ j > count => entry[j].size = 0
      BY <1>4, <2>1, <3>1, <3>2 DEF InterruptMoves
    <3> QED BY <1>1, <1>4, <2>1, <3>1, <3>2, <3>3 DEF InterruptMoves
  <2> QED BY <2>2, <2>3, <2>4, <2>5, <2>6, <2>7
<1>6. TypeOK' /\ Numbers'
  BY <1>1, <1>3, <1>5 DEF IInv, TypeOK, Numbers
<1>7. Directions' /\ NothingLeft'
  BY <1>1, <1>2, <1>3 DEF IInv, Directions, NothingLeft
<1>8. ThreadGoesOn'
  BY <1>3, <1>4, <1>5 DEF IInv, ThreadGoesOn
<1> QED BY <1>5, <1>6, <1>7, <1>8 DEF IInv

\* What the thread points to is empty: an entry the interrupt has left, or, past
\* a table that only lists of reads fill, the direction.
LEMMA ThreadFindsNothing ==
    ASSUME TableHolds, IInv, At("thread", "look")
    PROVE  Pointed("thread").size = 0
<1>1. pc["irq"] = "idle" /\ pc["thread"] = "look"
  BY DEF At, Runs
<1>2. e["thread"] \in 0 .. MaxSg /\ e["thread"] <= Longest
      /\ Longest \in 0 .. MaxSg /\ MaxSg \in Nat
  BY <1>1, LongestList DEF IInv, TypeOK, ThreadGoesOn, Contexts
<1>3. CASE e["thread"] < MaxSg
  <2>1. e["thread"] + 1 \in 1 .. MaxSg
    BY <1>2, <1>3
  <2> QED BY <1>1, <1>3, <2>1 DEF Pointed, IInv, NothingLeft
<1>4. CASE ~(e["thread"] < MaxSg)
  <2>1. \A l \in Lists : ~l.write
    BY <1>2, <1>4, LongestList
  <2>2. dir = 0
    BY <1>1, <2>1 DEF IInv, TypeOK, Directions
  <2> QED BY <1>4, <2>2 DEF Pointed
<1> QED BY <1>3, <1>4

\* The steps of the loop in the thread, which finds nothing to move.
LEMMA ThreadLoopStep ==
    ASSUME TableHolds, IInv,
           ReadIndex("thread") \/ Compare("thread") \/ Point("thread") \/ Look("thread")
               \/ Load("thread") \/ Skip("thread")
    PROVE  IInv'
<1>1. UNCHANGED <<size, offset, count, write, entry, dir, spd, bb, buffer>>
      /\ UNCHANGED <<disk, current, mail>>
  BY Looped DEF ReadIndex, Point, Look, Load, Skip, dev, main, Contexts
<1>2. /\ pc["irq"] = "idle"
      /\ pc["thread"] \in {"test", "compare", "point", "look", "load", "skip"}
      /\ \E place \in Places : Go("thread", place)
  BY Looped DEF ReadIndex, Point, Look, Load, Skip, At, Runs, Places, Contexts
<1>3. pc' \in [Contexts -> Places] /\ pc'["irq"] = "idle"
  BY <1>2, Went DEF IInv, Contexts
<1>4. /\ index \in Nat /\ count \in 0 .. MaxSg /\ MaxSg \in Nat /\ Longest \in 0 .. MaxSg
      /\ count <= Longest /\ index <= Longest + 1
      /\ seen \in [Contexts -> Nat] /\ e \in [Contexts -> 0 .. MaxSg]
  BY LongestList DEF IInv, TypeOK, Numbers, ThreadGoesOn
<1>5. /\ seen' \in [Contexts -> Nat] /\ e' \in [Contexts -> 0 .. MaxSg] /\ index' \in Nat
      /\ ThreadGoesOn'
      /\ dir = -1 => pc'["thread"] \notin {"point", "look", "load", "skip"}
  <2>1. ThreadGoesOn /\ (dir = -1 =>
            count = 0 /\ pc["thread"] \notin {"point", "look", "load", "skip"})
    BY DEF IInv, Directions
  <2>2. CASE ReadIndex("thread")
    <3>1. pc["thread"] = "test" /\ pc'["thread"] = "compare"
          /\ seen' = [seen EXCEPT !["thread"] = index] /\ UNCHANGED <<e, index>>
      BY <2>2 DEF ReadIndex, At, Go, dev, IInv, TypeOK, Contexts
    <3> QED BY <1>4, <2>1, <3>1 DEF ThreadGoesOn, Contexts
  <2>3. CASE Compare("thread")
    <3>1. pc["thread"] = "compare" /\ UNCHANGED <<seen, e, index>>
          /\ pc'["thread"] = IF seen["thread"] < count THEN "point" ELSE "ack"
      BY <2>3, Looped DEF At, Go, dev, IInv, TypeOK, Contexts
    <3>2. seen["thread"] \in Nat
      BY <1>4 DEF Contexts
    <3> QED BY <1>4, <2>1, <3>1, <3>2 DEF ThreadGoesOn
  <2>4. CASE Point("thread")
    <3>1. pc["thread"] = "point" /\ pc'["thread"] = "look"
          /\ e' = [e EXCEPT !["thread"] = index] /\ UNCHANGED <<seen, index>>
      BY <2>4 DEF Point, At, Go, dev, IInv, TypeOK, Contexts
    <3> QED BY <1>4, <2>1, <3>1 DEF ThreadGoesOn, Contexts
  <2>5. CASE Look("thread")
    <3>1. pc["thread"] = "look" /\ pc'["thread"] = "load" /\ UNCHANGED <<seen, e, index>>
      BY <2>5, ThreadFindsNothing DEF Look, At, Go, dev, IInv, TypeOK, Contexts
    <3> QED BY <1>4, <2>1, <3>1 DEF ThreadGoesOn
  <2>6. CASE Load("thread")
    <3>1. pc["thread"] = "load" /\ pc'["thread"] = "skip"
          /\ seen' = [seen EXCEPT !["thread"] = index] /\ UNCHANGED <<e, index>>
      BY <2>6 DEF Load, At, Go, dev, IInv, TypeOK, Contexts
    <3> QED BY <1>4, <2>1, <3>1 DEF ThreadGoesOn, Contexts
  <2>7. CASE Skip("thread")
    <3>1. pc["thread"] = "skip" /\ pc'["thread"] = "test" /\ index' = seen["thread"] + 1
          /\ UNCHANGED <<seen, e>>
      BY <2>7 DEF Skip, At, Go, IInv, TypeOK, Contexts
    <3>2. seen["thread"] \in Nat /\ seen["thread"] <= Longest
      BY <1>4, <2>1, <3>1 DEF ThreadGoesOn, Contexts
    <3> QED BY <1>4, <3>1, <3>2 DEF ThreadGoesOn
  <2> QED BY <2>2, <2>3, <2>4, <2>5, <2>6, <2>7
<1>6. TypeOK' /\ Numbers'
  BY <1>1, <1>3, <1>5 DEF IInv, TypeOK, Numbers
<1>7. Directions' /\ NothingLeft'
  BY <1>1, <1>2, <1>3, <1>5 DEF IInv, Directions, NothingLeft
<1>8. InterruptMoves'
  BY <1>3 DEF InterruptMoves
<1> QED BY <1>5, <1>6, <1>7, <1>8 DEF IInv

\* The entry at dev->index is one of the list, and only it is advanced.
LEMMA AdvanceStep ==
    ASSUME IInv, NEW c \in Contexts, Write(c) \/ Bounced(c)
    PROVE  IInv' /\ c = "irq"
<1>1. UNCHANGED <<seen, e, size, offset, count, write, spd, bb, buffer>>
      /\ UNCHANGED <<disk, current, mail>>
      /\ Go(c, "test")
  BY DEF Write, Bounced, main
<1>2. c = "irq" /\ pc["irq"] \in {"move", "bounce"}
  BY OnlyInterruptMoves DEF Write, Bounced, At
<1>3. index < count /\ index + 1 \in 1 .. MaxSg /\ entry[index + 1].size \in Nat
      /\ Pointed("irq") = entry[index + 1] /\ index \in Nat /\ BufSize \in Nat
  BY <1>2, PointedIsEntry, AtaAssumption
<1>4. PICK n \in Nat : n <= entry[index + 1].size /\ Advance("irq", n)
  <2>1. CASE Write(c)
    <3>1. Advance("irq", OneOf(entry[index + 1].size, BufSize))
      BY <1>2, <1>3, <2>1 DEF Write, Piece
    <3> QED BY <1>3, <3>1 DEF OneOf
  <2>2. CASE Bounced(c)
    <3>1. Advance("irq", size["irq"]) /\ pc["irq"] = "bounce"
      BY <1>2, <2>2 DEF Bounced, At
    <3>2. size["irq"] = OneOf(entry[index + 1].size, BufSize)
      BY <3>1 DEF IInv, InterruptMoves
    <3> QED BY <1>3, <3>1, <3>2 DEF OneOf
  <2> QED BY <2>1, <2>2
<1>5. /\ entry' \in [1 .. MaxSg -> Entries] /\ index' = index /\ dir' = dir
      /\ \A j \in 1 .. MaxSg : j # index + 1 => entry'[j] = entry[j]
  BY <1>2, <1>4, Advanced
<1>6. pc' \in [Contexts -> Places] /\ pc'["irq"] = "test" /\ pc'["thread"] = pc["thread"]
  BY <1>1, <1>2, Went DEF IInv, Places, Contexts
<1>7. TypeOK' /\ Numbers'
  BY <1>1, <1>5, <1>6 DEF IInv, TypeOK, Numbers
<1>8. Directions' /\ NothingLeft' /\ ThreadGoesOn'
  BY <1>1, <1>2, <1>5, <1>6 DEF IInv, Directions, NothingLeft, ThreadGoesOn
<1>9. InterruptMoves'
  <2>1. \A j \in 1 .. MaxSg : j <= index \/ j > count => j # index + 1
    BY <1>3 DEF IInv, TypeOK
  <2> QED BY <1>1, <1>2, <1>5, <1>6, <2>1 DEF IInv, InterruptMoves
<1> QED BY <1>2, <1>7, <1>8, <1>9 DEF IInv

LEMMA ReadStep ==
    ASSUME IInv, NEW c \in Contexts, ata_read_dma(c)
    PROVE  IInv' /\ c = "irq" /\ disk' = disk + OneOf(entry[index + 1].size, BufSize)
<1>1. UNCHANGED <<seen, e, count, write, entry, index, dir, spd, bb>>
      /\ UNCHANGED <<current, mail>>
      /\ Go(c, "bounce") /\ At(c, "move") /\ ~write
  BY DEF ata_read_dma, main
<1>2. c = "irq" /\ pc["irq"] = "move"
  BY <1>1, OnlyInterruptMoves DEF At
<1>. DEFINE n == OneOf(entry[index + 1].size, BufSize)
<1>3. n \in 0 .. BufSize /\ Piece("irq") = n
  <2>1. entry[index + 1].size \in Nat /\ Pointed("irq") = entry[index + 1]
    BY <1>2, PointedIsEntry
  <2> QED BY <2>1, AtaAssumption DEF OneOf, Piece
<1>4. spd = 0
  BY <1>1, <1>2 DEF IInv, Directions
<1>. HIDE DEF n
<1>5. disk' = disk + n /\ disk' \in Nat /\ DOMAIN buffer' = 0 .. BufSize - 1
      /\ size' = [size EXCEPT !["irq"] = n] /\ offset' = [offset EXCEPT !["irq"] = 0]
  <2>1. disk' = disk + n /\ size' = [size EXCEPT !["irq"] = n]
        /\ offset' = [offset EXCEPT !["irq"] = 0] /\ DOMAIN buffer' = DOMAIN buffer
    BY <1>2, <1>3, <1>4 DEF ata_read_dma
  <2> QED BY <1>3, <2>1 DEF IInv, Numbers
<1>6. pc' \in [Contexts -> Places] /\ pc'["irq"] = "bounce" /\ pc'["thread"] = pc["thread"]
  BY <1>1, <1>2, Went DEF IInv, Places, Contexts
<1>7. /\ size' \in [Contexts -> 0 .. BufSize] /\ offset' \in [Contexts -> Nat]
      /\ size'["irq"] = n
      /\ \A d \in Contexts : offset'[d] <= size'[d]
  BY <1>3, <1>5 DEF IInv, TypeOK, Contexts
<1>8. TypeOK' /\ Numbers'
  BY <1>1, <1>5, <1>6, <1>7 DEF IInv, TypeOK, Numbers
<1>9. Directions' /\ NothingLeft' /\ ThreadGoesOn'
  BY <1>1, <1>2, <1>6 DEF IInv, Directions, NothingLeft, ThreadGoesOn
<1>10. InterruptMoves'
  BY <1>1, <1>2, <1>6, <1>7 DEF IInv, InterruptMoves, n
<1> QED BY <1>2, <1>5, <1>8, <1>9, <1>10 DEF IInv, n

\* A piece is no more than what is left of the buffer.
LEMMA WantedIsLess ==
    ASSUME IInv, NEW c \in Contexts, offset[c] < size[c]
    PROVE  Wanted(c) \in 0 .. size[c] - offset[c]
<1>1. size[c] \in 0 .. BufSize /\ offset[c] \in Nat /\ bb \in Nat /\ BufSize \in Nat
  BY AtaAssumption DEF IInv, TypeOK
<1> QED BY <1>1 DEF Wanted, OneOf

LEMMA BounceStep ==
    ASSUME IInv, NEW c \in Contexts, Bounce(c)
    PROVE  IInv' /\ c = "irq"
<1>1. UNCHANGED <<pc, seen, e, size, count, write, entry, index, dir, spd, bb, buffer>>
      /\ UNCHANGED <<disk, current, mail>>
      /\ At(c, "bounce") /\ offset[c] < size[c]
  BY DEF Bounce, main, dev
<1>2. c = "irq"
  BY <1>1, OnlyInterruptMoves DEF At
<1>3. offset' = [offset EXCEPT ![c] = offset[c] + Wanted(c)]
      /\ Wanted(c) \in 0 .. size[c] - offset[c]
  BY <1>1, WantedIsLess DEF Bounce
<1>4. offset' \in [Contexts -> Nat] /\ \A d \in Contexts : offset'[d] <= size[d]
  BY <1>1, <1>3 DEF IInv, TypeOK
<1>5. TypeOK' /\ Numbers'
  BY <1>1, <1>4 DEF IInv, TypeOK, Numbers
<1>6. Directions' /\ NothingLeft' /\ ThreadGoesOn' /\ InterruptMoves'
  BY <1>1 DEF IInv, Directions, NothingLeft, ThreadGoesOn, InterruptMoves
<1> QED BY <1>2, <1>5, <1>6 DEF IInv

\* The interrupt leaves nothing; the thread waits for ever.
LEMMA AckStep ==
    ASSUME IInv, NEW c \in Contexts, ata_sif_cmd_sg_ack(c)
    PROVE  IInv'
<1>1. UNCHANGED <<seen, e, size, offset, count, write, entry, index, dir, spd, bb, buffer>>
      /\ UNCHANGED <<disk, current, mail>>
      /\ pc[c] = "ack" /\ Go(c, "idle")
      /\ (c = "irq" \/ (c = "thread" /\ pc["irq"] = "idle"))
  BY DEF ata_sif_cmd_sg_ack, At, Runs, dev, main, Contexts
<1>2. /\ pc' \in [Contexts -> Places] /\ pc'[c] = "idle"
      /\ \A d \in Contexts \ {c} : pc'[d] = pc[d]
  BY <1>1, Went DEF IInv, Places
<1>3. TypeOK' /\ Numbers'
  BY <1>1, <1>2 DEF IInv, TypeOK, Numbers
<1>4. pc'["irq"] = "idle" /\ pc'["thread"] \in {"idle", pc["thread"]}
  BY <1>1, <1>2 DEF Contexts
<1>5. NothingLeft'
  <2>1. \A j \in 1 .. MaxSg : entry[j].size = 0
    BY <1>1 DEF IInv, TypeOK, InterruptMoves, NothingLeft
  <2> QED BY <1>1, <2>1 DEF NothingLeft
<1>6. Directions' /\ ThreadGoesOn' /\ InterruptMoves'
  BY <1>1, <1>4 DEF IInv, Directions, ThreadGoesOn, InterruptMoves
<1> QED BY <1>3, <1>5, <1>6 DEF IInv

\* The steps of a transfer that neither move nor acknowledge.
LEMMA LoopStep ==
    ASSUME TableHolds, IInv, NEW c \in Contexts,
           ReadIndex(c) \/ Compare(c) \/ Point(c) \/ Look(c) \/ Load(c) \/ Skip(c)
    PROVE  IInv'
  BY InterruptLoopStep, ThreadLoopStep DEF Contexts

\* Each step of a transfer is one of these.
LEMMA InvStep == TableHolds /\ IInv /\ [Next]_vars => IInv'
<1>. SUFFICES ASSUME TableHolds, IInv, [Next]_vars PROVE IInv'
  OBVIOUS
<1>1. CASE UNCHANGED vars
  <2>1. UNCHANGED <<pc, seen, e, size, offset, count, write, entry, index, dir, spd, bb, buffer>>
        /\ UNCHANGED <<disk, current, mail>>
    BY <1>1 DEF vars, local, dev, main
  <2> QED BY <2>1
      DEF IInv, TypeOK, Numbers, Directions, NothingLeft, ThreadGoesOn, InterruptMoves
<1>2. ASSUME NEW c \in Contexts, ata_sif_cmd_sg_transfer(c) PROVE IInv'
  BY <1>2, LoopStep, AdvanceStep, ReadStep, BounceStep, AckStep DEF ata_sif_cmd_sg_transfer
<1> QED BY <1>1, <1>2, MainStep, BounceBufferStep, ListStep DEF Next

LEMMA InvStarts == Init => IInv
<1>. SUFFICES ASSUME Init PROVE IInv
  OBVIOUS
<1>1. NoMail \in Commands /\ NoMail.op = "none"
  BY DEF Commands, NoMail
<1>2. entry \in [1 .. MaxSg -> Entries] /\ \A j \in 1 .. MaxSg : entry[j].size = 0
  BY DEF Init, Entries
<1>3. Longest \in Nat /\ MaxSg \in Nat /\ BufSize \in Nat
  BY LongestList, AtaAssumption
<1>4. TypeOK /\ Numbers
  BY <1>1, <1>2, <1>3 DEF Init, TypeOK, Numbers, Contexts, Places
<1>5. Directions /\ NothingLeft /\ ThreadGoesOn /\ InterruptMoves
  BY <1>2, <1>3 DEF Init, Directions, NothingLeft, ThreadGoesOn, InterruptMoves, Contexts
<1> QED BY <1>4, <1>5 DEF IInv

----------------------------------------------------------------------------
(* Alignment                                                                *)

\* The buffer of the IOP is aligned, and main announces whole alignment units.
BuffersAreWhole == Whole(BufSize) /\ \A n \in BounceSizes : Whole(n)

LEMMA Sums ==
    ASSUME NEW m, NEW n, Whole(m), Whole(n)
    PROVE  Whole(m + n) /\ (m <= n => Whole(n - m)) /\ m \in Nat
<1>1. PICK j \in Nat : m = j * AlignTo
  BY DEF Whole
<1>2. PICK k \in Nat : n = k * AlignTo
  BY DEF Whole
<1>3. AlignTo \in Nat \ {0}
  BY AtaAssumption
<1>4. Whole(m + n) /\ m \in Nat
  <2>1. m + n = (j + k) * AlignTo
    BY <1>1, <1>2, <1>3
  <2>2. j + k \in Nat /\ m \in Nat
    BY <1>1, <1>3
  <2> QED BY <2>1, <2>2 DEF Whole
<1>5. ASSUME m <= n PROVE Whole(n - m)
  <2>1. j <= k
    BY <1>1, <1>2, <1>3, <1>5
  <2>2. k - j \in Nat /\ n - m = (k - j) * AlignTo
    BY <1>1, <1>2, <1>3, <2>1
  <2> QED BY <2>2 DEF Whole
<1> QED BY <1>4, <1>5

\* What fits whole units fits them when it is rounded up.
LEMMA RoundedFits ==
    ASSUME NEW n \in Nat, NEW room, Whole(room), n <= room
    PROVE  ALIGN(n) <= room
<1>1. PICK k \in Nat : room = k * AlignTo
  BY DEF Whole
<1>2. AlignTo \in Nat \ {0}
  BY AtaAssumption
<1>. DEFINE q == (n + AlignTo - 1) \div AlignTo
<1>3. q \in Nat /\ q * AlignTo <= n + AlignTo - 1
  BY <1>2
<1>4. q * AlignTo < (k + 1) * AlignTo
  <2>1. (k + 1) * AlignTo = k * AlignTo + AlignTo
    BY <1>2
  <2> QED BY <1>1, <1>2, <1>3, <2>1
<1>5. q <= k
  <2>. HIDE DEF q
  <2> QED BY <1>2, <1>3, <1>4
<1>6. q * AlignTo <= k * AlignTo
  <2>. HIDE DEF q
  <2> QED BY <1>2, <1>3, <1>5
<1> QED BY <1>1, <1>6 DEF ALIGN

LEMMA PiecesStart == BuffersAreWhole /\ Init => PiecesAreWhole
  BY DEF Init, PiecesAreWhole, Contexts

\* All but the last piece are as large as one of the buffers.
LEMMA PiecesStep == BuffersAreWhole /\ IInv /\ PiecesAreWhole /\ [Next]_vars => PiecesAreWhole'
<1>. SUFFICES ASSUME BuffersAreWhole, IInv, PiecesAreWhole, [Next]_vars
              PROVE  PiecesAreWhole'
  OBVIOUS
<1>1. CASE UNCHANGED vars \/ Announce \/ SendList \/ TakeAck
  <2>1. UNCHANGED <<bb, pc, offset, size>>
    BY <1>1 DEF vars, local, dev, Announce, SendList, TakeAck
  <2> QED BY <2>1 DEF PiecesAreWhole
<1>2. CASE ata_sif_cmd_bb
  <2>1. pc["irq"] = "idle" /\ pc' = pc /\ mail.op = "bb" /\ bb' = mail.size
    BY <1>2 DEF ata_sif_cmd_bb, Interrupts, local
  <2>2. bb' \in BounceSizes
    BY <2>1, CommandKinds DEF IInv, TypeOK
  <2> QED BY <2>1, <2>2 DEF PiecesAreWhole, BuffersAreWhole
<1>3. CASE ata_sif_cmd_sg
  <2>1. bb' = bb /\ pc'["irq"] = "test"
    BY <1>3 DEF ata_sif_cmd_sg, IInv, TypeOK, Contexts
  <2> QED BY <2>1 DEF PiecesAreWhole
<1>4. ASSUME NEW c \in Contexts, ata_sif_cmd_sg_transfer(c) PROVE PiecesAreWhole'
  <2>1. CASE ReadIndex(c) \/ Compare(c) \/ Point(c) \/ Look(c) \/ Load(c) \/ Skip(c)
             \/ Write(c) \/ Bounced(c) \/ ata_sif_cmd_sg_ack(c)
    <3>1. PICK place \in Places \ {"bounce"} : Go(c, place)
      BY <2>1, Looped DEF ReadIndex, Point, Look, Load, Skip, Write, Bounced,
         ata_sif_cmd_sg_ack, Places
    <3>2. bb' = bb /\ UNCHANGED <<offset, size>>
      BY <2>1, Looped DEF ReadIndex, Point, Look, Load, Skip, Write, Bounced,
         ata_sif_cmd_sg_ack, dev
    <3>3. pc'["irq"] = "bounce" => pc["irq"] = "bounce"
      BY <3>1, Went DEF IInv, Contexts
    <3> QED BY <3>2, <3>3 DEF PiecesAreWhole
  <2>2. CASE ata_read_dma(c)
    <3>1. c = "irq" /\ bb' = bb /\ offset'["irq"] = 0
      BY <2>2, ReadStep DEF ata_read_dma, IInv, TypeOK
    <3>2. 0 = 0 * AlignTo
      BY AtaAssumption
    <3> QED BY <3>1, <3>2 DEF PiecesAreWhole, Whole
  <2>3. CASE Bounce(c)
    <3>1. c = "irq" /\ bb' = bb /\ size' = size /\ offset["irq"] < size["irq"]
          /\ pc["irq"] = "bounce"
      BY <2>3, BounceStep DEF Bounce, dev, At
    <3>2. offset'["irq"] = offset["irq"] + Wanted("irq")
      BY <2>3, <3>1 DEF Bounce, IInv, TypeOK
    <3>3. /\ Whole(offset["irq"]) /\ Whole(BufSize)
          /\ bb # 0 => Whole(bb)
      BY <3>1 DEF PiecesAreWhole, BuffersAreWhole
    <3>4. size["irq"] \in 0 .. BufSize /\ offset["irq"] \in Nat /\ bb \in Nat /\ BufSize \in Nat
      BY AtaAssumption DEF IInv, TypeOK, Contexts
    <3>5. ASSUME offset'["irq"] < size["irq"] PROVE Whole(offset'["irq"])
      <4>1. Wanted("irq") \in {BufSize, bb}
        BY <3>2, <3>4, <3>5 DEF Wanted, OneOf
      <4>2. CASE Wanted("irq") = 0
        BY <3>2, <3>3, <3>4, <4>2
      <4>3. CASE Wanted("irq") # 0
        BY <3>2, <3>3, <4>1, <4>3, Sums
      <4> QED BY <4>2, <4>3
    <3> QED BY <3>1, <3>3, <3>5 DEF PiecesAreWhole
  <2> QED BY <1>4, <2>1, <2>2, <2>3 DEF ata_sif_cmd_sg_transfer
<1> QED BY <1>1, <1>2, <1>3, <1>4 DEF Next

LEMMA PiecesFit == BuffersAreWhole /\ IInv /\ PiecesAreWhole => BounceFits
<1>. SUFFICES ASSUME BuffersAreWhole, IInv, PiecesAreWhole,
                     NEW c \in Contexts, At(c, "bounce"), offset[c] < size[c]
              PROVE  ALIGN(Wanted(c)) <= bb /\ offset[c] + ALIGN(Wanted(c)) <= BufSize
  BY DEF BounceFits, IInv
<1>1. c = "irq" /\ pc["irq"] = "bounce"
  BY OnlyInterruptMoves DEF At
<1>2. size[c] \in 0 .. BufSize /\ offset[c] \in Nat /\ bb \in Nat /\ BufSize \in Nat
  BY AtaAssumption DEF IInv, TypeOK
<1>3. Wanted(c) \in Nat /\ Wanted(c) <= bb /\ Wanted(c) <= BufSize - offset[c]
  BY <1>2, WantedIsLess DEF Wanted, OneOf
<1>4. ALIGN(Wanted(c)) <= BufSize - offset[c]
  <2>1. Whole(BufSize - offset[c])
    BY <1>1, <1>2, Sums DEF PiecesAreWhole, BuffersAreWhole
  <2> QED BY <1>3, <2>1, RoundedFits
<1>5. ALIGN(Wanted(c)) <= bb
  <2>1. bb = 0 => Whole(bb)
    BY AtaAssumption DEF Whole
  <2> QED BY <1>3, <2>1, RoundedFits DEF PiecesAreWhole
<1>6. ALIGN(Wanted(c)) \in Nat
  <2>1. \A n, d \in Nat : d # 0 => ((n + d - 1) \div d) * d \in Nat
    <3>. SUFFICES ASSUME NEW n \in Nat, NEW d \in Nat, d # 0
                  PROVE  ((n + d - 1) \div d) * d \in Nat
      OBVIOUS
    <3>1. (n + d - 1) \div d \in Nat
      OBVIOUS
    <3> QED BY <3>1
  <2> QED BY <1>3, <2>1, AtaAssumption DEF ALIGN
<1> QED BY <1>2, <1>4, <1>5, <1>6

----------------------------------------------------------------------------
(* What is read                                                             *)

\* No list asks for two entries in one place of main memory.
EntriesApart ==
    \A l \in Lists : ~l.write =>
        \A j, k \in DOMAIN l.entry : j # k =>
            \A a \in Memory : ~(In(a, l.entry[j]) /\ In(a, l.entry[k]))

\* The list that is transferred, and its entries in the table.
LEMMA ListFacts ==
    ASSUME IInv, pc["irq"] # "idle"
    PROVE  /\ DOMAIN current.entry = 1 .. count /\ count \in Nat /\ index \in 0 .. count
           /\ index + 1 \in 1 .. MaxSg \/ index = count
           /\ \A j \in 1 .. count :
                 /\ j \in 1 .. MaxSg
                 /\ current.entry[j].addr \in Nat /\ current.entry[j].size \in Nat
                 /\ entry[j].addr \in Nat /\ entry[j].size \in Nat
           /\ disk \in Nat /\ size["irq"] \in 0 .. BufSize /\ offset["irq"] \in 0 .. size["irq"]
           /\ BufSize \in Nat
<1>1. current.entry \in Seq(Entries) /\ count = Len(current.entry)
  BY CommandKinds DEF IInv, TypeOK, InterruptMoves
<1>2. entry \in [1 .. MaxSg -> Entries] /\ count \in 0 .. MaxSg /\ MaxSg \in Nat
      /\ index \in Nat /\ index <= count
  BY LongestList DEF IInv, TypeOK, InterruptMoves
<1>3. \A j \in 1 .. count :
          j \in 1 .. MaxSg /\ current.entry[j] \in Entries /\ entry[j] \in Entries
  BY <1>1, <1>2
<1>4. size["irq"] \in 0 .. BufSize /\ offset["irq"] \in 0 .. size["irq"] /\ BufSize \in Nat
  BY AtaAssumption DEF IInv, TypeOK, Contexts
<1>5. \A x \in Entries : x.addr \in Nat /\ x.size \in Nat
  BY DEF Entries
<1>6. DOMAIN current.entry = 1 .. count /\ count \in Nat /\ index \in 0 .. count
      /\ (index + 1 \in 1 .. MaxSg \/ index = count)
  BY <1>1, <1>2
<1>7. disk \in Nat
  BY DEF IInv, Numbers
<1> QED BY <1>3, <1>4, <1>5, <1>6, <1>7

\* Steps that move nothing.
LEMMA ReadingStays ==
    ASSUME Reading, pc'["irq"] # "idle" => pc["irq"] # "idle",
           pc'["irq"] = "bounce" <=> pc["irq"] = "bounce",
           UNCHANGED <<index, count, write, entry, buffer, disk, memory, current>>,
           UNCHANGED <<size["irq"], offset["irq"]>>
    PROVE  Reading'
<1>. SUFFICES ASSUME pc["irq"] # "idle", ~write PROVE Reading'
  BY DEF Reading
<1>1. PICK at \in [1 .. index + 1 -> 0 .. disk] :
          /\ Delivered(at, current.entry) /\ Remain(current.entry)
          /\ Buffered /\ Arrived(at, current.entry)
  BY DEF Reading
<1>2. Reached' = Reached
  BY DEF Reached
<1>3. Delivered(at, current.entry)' /\ Remain(current.entry)' /\ Buffered'
  BY <1>1 DEF Delivered, Remain, Buffered
<1>4. Arrived(at, current.entry)'
  BY <1>1, <1>2 DEF Arrived
<1> QED BY <1>1, <1>3, <1>4 DEF Reading

\* A new list: nothing of it is delivered, all of it remains.
LEMMA ReadingBegins ==
    ASSUME IInv, ata_sif_cmd_sg
    PROVE  Reading'
<1>. DEFINE at == [j \in 1 .. 1 |-> 0]
<1>. DEFINE x == mail.entry
            r == Overlay(mail.entry)
<1>1. /\ count' = Len(x) /\ index' = 0 /\ current' = mail /\ disk' = 0
      /\ pc'["irq"] = "test" /\ entry' = r
      /\ memory' = [a \in Memory |-> Nothing]
  BY DEF ata_sif_cmd_sg, Interrupts, IInv, TypeOK, Contexts
<1>2. x \in Seq(Entries)
  BY CommandKinds DEF ata_sif_cmd_sg, Interrupts, IInv, TypeOK
<1>3. PICK l \in Lists : x = l.entry
  BY DEF ata_sif_cmd_sg, Interrupts, IInv, Numbers
<1>. Len(x) \in 0 .. MaxSg /\ MaxSg \in Nat
  BY <1>3, LongestList
<1>4. \A j \in 1 .. Len(x) : r[j] = x[j]
  BY DEF Overlay
<1>5. \A j \in 1 .. Len(x) : x[j].addr \in Nat /\ x[j].size \in Nat
  <2>1. \A j \in 1 .. Len(x) : x[j] \in Entries
    BY <1>2
  <2> QED BY <2>1 DEF Entries
<1>. HIDE DEF r
<1>6. Delivered(at, current.entry)'
  <2>1. /\ at \in [1 .. 0 + 1 -> 0 .. 0] /\ at[1] = 0
        /\ \A j \in 1 .. 0 : at[j + 1] = at[j] + x[j].size
    OBVIOUS
  <2>2. 0 < Len(x) => 0 = at[0 + 1] + x[0 + 1].size - r[0 + 1].size + 0
    BY <1>4, <1>5
  <2> QED BY <1>1, <1>3, <2>1, <2>2 DEF Delivered
<1>7. Remain(current.entry)'
  <2>1. 0 < Len(x) => r[0 + 1] = x[0 + 1] /\ x[0 + 1].addr >= x[0 + 1].addr
    BY <1>4, <1>5
  <2>2. \A j \in 0 + 2 .. Len(x) : r[j] = x[j]
    BY <1>4
  <2>3. current'.entry = x /\ entry' = r /\ count' = Len(x) /\ index' = 0
    BY <1>1, <1>3
  <2> QED BY <2>1, <2>2, <2>3 DEF Remain
<1>8. Buffered'
  BY <1>1 DEF Buffered
<1>9. Arrived(at, current.entry)'
  <2>1. Len(x) # 0 => Reached' = x[1].addr
    <3>1. Reached' = r[0 + 1].addr + 0
      BY <1>1, <1>3 DEF Reached
    <3> QED BY <3>1, <1>4, <1>5
  <2>2. \A a \in Memory : memory'[a] = Nothing /\ ~(0 < Len(x) /\ x[1].addr <= a /\ a < Reached')
    BY <1>1, <1>5, <2>1, AtaAssumption
  <2> QED BY <1>1, <1>3, <2>2 DEF Arrived
<1> QED BY <1>1, <1>6, <1>7, <1>8, <1>9 DEF Reading

\* On to the next entry: the units of this one are all there.
LEMMA ReadingGoesOn ==
    ASSUME IInv, Reading, Skip("irq")
    PROVE  Reading'
<1>. DEFINE l == current.entry
<1>1. /\ pc["irq"] = "skip" /\ pc'["irq"] = "test" /\ index' = index + 1
      /\ index < count /\ entry[index + 1].size = 0
  BY DEF Skip, At, Go, IInv, TypeOK, Contexts, InterruptMoves
<1>2. UNCHANGED <<count, write, entry, buffer, disk, memory, current>>
  BY DEF Skip
<1>. SUFFICES ASSUME ~write PROVE Reading'
  BY <1>2 DEF Reading
<1>3. PICK at \in [1 .. index + 1 -> 0 .. disk] :
          Delivered(at, l) /\ Remain(l) /\ Arrived(at, l)
  BY <1>1 DEF Reading
<1>4. /\ count \in Nat /\ index \in Nat /\ index + 1 \in 1 .. count /\ disk \in Nat
      /\ DOMAIN l = 1 .. count
      /\ \A j \in 1 .. count : l[j].addr \in Nat /\ l[j].size \in Nat
  BY <1>1, ListFacts
<1>5. Reached = entry[index + 1].addr /\ entry[index + 1].addr \in Nat
  BY <1>1, ListFacts DEF Reached
<1>6. disk = at[index + 1] + l[index + 1].size
  BY <1>1, <1>3, <1>4 DEF Delivered
<1>7. entry[index + 1].addr = l[index + 1].addr + l[index + 1].size
  BY <1>1, <1>3, <1>4, <1>5 DEF Remain
<1>8. index + 1 < count => entry[index + 2] = l[index + 2]
  <2>1. index + 1 < count => index + 2 \in index + 2 .. count
    BY <1>4
  <2> QED BY <1>3, <2>1 DEF Remain
<1>9. PICK new \in [1 .. index' + 1 -> 0 .. disk'] :
          /\ new[1] = 0
          /\ \A j \in 1 .. index + 1 : new[j] = at[j]
          /\ new[index + 1 + 1] = disk
  <2>. DEFINE f == [j \in 1 .. index + 1 + 1 |-> IF j <= index + 1 THEN at[j] ELSE disk]
  <2>1. f \in [1 .. index' + 1 -> 0 .. disk']
    BY <1>1, <1>2, <1>4
  <2>2. /\ f[1] = 0
        /\ \A j \in 1 .. index + 1 : f[j] = at[j]
        /\ f[index + 1 + 1] = disk
    BY <1>3, <1>4 DEF Delivered
  <2> QED BY <2>1, <2>2
<1>10. Delivered(new, l)'
  <2>1. \A j \in 1 .. index + 1 : new[j + 1] = new[j] + l[j].size
    <3>1. \A j \in 1 .. index : new[j + 1] = new[j] + l[j].size
      <4>. TAKE j \in 1 .. index
      <4>1. j \in 1 .. index + 1 /\ j + 1 \in 1 .. index + 1
        BY <1>4
      <4>2. at[j + 1] = at[j] + l[j].size
        BY <1>3 DEF Delivered
      <4> QED BY <1>9, <4>1, <4>2
    <3>2. new[index + 1 + 1] = new[index + 1] + l[index + 1].size
      BY <1>4, <1>6, <1>9
    <3>3. \A j \in 1 .. index + 1 : j \in 1 .. index \/ j = index + 1
      BY <1>4
    <3> QED BY <3>1, <3>2, <3>3
  <2>2. index + 1 < count =>
            disk = new[index + 1 + 1] + l[index + 1 + 1].size - entry[index + 1 + 1].size + 0
    BY <1>4, <1>8, <1>9
  <2> QED BY <1>1, <1>2, <1>9, <2>1, <2>2 DEF Delivered
<1>11. Remain(l)'
  <2>1. index + 1 < count => entry[index + 1 + 1] = l[index + 1 + 1]
                             /\ l[index + 1 + 1].addr \in Nat
    BY <1>4, <1>8
  <2>2. \A j \in index + 1 + 2 .. count : entry[j] = l[j]
    BY <1>3, <1>4 DEF Remain
  <2> QED BY <1>1, <1>2, <2>1, <2>2 DEF Remain
<1>12. Buffered'
  BY <1>1 DEF Buffered
<1>13. Arrived(new, l)'
  <2>1. ASSUME NEW a \in Memory
        PROVE  \A j \in 1 .. index + 1 : In(a, l[j]) => memory[a] = new[j] + a - l[j].addr
    <3>1. \A j \in 1 .. index : In(a, l[j]) => memory[a] = at[j] + a - l[j].addr
      BY <1>3 DEF Arrived
    <3>2. In(a, l[index + 1]) => memory[a] = at[index + 1] + a - l[index + 1].addr
      BY <1>1, <1>3, <1>5, <1>7 DEF Arrived, In
    <3>3. \A j \in 1 .. index + 1 : j \in 1 .. index \/ j = index + 1
      BY <1>4
    <3>4. \A j \in 1 .. index + 1 : In(a, l[j]) => memory[a] = at[j] + a - l[j].addr
      BY <3>1, <3>2, <3>3
    <3> QED BY <1>9, <3>4
  <2>2. \A a \in Memory : ~(index + 1 < count /\ l[index + 1 + 1].addr <= a /\ a < Reached')
    <3>1. Reached' = entry[index + 1 + 1].addr + 0
      BY <1>1, <1>2 DEF Reached
    <3>2. index + 1 < count => /\ entry[index + 1 + 1].addr = l[index + 1 + 1].addr
                               /\ l[index + 1 + 1].addr \in Nat
      BY <1>4, <1>8
    <3>3. Memory \subseteq Nat
      BY AtaAssumption
    <3>4. index + 1 < count => Reached' = l[index + 1 + 1].addr
      BY <3>1, <3>2
    <3>5. ASSUME NEW a \in Memory, index + 1 < count, l[index + 1 + 1].addr <= a, a < Reached'
          PROVE  FALSE
      <4>1. PICK x \in Nat, y \in Nat : x = l[index + 1 + 1].addr /\ y = a
        BY <3>2, <3>3, <3>5
      <4>2. x <= y /\ y < x
        BY <3>4, <3>5, <4>1
      <4> QED BY <4>2
    <3> QED BY <3>5
  <2>3. \A a \in Memory : (\A j \in DOMAIN l : ~In(a, l[j])) => memory[a] = Nothing
    BY <1>3 DEF Arrived
  <2>4. index' = index + 1 /\ memory' = memory /\ current' = current /\ count' = count
    BY <1>1, <1>2
  <2> QED BY <2>1, <2>2, <2>3, <2>4 DEF Arrived
<1> QED BY <1>2, <1>9, <1>10, <1>11, <1>12, <1>13 DEF Reading

\* The disk fills the buffer.
LEMMA ReadingReads ==
    ASSUME IInv, Reading, ata_read_dma("irq")
    PROVE  Reading'
<1>. DEFINE l == current.entry
            n == OneOf(entry[index + 1].size, BufSize)
<1>0. /\ pc["irq"] = "move" /\ pc'["irq"] = "bounce" /\ index < count /\ ~write /\ spd = 0
      /\ offset'["irq"] = 0
  BY DEF ata_read_dma, At, Go, IInv, TypeOK, Contexts, InterruptMoves, Directions
<1>1. /\ pc["irq"] = "move" /\ pc'["irq"] = "bounce" /\ index < count /\ ~write
      /\ size'["irq"] = n /\ offset'["irq"] = 0 /\ disk' = disk + n
      /\ buffer' = [i \in DOMAIN buffer |-> IF i < n THEN disk + i ELSE buffer[i]]
  <2>1. Piece("irq") = n
    BY <1>0, PointedIsEntry DEF Piece
  <2> QED BY <1>0, <2>1 DEF ata_read_dma, IInv, TypeOK, Contexts
<1>2. UNCHANGED <<count, write, entry, index, memory, current>>
  BY DEF ata_read_dma
<1>3. PICK at \in [1 .. index + 1 -> 0 .. disk] :
          Delivered(at, l) /\ Remain(l) /\ Arrived(at, l)
  BY <1>1 DEF Reading
<1>4. n \in 0 .. BufSize /\ BufSize \in Nat /\ disk \in Nat /\ index \in Nat
  BY <1>1, PointedIsEntry, ListFacts DEF OneOf
<1>5. /\ l[index + 1].size \in Nat /\ entry[index + 1].size \in Nat
      /\ entry[index + 1].addr \in Nat
  BY <1>1, <1>4, ListFacts
<1>. HIDE DEF n
<1>6. at \in [1 .. index + 1 -> 0 .. disk + n]
  BY <1>4
<1>7. Delivered(at, l)'
  <2>1. disk + n = at[index + 1] + l[index + 1].size - entry[index + 1].size + n
    <3>1. disk = at[index + 1] + l[index + 1].size - entry[index + 1].size + 0
      BY <1>1, <1>3 DEF Delivered
    <3>2. at[index + 1] \in Nat
      BY <1>4
    <3> QED BY <3>1, <3>2, <1>4, <1>5
  <2>2. at[1] = 0 /\ \A j \in 1 .. index : at[j + 1] = at[j] + l[j].size
    BY <1>3 DEF Delivered
  <2> QED BY <1>1, <1>2, <1>6, <2>1, <2>2 DEF Delivered
<1>8. Remain(l)'
  BY <1>2, <1>3 DEF Remain
<1>9. Buffered'
  <2>1. \A i \in 0 .. n - 1 : buffer'[i] = disk + i
    BY <1>1, <1>4 DEF IInv, Numbers
  <2> QED BY <1>1, <1>4, <2>1 DEF Buffered
<1>10. Arrived(at, l)'
  <2>1. Reached' = Reached
    BY <1>1, <1>2, <1>5 DEF Reached
  <2> QED BY <1>2, <1>3, <2>1 DEF Arrived
<1> QED BY <1>1, <1>2, <1>6, <1>7, <1>8, <1>9, <1>10 DEF Reading

\* A piece is copied to the place in main memory after the last that was reached.
LEMMA ReadingBounces ==
    ASSUME EntriesApart, IInv, Reading, Bounce("irq")
    PROVE  Reading'
<1>. DEFINE l == current.entry
            n == Wanted("irq")
            s == size["irq"]
            o == offset["irq"]
            x == entry[index + 1]
            k == l[index + 1]
<1>1. /\ pc["irq"] = "bounce" /\ index < count /\ ~write /\ o < s
      /\ s = OneOf(x.size, BufSize)
  BY DEF Bounce, At, IInv, InterruptMoves
<1>2. UNCHANGED <<pc, size, count, write, entry, index, current, buffer, disk>>
      /\ offset'["irq"] = o + n
  BY DEF Bounce, IInv, TypeOK, Contexts, dev
<1>3. PICK at \in [1 .. index + 1 -> 0 .. disk] :
          Delivered(at, l) /\ Remain(l) /\ Buffered /\ Arrived(at, l)
  BY <1>1 DEF Reading
<1>4. /\ index \in Nat /\ index + 1 \in 1 .. count /\ disk \in Nat /\ DOMAIN l = 1 .. count
      /\ count \in Nat /\ k.addr \in Nat /\ k.size \in Nat /\ x.addr \in Nat /\ x.size \in Nat
      /\ s \in Nat /\ o \in Nat /\ BufSize \in Nat
  BY <1>1, ListFacts
<1>5. n \in Nat /\ o + n <= s
  BY <1>1, <1>4, WantedIsLess DEF Contexts
<1>0. Pointed("irq") = x
  BY <1>1, PointedIsEntry
<1>6. Reached = x.addr + o /\ Reached' = x.addr + o + n
  BY <1>1, <1>2, <1>4, <1>5 DEF Reached
<1>7. memory' = [a \in Memory |->
          IF Reached <= a /\ a < Reached + n THEN buffer[o + a - Reached] ELSE memory[a]]
  BY <1>0, <1>6 DEF Bounce
<1>8. disk = at[index + 1] + k.size - x.size + s /\ at[index + 1] \in Nat
  BY <1>1, <1>3, <1>4 DEF Delivered
<1>9. x.addr + x.size = k.addr + k.size /\ k.addr <= x.addr
  BY <1>1, <1>3, <1>4 DEF Remain
<1>10. s <= x.size
  BY <1>1, <1>4 DEF OneOf
<1>11. \A i \in 0 .. s - 1 : buffer[i] = disk - s + i
  BY <1>1, <1>3 DEF Buffered
<1>12. Memory \subseteq Nat
  BY AtaAssumption
<1>13. ASSUME NEW a \in Memory, Reached <= a, a < Reached + n
       PROVE  /\ memory'[a] = at[index + 1] + a - k.addr /\ In(a, k)
              /\ \A j \in 1 .. index : ~In(a, l[j])
  <2>0. Reached \in Nat /\ n \in Nat /\ s \in Nat /\ o \in Nat /\ x.addr \in Nat /\ x.size \in Nat
    <3>1. s \in Nat /\ o \in Nat /\ x.addr \in Nat /\ x.size \in Nat
      BY <1>4
    <3>2. n \in Nat /\ Reached = x.addr + o
      BY <1>5, <1>6
    <3>. HIDE DEF n, s, o, x
    <3> QED BY <3>1, <3>2
  <2>1. PICK r \in Nat, w \in Nat, y \in Nat, z \in Nat, ea \in Nat, es \in Nat :
            r = Reached /\ w = n /\ y = s /\ z = o /\ ea = x.addr /\ es = x.size
    <3>. HIDE DEF n, s, o, x
    <3> QED BY <2>0
  <2>2. PICK ka \in Nat, ks \in Nat, d \in Nat, t \in Nat :
            ka = k.addr /\ ks = k.size /\ d = disk /\ t = at[index + 1]
    BY <1>4, <1>8
  <2>3. a \in Nat /\ r <= a /\ a < r + w
    BY <1>12, <1>13, <2>1
  <2>4. /\ z + w <= y /\ r = ea + z /\ d = t + ks - es + y
        /\ ea + es = ka + ks /\ ka <= ea /\ y <= es
    BY <1>5, <1>6, <1>8, <1>9, <1>10, <2>1, <2>2
  <2>5. In(a, k)
    <3>1. ka <= a /\ a < ka + ks
      BY <2>3, <2>4
    <3> QED BY <2>2, <3>1 DEF In
  <2>6. \A j \in 1 .. index : ~In(a, l[j])
    <3>1. PICK m \in Lists : current.write = m.write /\ l = m.entry
      BY <1>1 DEF IInv, Numbers, InterruptMoves
    <3>2. ~m.write
      BY <1>1, <3>1 DEF IInv, InterruptMoves
    <3>3. \A j \in 1 .. index : j \in DOMAIN l /\ j # index + 1
      BY <1>4
    <3> QED BY <1>4, <2>5, <3>1, <3>2, <3>3 DEF EntriesApart
  <2>7. memory'[a] = at[index + 1] + a - k.addr
    <3>1. z + a - r \in 0 .. y - 1
      BY <2>3, <2>4
    <3>2. memory'[a] = buffer[z + a - r]
      BY <1>7, <2>1, <2>3
    <3>3. buffer[z + a - r] = d - y + (z + a - r)
      BY <1>11, <2>1, <2>2, <3>1
    <3>4. d - y + (z + a - r) = t + a - ka
      BY <2>3, <2>4
    <3> QED BY <2>2, <3>2, <3>3, <3>4
  <2> QED BY <2>5, <2>6, <2>7
<1>14. ASSUME NEW a \in Memory, ~(Reached <= a /\ a < Reached + n)
       PROVE  memory'[a] = memory[a] /\ (a < Reached' => a < Reached)
  <2>. HIDE DEF n, s, o, x, k
  <2> QED BY <1>4, <1>5, <1>6, <1>7, <1>12, <1>14
<1>15. Delivered(at, l)' /\ Remain(l)' /\ Buffered'
  BY <1>1, <1>2, <1>3 DEF Delivered, Remain, Buffered
<1>16. Arrived(at, l)'
  <2>1. ASSUME NEW a \in Memory
        PROVE  /\ (\A j \in DOMAIN l : ~In(a, l[j])) => memory'[a] = Nothing
               /\ \A j \in 1 .. index : In(a, l[j]) => memory'[a] = at[j] + a - l[j].addr
               /\ index < count /\ k.addr <= a /\ a < Reached' =>
                     memory'[a] = at[index + 1] + a - k.addr
    <3>1. CASE Reached <= a /\ a < Reached + n
      BY <1>4, <1>13, <3>1
    <3>2. CASE ~(Reached <= a /\ a < Reached + n)
      BY <1>3, <1>14, <3>2 DEF Arrived
    <3> QED BY <3>1, <3>2
  <2> QED BY <1>2, <2>1 DEF Arrived
<1> QED BY <1>2, <1>15, <1>16 DEF Reading

\* The entry is advanced by what was copied.
LEMMA ReadingAdvances ==
    ASSUME IInv, Reading, Bounced("irq")
    PROVE  Reading'
<1>. DEFINE l == current.entry
            s == size["irq"]
            x == entry[index + 1]
            k == l[index + 1]
<1>1. /\ pc["irq"] = "bounce" /\ pc'["irq"] = "test" /\ index < count /\ ~write
      /\ offset["irq"] >= s /\ s = OneOf(x.size, BufSize) /\ Advance("irq", s)
  BY DEF Bounced, At, Go, IInv, TypeOK, Contexts, InterruptMoves
<1>3. PICK at \in [1 .. index + 1 -> 0 .. disk] :
          Delivered(at, l) /\ Remain(l) /\ Buffered /\ Arrived(at, l)
  BY <1>1 DEF Reading
<1>4. /\ index \in Nat /\ index + 1 \in 1 .. MaxSg /\ count \in 0 .. MaxSg /\ disk \in Nat
      /\ k.addr \in Nat /\ k.size \in Nat /\ x.addr \in Nat /\ x.size \in Nat
      /\ s \in Nat /\ offset["irq"] = s /\ BufSize \in Nat
  <2>1. count \in 0 .. MaxSg /\ MaxSg \in Nat /\ index \in Nat
    BY LongestList DEF IInv, TypeOK
  <2> QED BY <1>1, <2>1, ListFacts
<1>5. s <= x.size
  BY <1>1, <1>4 DEF OneOf
<1>6. /\ entry'[index + 1].addr = x.addr + s
      /\ entry'[index + 1].size = x.size - s
      /\ \A j \in 1 .. MaxSg : j # index + 1 => entry'[j] = entry[j]
      /\ index' = index
  BY <1>1, <1>4, <1>5, Advanced
<1>2. UNCHANGED <<count, write, index, current, memory, disk>>
  BY <1>6 DEF Bounced
<1>7. Delivered(at, l)'
  <2>1. disk = at[index + 1] + k.size - x.size + s /\ at[index + 1] \in Nat
    BY <1>1, <1>3, <1>4 DEF Delivered
  <2>2. disk = at[index + 1] + k.size - entry'[index + 1].size + 0
    <3>. HIDE DEF s, x, k
    <3> QED BY <1>4, <1>6, <2>1
  <2> QED BY <1>1, <1>2, <1>3, <2>2 DEF Delivered
<1>8. Remain(l)'
  <2>1. x.addr + x.size = k.addr + k.size /\ k.addr <= x.addr
    BY <1>1, <1>3, <1>4 DEF Remain
  <2>2. /\ entry'[index + 1].addr + entry'[index + 1].size = k.addr + k.size
        /\ entry'[index + 1].addr >= k.addr
    <3>. HIDE DEF s, x, k
    <3> QED BY <1>4, <1>6, <2>1
  <2>3. \A j \in index + 2 .. count : entry'[j] = l[j]
    <3>1. \A j \in index + 2 .. count : j \in 1 .. MaxSg /\ j # index + 1
      BY <1>1, <1>4, ListFacts
    <3> QED BY <1>3, <1>6, <3>1 DEF Remain
  <2> QED BY <1>2, <2>2, <2>3 DEF Remain
<1>9. Buffered'
  BY <1>1 DEF Buffered
<1>10. Arrived(at, l)'
  <2>1. Reached' = Reached
    BY <1>1, <1>2, <1>4, <1>6 DEF Reached
  <2> QED BY <1>2, <1>3, <2>1 DEF Arrived
<1> QED BY <1>2, <1>7, <1>8, <1>9, <1>10 DEF Reading

\* The thread goes round its loop and acknowledges, and moves nothing.
LEMMA ThreadOnlyLoops ==
    ASSUME IInv, NEW c \in Contexts, ata_sif_cmd_sg_transfer(c), c # "irq"
    PROVE  ReadIndex(c) \/ Compare(c) \/ Point(c) \/ Look(c) \/ Load(c) \/ Skip(c)
               \/ ata_sif_cmd_sg_ack(c)
  BY AdvanceStep, ReadStep, BounceStep DEF ata_sif_cmd_sg_transfer

LEMMA ReadingStep == EntriesApart /\ IInv /\ Reading /\ [Next]_vars => Reading'
<1>. SUFFICES ASSUME EntriesApart, IInv, Reading, [Next]_vars
              PROVE  Reading'
  OBVIOUS
<1>1. CASE UNCHANGED vars \/ Announce \/ SendList \/ TakeAck
  <2>1. UNCHANGED <<pc, size, offset, index, count, write, entry, buffer, disk, memory, current>>
    BY <1>1 DEF vars, local, dev, Announce, SendList, TakeAck
  <2> QED BY <2>1, ReadingStays
<1>2. CASE ata_sif_cmd_bb
  <2>1. pc["irq"] = "idle" /\ pc' = pc
    BY <1>2 DEF ata_sif_cmd_bb, Interrupts, local
  <2> QED BY <2>1 DEF Reading
<1>3. CASE ata_sif_cmd_sg
  BY <1>3, ReadingBegins
<1>4. ASSUME NEW c \in Contexts, ata_sif_cmd_sg_transfer(c), c # "irq" PROVE Reading'
  <2>1. pc["irq"] = "idle" /\ \E place \in Places : Go(c, place)
    <3>1. ReadIndex(c) \/ Compare(c) \/ Point(c) \/ Look(c) \/ Load(c) \/ Skip(c)
              \/ ata_sif_cmd_sg_ack(c)
      BY <1>4, ThreadOnlyLoops
    <3> QED BY <1>4, <3>1, Looped
        DEF ReadIndex, Point, Look, Load, Skip, ata_sif_cmd_sg_ack, At, Runs, Places
  <2>2. pc'["irq"] = "idle"
    BY <1>4, <2>1, Went DEF IInv, Contexts
  <2> QED BY <2>2 DEF Reading
<1>5. CASE ata_sif_cmd_sg_transfer("irq")
  <2>1. CASE ReadIndex("irq") \/ Compare("irq") \/ Point("irq") \/ Look("irq") \/ Load("irq")
    <3>1. UNCHANGED <<size, offset, index, count, write, entry, buffer, disk, memory, current>>
      BY <2>1, Looped DEF ReadIndex, Point, Look, Load, dev, Contexts
    <3>2. pc["irq"] \notin {"idle", "bounce"} /\ pc'["irq"] # "bounce"
      BY <2>1, Looped DEF ReadIndex, Point, Look, Load, At, Go, IInv, TypeOK, Contexts
    <3> QED BY <3>1, <3>2, ReadingStays
  <2>2. CASE Skip("irq")
    BY <2>2, ReadingGoesOn
  <2>3. CASE Write("irq")
    BY <2>3 DEF Write, Reading
  <2>4. CASE ata_read_dma("irq")
    BY <2>4, ReadingReads
  <2>5. CASE Bounce("irq")
    BY <2>5, ReadingBounces
  <2>6. CASE Bounced("irq")
    BY <2>6, ReadingAdvances
  <2>7. CASE ata_sif_cmd_sg_ack("irq")
    BY <2>7 DEF ata_sif_cmd_sg_ack, Go, Reading, IInv, TypeOK, Contexts
  <2> QED BY <1>5, <2>1, <2>2, <2>3, <2>4, <2>5, <2>6, <2>7 DEF ata_sif_cmd_sg_transfer
<1> QED BY <1>1, <1>2, <1>3, <1>4, <1>5 DEF Next, Contexts

LEMMA ReadingCompletes == IInv /\ Reading => ReadsComplete
<1>. SUFFICES ASSUME IInv, Reading, pc["irq"] = "ack", ~write PROVE ReadsComplete
  BY DEF ReadsComplete
<1>. DEFINE l == current.entry
<1>1. PICK at \in [1 .. index + 1 -> 0 .. disk] : Delivered(at, l) /\ Arrived(at, l)
  BY DEF Reading
<1>2. index = count /\ count = Len(l) /\ DOMAIN l = 1 .. count
  BY ListFacts DEF IInv, InterruptMoves
<1>3. at \in [1 .. Len(l) + 1 -> 0 .. disk]
  BY <1>2
<1>4. InOrder(at, l)
  BY <1>1, <1>2 DEF Delivered, InOrder
<1>5. \A a \in Memory :
          /\ (\A j \in DOMAIN l : ~In(a, l[j])) => memory[a] = Nothing
          /\ \A j \in DOMAIN l : In(a, l[j]) => memory[a] = at[j] + a - l[j].addr
  BY <1>1, <1>2 DEF Arrived
<1> QED BY <1>3, <1>4, <1>5 DEF ReadsComplete

----------------------------------------------------------------------------
(* Theorems                                                                 *)

\* The invariant holds in every state.
THEOREM IInvHolds ==
    ASSUME TableHolds
    PROVE  Spec => []IInv
<1>1. IInv /\ [Next]_vars => IInv'
  BY InvStep
<1> QED BY <1>1, InvStarts, PTL DEF Spec

\* The thread finds nothing to move, whatever lists come while it runs, and
\* leaves the direction alone: when it goes on to an entry, the interrupt has
\* left nothing of it (ata.c, ata_sif_cmd_sg_transfer and sg_event).  A list
\* that fills the table has to be kept from main, or else all writes.
THEOREM ThreadIsHarmless ==
    ASSUME TableHolds
    PROVE  Spec => ThreadMovesNothing
<1>1. IInv /\ [Next]_vars =>
          [pc'["thread"] # pc["thread"] => UNCHANGED <<entry, memory, disk, dir>>]_vars
  <2>. SUFFICES ASSUME IInv, Next, pc'["thread"] # pc["thread"]
                PROVE  UNCHANGED <<entry, memory, disk, dir>>
    BY DEF vars, local
  <2>1. PICK c \in Contexts : ata_sif_cmd_sg_transfer(c)
    <3>1. ~(Announce \/ SendList \/ TakeAck \/ ata_sif_cmd_bb)
      BY DEF Announce, SendList, TakeAck, ata_sif_cmd_bb, local
    <3>2. ~ata_sif_cmd_sg
      BY DEF ata_sif_cmd_sg, IInv, TypeOK, Contexts
    <3> QED BY <3>1, <3>2 DEF Next
  <2>2. CASE c # "irq"
    <3>1. ReadIndex(c) \/ Compare(c) \/ Point(c) \/ Look(c) \/ Load(c) \/ Skip(c)
              \/ ata_sif_cmd_sg_ack(c)
      BY <2>1, <2>2, ThreadOnlyLoops
    <3> QED BY <3>1, Looped DEF ReadIndex, Point, Look, Load, Skip, ata_sif_cmd_sg_ack, dev
  <2>3. CASE c = "irq"
    <3>1. pc' = pc \/ \E place \in Places : Go("irq", place)
      BY <2>1, <2>3, Looped DEF ata_sif_cmd_sg_transfer, ReadIndex, Point, Look, Load, Skip,
         Write, ata_read_dma, Bounce, Bounced, ata_sif_cmd_sg_ack, Places
    <3>2. pc'["thread"] = pc["thread"]
      BY <3>1, Went DEF IInv, Contexts
    <3> QED BY <3>2
  <2> QED BY <2>2, <2>3
<1> QED BY <1>1, IInvHolds, PTL DEF Spec, ThreadMovesNothing

\* Then what is transferred is always an entry of the list that main sent.
THEOREM RequestedMoves ==
    ASSUME TableHolds
    PROVE  Spec => []MovesAreRequested
<1>1. IInv => MovesAreRequested
  <2>. SUFFICES ASSUME IInv, NEW c \in Contexts, pc[c] = "move" PROVE e[c] < count
    BY DEF MovesAreRequested
  <2>1. c = "irq"
    BY DEF IInv, ThreadGoesOn, Contexts
  <2> QED BY <2>1, PointedIsEntry
<1> QED BY <1>1, IInvHolds, PTL

\* Main has got, or is about to get, one acknowledgement for each list that was
\* processed, and a single one more that is the thread's, for all lists.
THEOREM AcksStayExact == Spec => []AcksAreExact
<1>1. Init => AcksCounted
  BY DEF Init, AcksCounted, AcksAreExact, Contexts
<1>2. AcksCounted /\ [Next]_vars => AcksCounted'
  <2>. SUFFICES ASSUME AcksCounted, [Next]_vars PROVE AcksCounted'
    OBVIOUS
  <2>. USE DEF AcksCounted, AcksAreExact, Contexts
  <2>1. CASE UNCHANGED vars \/ Announce \/ SendList \/ ata_sif_cmd_bb
    BY <2>1 DEF vars, local, main, Announce, SendList, ata_sif_cmd_bb
  <2>2. CASE TakeAck
    BY <2>2 DEF TakeAck, local
  <2>3. CASE ata_sif_cmd_sg
    BY <2>3 DEF ata_sif_cmd_sg, Interrupts
  <2>4. ASSUME NEW c \in Contexts, ata_sif_cmd_sg_transfer(c) PROVE AcksCounted'
    <3>1. CASE Compare(c)
      BY <3>1 DEF Compare, More, At, Go, main
    <3>2. CASE ata_sif_cmd_sg_ack(c)
      BY <3>2 DEF ata_sif_cmd_sg_ack, At, Go, main
    <3>3. CASE ReadIndex(c) \/ Point(c) \/ Look(c) \/ Load(c) \/ Skip(c) \/ Write(c)
               \/ ata_read_dma(c) \/ Bounce(c) \/ Bounced(c)
      <4>1. UNCHANGED <<acks, taken, processed>>
            /\ pc[c] \notin {"idle", "ack"}
            /\ (pc' = pc \/ \E place \in Places \ {"idle", "ack"} : Go(c, place))
        BY <3>3 DEF ReadIndex, Point, Look, Load, Skip, Write, ata_read_dma, Bounce, Bounced,
           At, main, Places
      <4> QED BY <4>1 DEF Go
    <3> QED BY <2>4, <3>1, <3>2, <3>3 DEF ata_sif_cmd_sg_transfer
  <2> QED BY <2>1, <2>2, <2>3, <2>4 DEF Next
<1>3. AcksCounted => AcksAreExact
  BY DEF AcksCounted
<1> QED BY <1>1, <1>2, <1>3, PTL DEF Spec

\* When the buffer of the IOP and those that main announces are whole alignment
\* units, as they are in ata.c and have to be in main, then so is every piece
\* but the last, and none is sent from or to beyond the end of a buffer.
THEOREM PiecesFitBuffers ==
    ASSUME TableHolds, BuffersAreWhole
    PROVE  Spec => []BounceFits
<1>1. Init => PiecesAreWhole
  BY PiecesStart
<1>2. IInv /\ PiecesAreWhole /\ [Next]_vars => PiecesAreWhole'
  BY PiecesStep
<1>3. IInv /\ PiecesAreWhole => BounceFits
  BY PiecesFit
<1> QED BY <1>1, <1>2, <1>3, IInvHolds, PTL DEF Spec

\* What is read is in main memory when it is acknowledged, each unit in its
\* place, for all lists whose entries do not overlap.
THEOREM ReadsAreComplete ==
    ASSUME TableHolds, EntriesApart
    PROVE  Spec => []ReadsComplete
<1>1. Init => Reading
  BY DEF Init, Reading, Contexts
<1>2. IInv /\ Reading /\ [Next]_vars => Reading'
  BY ReadingStep
<1> QED BY <1>1, <1>2, ReadingCompletes, IInvHolds, PTL DEF Spec
============================================================================
