------------------------------- MODULE MCAta -------------------------------
(* A buffer of four units, alignment to two, bounce buffers of two and four *)
(* units; lists with entries shorter than, equal to and longer than the     *)
(* buffers, an empty entry, an empty list, a list of whole alignment units, *)
(* a list that fills the table of three entries, and writes.                *)
EXTENDS Ata

E(a, n) == [addr |-> a, size |-> n]
Reads(l) == [write |-> FALSE, entry |-> l]
Writes(l) == [write |-> TRUE, entry |-> l]

MCMemory == 0 .. 11
MCBounceSizes == {2, 4}
MCLists == {Reads(<<E(0, 6), E(7, 3)>>), Reads(<<E(8, 2), E(3, 0), E(1, 5)>>),
            Reads(<<>>), Reads(<<E(0, 6), E(8, 2)>>), Writes(<<E(0, 5), E(6, 1)>>)}
MCFullLists == {Reads(<<E(0, 6), E(7, 3)>>), Writes(<<E(0, 5), E(6, 1)>>)}

Fills(l) == Len(l.entry) = MaxSg

\* No list that fills the table is sent before or after one that writes.
KindsApart ==
    current # NoMail => /\ ~(Fills(current) /\ mail'.write)
                        /\ ~(Fills(mail') /\ current.write)

MCNext ==
    \/ SendList /\ KindsApart
    \/ Announce \/ TakeAck
    \/ ata_sif_cmd_bb \/ ata_sif_cmd_sg
    \/ \E c \in Contexts : ata_sif_cmd_sg_transfer(c)

MCSpec == Init /\ [][MCNext]_vars /\ Fairness
============================================================================
