---------------------------- MODULE MCSpdClients ----------------------------
(* Two drivers; the lines are those of ATA and of two network events.       *)
EXTENDS SpdClients, TLC

CONSTANTS ata, net

MCIntrmanLines == {13}
MCSpdLines == {46, 48, 49}
MCDrivers == {ata, net}
MCCallbacks == MCDrivers \cup {SpdHandler}

\* Each driver has lines of its own, or both ask for the same one.
OwnLines  == ata :> {46} @@ net :> {48, 49}
SameLine == ata :> {46} @@ net :> {46}
============================================================================
