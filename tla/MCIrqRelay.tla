----------------------------- MODULE MCIrqRelay -----------------------------
(* Two slots, one plain line beside DEV9, one or two SPD lines.  RPC calls   *)
(* may name each of them, a line that does not exist and one too wide for    *)
(* its field.                                                                *)
EXTENDS IrqRelayProofs

MCIntrmanLines == {13, 22}
MCSlots == {0, 1}
MCCallbacks == MCSlots \cup {SpdHandler, Foreign}

OneSpdLine == {46}
LiveRpcIrqs == MCIntrmanLines \cup OneSpdLine \cup {100, 200}
LiveRpcMaps == {1, 200}

TwoSpdLines == {46, 47}
AllRpcIrqs == {22} \cup TwoSpdLines
OneRpcMap == {1}
============================================================================
