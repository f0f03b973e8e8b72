------------------------------ MODULE MCSifCmd ------------------------------
(* Two threads and the interrupt context over a queue of two transfers;      *)
(* lengths on either side of the largest payload.                            *)
EXTENDS SifCmd

CONSTANTS t1, t2

MCThreads == {t1, t2}
MCIds == {1, 2}
MCSizes == {95, 96}
============================================================================
