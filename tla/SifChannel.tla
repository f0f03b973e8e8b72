----------------------------- MODULE SifChannel -----------------------------
(***************************************************************************)
(* What sif_cmd_opt_data (builtin/sif.c) promises its callers, whatever     *)
(* context they are in: the command reaches the main processor exactly      *)
(* once, as it was when the call was made, before the call returns; a       *)
(* payload that is too large is refused and never sent.                     *)
(***************************************************************************)
EXTENDS Naturals

CONSTANTS
    Contexts,   \* threads, and the interrupt context
    Commands,   \* what may be sent
    None        \* no command

VARIABLES
    call,       \* the command each context is sending, or None
    arrived,    \* contexts whose command main has received
    received    \* the command main received last, or None

chanVars == <<call, arrived, received>>

Init ==
    /\ call = [c \in Contexts |-> None]
    /\ arrived = {}
    /\ received = None

Begin(c) ==
    /\ call[c] = None
    /\ \E m \in Commands : call' = [call EXCEPT ![c] = m]
    /\ UNCHANGED <<arrived, received>>

Receive(c) ==
    /\ call[c] # None /\ c \notin arrived
    /\ received' = call[c]
    /\ arrived' = arrived \cup {c}
    /\ UNCHANGED call

Return(c) ==
    /\ c \in arrived
    /\ call' = [call EXCEPT ![c] = None]
    /\ arrived' = arrived \ {c}
    /\ UNCHANGED received

Next == \E c \in Contexts : Begin(c) \/ Receive(c) \/ Return(c)

\* Every command is received and every call returns.
Fairness == \A c \in Contexts : WF_chanVars(Receive(c)) /\ WF_chanVars(Return(c))

Spec == Init /\ [][Next]_chanVars

LiveSpec == Spec /\ Fairness
============================================================================
