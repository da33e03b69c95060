-------------------------------- MODULE Gate --------------------------------
(***************************************************************************)
(* What enforcement promises a program on this host, without the buffer,   *)
(* the daemon and the rules: a gate that sees every attempt to reach       *)
(* something.  A flow is shut only after one of its attempts was let       *)
(* through and witnessed, so the first attempt always passes; while it is  *)
(* shut every attempt is refused; and it may be forgotten, alone or, when  *)
(* the gate is reset, with all the others.  Enforcement implements it.     *)
(***************************************************************************)
CONSTANTS
    Threads, Flows,
    Idle      \* of a thread that attempts nothing; it is no record of an attempt

VARIABLES
    attempt,  \* per thread: the flow it attempts, and whether it was admitted
    shut,     \* flows whose attempts are refused
    witnessed \* flows of which an attempt was admitted and seen

gate == <<attempt, shut, witnessed>>

GateInit == attempt = [t \in Threads |-> Idle] /\ shut = {} /\ witnessed = {}

Attempt(t, flow) ==
    /\ attempt[t] = Idle
    /\ attempt' = [attempt EXCEPT ![t] = [flow |-> flow, at |-> "asked"]]
    /\ UNCHANGED <<shut, witnessed>>

Refuse(t) ==
    /\ attempt[t] # Idle /\ attempt[t].at = "asked" /\ attempt[t].flow \in shut
    /\ attempt' = [attempt EXCEPT ![t] = Idle]
    /\ UNCHANGED <<shut, witnessed>>

Admit(t) ==
    /\ attempt[t] # Idle /\ attempt[t].at = "asked" /\ attempt[t].flow \notin shut
    /\ attempt' = [attempt EXCEPT ![t].at = "admitted"]
    /\ UNCHANGED <<shut, witnessed>>

\* An admitted attempt is seen; it may also end without.
Witness(t) ==
    /\ attempt[t] # Idle /\ attempt[t].at = "admitted"
    /\ witnessed' = witnessed \cup {attempt[t].flow}
    /\ UNCHANGED <<attempt, shut>>

Pass(t) ==
    /\ attempt[t] # Idle /\ attempt[t].at = "admitted"
    /\ attempt' = [attempt EXCEPT ![t] = Idle]
    /\ UNCHANGED <<shut, witnessed>>

\* A flow is shut, and others may be forgotten for it.
Shut(flow) ==
    /\ flow \in witnessed
    /\ \E kept \in SUBSET shut : shut' = kept \cup {flow}
    /\ UNCHANGED <<attempt, witnessed>>

Reset ==
    /\ attempt' = [t \in Threads |-> Idle]
    /\ shut' = {} /\ witnessed' = {}

GateNext ==
    \/ \E t \in Threads : \/ \E flow \in Flows : Attempt(t, flow)
                          \/ Refuse(t) \/ Admit(t) \/ Witness(t) \/ Pass(t)
    \/ \E flow \in Flows : Shut(flow)
    \/ Reset

GateSpec == GateInit /\ [][GateNext]_gate
=============================================================================
