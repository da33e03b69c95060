----------------------------- MODULE GateProofs -----------------------------
(***************************************************************************)
(* Enforcement implements Gate, for any number of threads, processes and   *)
(* programs, any rules, and any sizes of the ring buffer and the cache.    *)
(***************************************************************************)
EXTENDS EnforcementProofs

---------------------------------------------------------------------------
(* The hooks                                                               *)

\* What a program sees of a hook in state h on behalf of thread t.
Seen(t, h) == IF h = Idle \/ h.dst \in Unwatched THEN Idle
              ELSE [flow |-> FlowKey(PidOf[t], h.dst),
                    at |-> IF h.at = "called" THEN "asked" ELSE "admitted"]

\* A step of one hook is a step of one attempt.
LEMMA AttemptOf ==
    ASSUME TypeOK, NEW t \in Threads, NEW h, hook' = [hook EXCEPT ![t] = h]
    PROVE  /\ Attempts[t] = Seen(t, hook[t])
           /\ Attempts' = [Attempts EXCEPT ![t] = Seen(t, h)]
<1>1. \A s \in Threads : hook'[s] = IF s = t THEN h ELSE hook[s]
  BY DEF TypeOK
<1>2. Attempts[t] = Seen(t, hook[t])
  BY DEF Attempts, Seen, KeyOf
<1>3. \A s \in Threads : Attempts'[s] = IF s = t THEN Seen(t, h) ELSE Attempts[s]
  BY <1>1 DEF Attempts, Seen, KeyOf
<1>4. Attempts' = [s \in Threads |-> Attempts'[s]] /\ Attempts = [s \in Threads |-> Attempts[s]]
  BY DEF Attempts
<1> QED BY <1>2, <1>3, <1>4

\* A step that leaves hooks, cache and reports alone is none of the gate's.
LEMMA GateUnmoved ==
    ASSUME UNCHANGED <<hook, VERDICT_CACHE, reported>>
    PROVE  UNCHANGED TheGate!gate
  BY DEF TheGate!gate, Attempts, Witnessed, KeyOf

\* A call that the hooks watch is an attempt at its flow.
LEMMA GateCall ==
    ASSUME TypeOK, NEW t \in Threads, NEW d \in Dsts, Call(t, d)
    PROVE  [TheGate!GateNext]_(TheGate!gate)
<1> DEFINE h == [at |-> "called", id |-> calls', dst |-> d,
                 doomed |-> FlowKey(PidOf[t], d) \in Enforced]
<1>1. hook' = [hook EXCEPT ![t] = h] /\ hook[t] = Idle
  BY DEF Call
<1>2. UNCHANGED <<VERDICT_CACHE, reported>>
  BY DEF Call
<1>3. h # Idle /\ h.dst = d /\ h.at = "called"
  BY DEF Idle
<1> HIDE DEF h
<1>4. /\ Attempts[t] = Seen(t, hook[t])
      /\ Attempts' = [Attempts EXCEPT ![t] = Seen(t, h)]
  BY <1>1, AttemptOf
<1>5. Attempts[t] = Idle
  BY <1>1, <1>4 DEF Seen
<1>6. UNCHANGED Witnessed
  BY <1>2 DEF Witnessed
<1>7. CASE d \in Unwatched
  <2>1. Attempts' = [Attempts EXCEPT ![t] = Idle]
    BY <1>3, <1>4, <1>7 DEF Seen
  <2>2. UNCHANGED Attempts
    BY <1>5, <2>1 DEF Attempts
  <2> QED BY <1>2, <1>6, <2>2 DEF TheGate!gate
<1>8. CASE d \notin Unwatched
  <2>1. Seen(t, h) = [flow |-> FlowKey(PidOf[t], d), at |-> "asked"]
    BY <1>3, <1>8 DEF Seen
  <2>2. FlowKey(PidOf[t], d) \in Keys
    BY ThreadsAssumption DEF Keys
  <2>3. TheGate!Attempt(t, FlowKey(PidOf[t], d))
    BY <1>2, <1>4, <1>5, <1>6, <2>1 DEF TheGate!Attempt
  <2> QED BY <2>2, <2>3 DEF TheGate!GateNext
<1> QED BY <1>7, <1>8

\* A hook that ignores, refuses, admits, reports or lets go.
LEMMA GateHook ==
    ASSUME TypeOK, SkipsUnwatched, NEW t \in Threads, Hook(t)
    PROVE  [TheGate!GateNext]_(TheGate!gate)
<1>1. hook[t].at \in {"called", "missed", "reserved"} /\ hook[t] # Idle
  BY NotIdle DEF Hook, Ignore, Block, Miss, Reserve, ReserveFails, Submit
<1>2. /\ hook[t] \in [at : {"called", "missed", "reserved"},
                      id : 1 .. MaxCalls, dst : Dsts, doomed : BOOLEAN]
      /\ KeyOf(t) \in Keys
  BY <1>1, HookFields
<1>3. UNCHANGED VERDICT_CACHE
  BY DEF Hook, Ignore, Block, Miss, Reserve, ReserveFails, Submit
<1>4. Attempts[t] = Seen(t, hook[t])
  BY DEF Attempts, Seen, KeyOf
<1>5. ASSUME NEW w, Return(t, w)
      PROVE  Attempts' = [Attempts EXCEPT ![t] = Idle]
  <2>1. Attempts' = [Attempts EXCEPT ![t] = Seen(t, Idle)]
    BY <1>5, AttemptOf DEF Return
  <2> QED BY <2>1 DEF Seen
<1>6. ASSUME NEW a \in {"missed", "reserved"}, hook' = [hook EXCEPT ![t].at = a]
      PROVE  /\ hook[t].dst \in Unwatched => UNCHANGED Attempts
             /\ hook[t].dst \notin Unwatched =>
                   Attempts' = [Attempts EXCEPT ![t] = [flow |-> KeyOf(t), at |-> "admitted"]]
  <2> DEFINE h == [hook[t] EXCEPT !.at = a]
  <2>1. h.dst = hook[t].dst /\ h.at = a /\ h # Idle
    BY <1>2, <1>6 DEF Idle
  <2>2. hook' = [hook EXCEPT ![t] = h]
    BY <1>6 DEF TypeOK
  <2> HIDE DEF h
  <2>3. Attempts' = [Attempts EXCEPT ![t] = Seen(t, h)]
    BY <2>2, AttemptOf
  <2>4. CASE hook[t].dst \in Unwatched
    <3>1. Seen(t, h) = Idle /\ Attempts[t] = Idle
      BY <1>4, <2>1, <2>4 DEF Seen
    <3> QED BY <2>3, <2>4, <3>1 DEF Attempts
  <2>5. CASE hook[t].dst \notin Unwatched
    <3>1. Seen(t, h) = [flow |-> KeyOf(t), at |-> "admitted"]
      BY <1>6, <2>1, <2>5 DEF Seen, KeyOf
    <3> QED BY <2>3, <2>5, <3>1
  <2> QED BY <2>4, <2>5
<1>7. hook[t].dst \notin Unwatched =>
         /\ Attempts[t] = [flow |-> KeyOf(t),
                           at |-> IF hook[t].at = "called" THEN "asked" ELSE "admitted"]
         /\ Attempts[t] # Idle
  BY <1>1, <1>4 DEF Seen, KeyOf, Idle
<1>8. hook[t].dst \in Unwatched => Attempts[t] = Idle
  BY <1>4 DEF Seen
<1>9. ASSUME NEW w, Return(t, w), hook[t].dst \in Unwatched
      PROVE  UNCHANGED Attempts
  BY <1>5, <1>8, <1>9 DEF Attempts
<1>10. reported' = reported => UNCHANGED Witnessed
  BY DEF Witnessed
<1>11. CASE Ignore(t)
  <2>1. UNCHANGED Attempts
    BY <1>9, <1>11 DEF Ignore
  <2> QED BY <1>3, <1>10, <1>11, <2>1 DEF Ignore, TheGate!gate
<1>12. CASE Block(t)
  <2>1. Attempts' = [Attempts EXCEPT ![t] = Idle]
    BY <1>5, <1>12 DEF Block
  <2>2. TheGate!Refuse(t)
    BY <1>3, <1>7, <1>10, <1>12, <2>1 DEF Block, TheGate!Refuse
  <2> QED BY <2>2 DEF TheGate!GateNext
<1>13. CASE Miss(t)
  <2>1. Attempts' = [Attempts EXCEPT ![t] = [flow |-> KeyOf(t), at |-> "admitted"]]
    BY <1>6, <1>13 DEF Miss
  <2>2. /\ Attempts[t] = [flow |-> KeyOf(t), at |-> "asked"]
        /\ Attempts[t] # Idle
    BY <1>7, <1>13 DEF Miss
  <2>3. [Attempts[t] EXCEPT !.at = "admitted"] = [flow |-> KeyOf(t), at |-> "admitted"]
    BY <2>2
  <2>4. Attempts' = [Attempts EXCEPT ![t].at = "admitted"]
    BY <2>1, <2>3
  <2>5. TheGate!Admit(t)
    BY <1>3, <1>10, <1>13, <2>2, <2>4 DEF Miss, TheGate!Admit
  <2> QED BY <2>5 DEF TheGate!GateNext
<1>14. hook[t].at # "called" =>
          /\ hook[t].dst \notin Unwatched
          /\ Attempts[t] = [flow |-> KeyOf(t), at |-> "admitted"] /\ Attempts[t] # Idle
  BY <1>1, <1>7 DEF SkipsUnwatched
<1>15. CASE ReserveFails(t) \/ Submit(t)
  <2>1. Attempts' = [Attempts EXCEPT ![t] = Idle]
    BY <1>5, <1>15 DEF ReserveFails, Submit
  <2>2. hook[t].at # "called" /\ UNCHANGED reported
    BY <1>15 DEF ReserveFails, Submit
  <2>3. TheGate!Pass(t)
    BY <1>3, <1>10, <1>14, <2>1, <2>2 DEF TheGate!Pass
  <2> QED BY <2>3 DEF TheGate!GateNext
<1>16. CASE Reserve(t)
  <2>1. hook[t].at # "called" /\ hook' = [hook EXCEPT ![t].at = "reserved"]
    BY <1>16 DEF Reserve
  <2>2. Attempts' = [Attempts EXCEPT ![t] = [flow |-> KeyOf(t), at |-> "admitted"]]
    BY <1>6, <1>14, <2>1
  <2>3. UNCHANGED Attempts
    BY <1>14, <2>1, <2>2 DEF Attempts
  <2>4. Witnessed' = Witnessed \cup {KeyOf(t)}
    <3> DEFINE e == ConnectEvent(hook[t].id, PidOf[t], hook[t].dst, program[PidOf[t]])
    <3>1. reported' = Append(reported, e)
      BY <1>16 DEF Reserve
    <3>2. common_flow_key(e) = KeyOf(t)
      BY DEF common_flow_key, ConnectEvent, KeyOf, FlowKey
    <3> HIDE DEF e
    <3>3. reported \in Seq(Records)
      BY DEF TypeOK
    <3>4. /\ Len(reported) \in Nat /\ Len(reported') = Len(reported) + 1
          /\ reported'[Len(reported) + 1] = e
          /\ \A i \in 1 .. Len(reported) : reported'[i] = reported[i]
      BY <3>1, <3>3
    <3> DEFINE n == Len(reported)
    <3>5. 1 .. Len(reported') = (1 .. n) \cup {n + 1}
      BY <3>4
    <3>6. Witnessed' = {common_flow_key(reported'[i]) : i \in (1 .. n) \cup {n + 1}}
      BY <3>5 DEF Witnessed, common_flow_key
    <3>7. Witnessed = {common_flow_key(reported[i]) : i \in 1 .. n}
      BY DEF Witnessed
    <3> HIDE DEF n
    <3>8. common_flow_key(reported'[n + 1]) = KeyOf(t)
      BY <3>2, <3>4 DEF n
    <3>9. \A i \in 1 .. n : reported'[i] = reported[i]
      BY <3>4 DEF n
    <3> QED BY <3>6, <3>7, <3>8, <3>9
  <2>5. TheGate!Witness(t)
    BY <1>3, <1>14, <2>1, <2>3, <2>4 DEF TheGate!Witness
  <2> QED BY <2>5 DEF TheGate!GateNext
<1> QED BY <1>11, <1>12, <1>13, <1>15, <1>16 DEF Hook

---------------------------------------------------------------------------
(* The daemon                                                              *)

\* A denial shuts a flow that was reported; what insertion drops is forgotten.
LEMMA GateHandle ==
    ASSUME TypeOK, EvaluatedOnce, Handle
    PROVE  [TheGate!GateNext]_(TheGate!gate)
<1> DEFINE e == Head(EVENTS).event
           key == common_flow_key(e)
           denied == <<ExeOf(e.pid), e.dst>> \in rule_set
<1>1. /\ EVENTS # <<>> /\ main = "drain" /\ UNCHANGED reported
      /\ IF denied THEN CacheInsert(key) ELSE UNCHANGED <<VERDICT_CACHE, lost>>
      /\ Unbind(lost')
  BY DEF Handle, Readable
<1>2. key \in Keys
  BY <1>1, HeadRecord, KeyTyped
<1>3. UNCHANGED Witnessed
  BY <1>1 DEF Witnessed
<1>4. UNCHANGED Attempts
  <2>1. ASSUME NEW t \in Threads PROVE Attempts'[t] = Attempts[t]
    <3>1. hook'[t] = IF hook[t] # Idle /\ KeyOf(t) \in lost'
                     THEN [hook[t] EXCEPT !.doomed = FALSE] ELSE hook[t]
      BY <1>1 DEF Unbind
    <3>2. Attempts'[t] = Seen(t, hook'[t]) /\ Attempts[t] = Seen(t, hook[t])
      BY DEF Attempts, Seen, KeyOf
    <3>3. CASE hook[t] # Idle /\ KeyOf(t) \in lost'
      <4>1. hook[t] \in [at : {"called", "missed", "reserved"},
                         id : 1 .. MaxCalls, dst : Dsts, doomed : BOOLEAN]
        BY <3>3, HookFields
      <4>2. hook'[t].dst = hook[t].dst /\ hook'[t].at = hook[t].at
        BY <3>1, <3>3, <4>1
      <4>3. hook'[t].at \in {"called", "missed", "reserved"}
        BY <4>1, <4>2
      <4>4. hook'[t] \in [at : {"called", "missed", "reserved"},
                          id : 1 .. MaxCalls, dst : Dsts, doomed : BOOLEAN]
        BY <3>1, <3>3, <4>1
      <4>5. hook'[t] # Idle
        BY <4>4 DEF Idle
      <4> QED BY <3>2, <3>3, <4>2, <4>5 DEF Seen
    <3>4. CASE ~(hook[t] # Idle /\ KeyOf(t) \in lost')
      BY <3>1, <3>2, <3>4
    <3> QED BY <3>3, <3>4
  <2> QED BY <2>1 DEF Attempts
<1>5. key \in Witnessed
  <2>1. EVENTS \in Seq(Slots) /\ reported \in Seq(Records) /\ log \in Seq(Logged)
    BY DEF TypeOK
  <2>2. Len(EVENTS) \in Nat \ {0} /\ Len(log) \in Nat /\ Len(reported) \in Nat
    BY <1>1, <2>1
  <2>3. Len(reported) = Len(log) + Len(EVENTS)
    BY <1>1, <2>2 DEF EvaluatedOnce
  <2> DEFINE i == Len(reported) - Len(EVENTS) + 1
  <2>4. i \in 1 .. Len(reported) /\ 1 \in 1 .. Len(EVENTS)
    BY <2>2, <2>3
  <2>5. EVENTS[1].event = reported[i]
    BY <2>4 DEF EvaluatedOnce
  <2>6. e = reported[i]
    BY <1>1, <2>5, HeadRecord
  <2> HIDE DEF i, e
  <2> QED BY <2>4, <2>6 DEF Witnessed
<1> HIDE DEF e, key
<1>6. CASE VERDICT_CACHE' = VERDICT_CACHE
  BY <1>3, <1>4, <1>6 DEF TheGate!gate
<1>7. CASE VERDICT_CACHE' # VERDICT_CACHE
  <2>1. CacheInsert(key)
    BY <1>1, <1>7
  <2>2. \E kept \in SUBSET VERDICT_CACHE : VERDICT_CACHE' = kept \cup {key}
    <3>1. \E old : VERDICT_CACHE' = (VERDICT_CACHE \ old) \cup {key}
      BY <1>7, <2>1 DEF CacheInsert
    <3> QED BY <3>1
  <2>3. TheGate!Shut(key)
    BY <1>3, <1>4, <1>5, <2>2 DEF TheGate!Shut
  <2> QED BY <1>2, <2>3 DEF TheGate!GateNext
<1> QED BY <1>6, <1>7

\* When the daemon dies the gate is reset.
LEMMA GateCrash ==
    ASSUME Crash PROVE [TheGate!GateNext]_(TheGate!gate)
<1>1. /\ hook' = [t \in Threads |-> Idle]
      /\ VERDICT_CACHE' = {} /\ reported' = <<>>
  BY DEF Crash
<1>2. Attempts' = [t \in Threads |-> Idle]
  BY <1>1 DEF Attempts
<1>3. Witnessed' = {}
  BY <1>1 DEF Witnessed
<1>4. TheGate!Reset
  BY <1>1, <1>2, <1>3 DEF TheGate!Reset
<1> QED BY <1>4 DEF TheGate!GateNext

---------------------------------------------------------------------------
(* The refinement                                                          *)

\* The daemon starts as a gate that has shut nothing.
LEMMA GateStart == Init => TheGate!GateInit
<1> SUFFICES ASSUME Init PROVE TheGate!GateInit
  OBVIOUS
<1>1. hook = [t \in Threads |-> Idle] /\ VERDICT_CACHE = {} /\ reported = <<>>
  BY DEF Init
<1>2. Attempts = [t \in Threads |-> Idle]
  BY <1>1 DEF Attempts
<1>3. Witnessed = {}
  BY <1>1 DEF Witnessed
<1> QED BY <1>1, <1>2, <1>3 DEF TheGate!GateInit

\* Every step is one of the gate's, or leaves it as it is.
LEMMA GateStep == IInv /\ [Next]_vars => [TheGate!GateNext]_(TheGate!gate)
<1> SUFFICES ASSUME IInv, [Next]_vars PROVE [TheGate!GateNext]_(TheGate!gate)
  OBVIOUS
<1>1. TypeOK /\ EvaluatedOnce /\ SkipsUnwatched
  BY DEF IInv
<1>2. CASE \E t \in Threads, d \in Dsts : Call(t, d)
  BY <1>1, <1>2, GateCall
<1>3. CASE \E t \in Threads : Hook(t)
  BY <1>1, <1>3, GateHook
<1>4. CASE Handle
  BY <1>1, <1>4, GateHandle
<1>5. CASE Crash
  BY <1>5, GateCrash
<1>6. CASE Startup \/ TurnDriver \/ StartDrain \/ Release \/ DrainEnds \/ ClearReady
           \/ Restart \/ (\E r \in RuleSets : SwapRules(r)) \/ UNCHANGED vars
           \/ (\E p \in Pids, g \in Programs \cup {NoProgram} : Exec(p, g))
  <2>1. UNCHANGED <<hook, VERDICT_CACHE, reported>>
    BY <1>6 DEF Startup, Backfill, Boot, TurnDriver, StartDrain, Release, DrainEnds,
        ClearReady, Restart, SwapRules, Exec, kernelVars, daemonVars, vars
  <2> QED BY <2>1, GateUnmoved
<1> QED
  BY <1>2, <1>3, <1>4, <1>5, <1>6 DEF Next, Drain

\* Hooks, ring buffer and daemon together are a gate: they shut a flow only
\* after an attempt at it was let through and reported, refuse it while it is
\* shut, and forget it only when the cache makes room or the daemon dies.
THEOREM EnforcementIsAGate == Spec => ImplementsGate
<1>1. IInv /\ [Next]_vars => [TheGate!GateNext]_(TheGate!gate)
  BY GateStep
<1> QED BY <1>1, GateStart, Invariant, PTL DEF Spec, ImplementsGate, TheGate!GateSpec
=============================================================================
