-------------------------- MODULE EnforcementProofs --------------------------
(***************************************************************************)
(* Proofs about Enforcement, for any number of threads, processes and      *)
(* programs, any rules, and any sizes of the ring buffer and the cache.    *)
(***************************************************************************)
EXTENDS Enforcement, TLAPS

---------------------------------------------------------------------------
(* Types                                                                   *)

\* A hook that is called, past the lookup or past the reservation is not idle,
\* and what it works on has the right types.
LEMMA HookFields ==
    ASSUME TypeOK, NEW t \in Threads, hook[t] # Idle
    PROVE  /\ hook[t] \in [at : {"called", "missed", "reserved"},
                           id : 1 .. MaxCalls, dst : Dsts, doomed : BOOLEAN]
           /\ PidOf[t] \in Pids /\ KeyOf(t) \in Keys
<1>1. hook[t] \in HookStates
  BY DEF TypeOK
<1>2. hook[t] \in [at : {"called", "missed", "reserved"},
                   id : 1 .. MaxCalls, dst : Dsts, doomed : BOOLEAN]
  BY <1>1 DEF HookStates
<1>3. PidOf[t] \in Pids
  BY ThreadsAssumption
<1>4. KeyOf(t) \in Keys
  BY <1>2, <1>3 DEF KeyOf, Keys
<1> QED BY <1>2, <1>3, <1>4

\* A hook that is somewhere in its work is not idle.
LEMMA NotIdle ==
    \A t : hook[t].at \in {"called", "missed", "reserved"} => hook[t] # Idle
  BY DEF Idle

\* The state of a thread outside the hooks.
LEMMA IdleTyped == Idle \in HookStates
  BY DEF HookStates

\* A hook that returns leaves types in order.
LEMMA ReturnTyped ==
    ASSUME TypeOK, NEW t \in Threads, hook[t] # Idle,
           NEW w \in {"ignored", "blocked", "unlogged", "passed"}, Return(t, w)
    PROVE  /\ hook' \in [Threads -> HookStates]
           /\ fate' \in [1 .. MaxCalls ->
                 {"none", "open", "ignored", "blocked", "unlogged", "passed"}]
<1>1. hook' \in [Threads -> HookStates]
  BY IdleTyped DEF Return, TypeOK
<1>2. fate' \in [1 .. MaxCalls ->
                 {"none", "open", "ignored", "blocked", "unlogged", "passed"}]
  BY DEF Return, TypeOK
<1> QED BY <1>1, <1>2

\* The initial states have the right types.
LEMMA TypeInit == Init => TypeOK
<1> SUFFICES ASSUME Init PROVE TypeOK
  OBVIOUS
<1>1. hook \in [Threads -> HookStates]
  BY IdleTyped DEF Init
<1>2. EVENTS \in Seq(Slots) /\ reported \in Seq(Records) /\ log \in Seq(Logged)
  BY DEF Init
<1>3. /\ DOMAIN exe_paths \subseteq Pids
      /\ exe_paths \in [DOMAIN exe_paths -> Programs \cup {NoProgram}]
  <2>1. exe_paths = <<>>
    BY DEF Init
  <2> QED BY <2>1
<1>4. ev_edge \in BOOLEAN /\ ev_ready \in BOOLEAN
  BY DEF Init
<1>5. /\ calls \in 0 .. MaxCalls /\ execs \in 0 .. MaxExecs
      /\ swaps \in 0 .. MaxSwaps /\ crashes \in 0 .. MaxCrashes
  BY LimitsAssumption DEF Init
<1>6. /\ program \in [Pids -> Programs \cup {NoProgram}]
      /\ main = "boot" /\ rule_set \in RuleSets
      /\ VERDICT_CACHE = {} /\ lost = {}
  BY LimitsAssumption DEF Init
<1>7. fate \in [1 .. MaxCalls ->
                 {"none", "open", "ignored", "blocked", "unlogged", "passed"}]
  BY DEF Init
<1> QED
  BY <1>1, <1>2, <1>3, <1>4, <1>5, <1>6, <1>7 DEF TypeOK

\* The key and the path of a record.
LEMMA KeyTyped == \A e \in Records : e.pid \in Pids /\ common_flow_key(e) \in Keys
  BY DEF Records, ConnectEvent, common_flow_key, Keys, FlowKey

\* lookup_exe returns a path or none.
LEMMA ExeTyped ==
    ASSUME TypeOK, NEW p \in Pids
    PROVE  ExeOf(p) \in Programs \cup {NoProgram}
  BY DEF TypeOK, ExeOf

\* Calls by a thread.
LEMMA TypeCalls ==
    ASSUME TypeOK, NEW t \in Threads, NEW d \in Dsts, Call(t, d) PROVE TypeOK'
<1> DEFINE h == [at |-> "called", id |-> calls', dst |-> d,
                 doomed |-> FlowKey(PidOf[t], d) \in Enforced]
<1>1. calls' \in 1 .. MaxCalls
  BY LimitsAssumption DEF Call, TypeOK
<1>2. h \in HookStates
  BY <1>1 DEF HookStates
<1>3. hook' \in [Threads -> HookStates]
  BY <1>2 DEF Call, TypeOK
<1>4. fate' \in [1 .. MaxCalls ->
                 {"none", "open", "ignored", "blocked", "unlogged", "passed"}]
  BY <1>1 DEF Call, TypeOK
<1> QED
  BY <1>1, <1>3, <1>4 DEF Call, TypeOK, daemonVars

\* Steps of a hook.
LEMMA TypeHook ==
    ASSUME TypeOK, NEW t \in Threads, Hook(t) PROVE TypeOK'
<1>1. CASE Ignore(t)
  <2>1. hook[t] # Idle
    BY <1>1, NotIdle DEF Ignore
  <2> QED BY <1>1, <2>1, ReturnTyped DEF Ignore, TypeOK, daemonVars
<1>2. CASE Block(t)
  <2>1. hook[t] # Idle
    BY <1>2, NotIdle DEF Block
  <2> QED BY <1>2, <2>1, ReturnTyped DEF Block, TypeOK, daemonVars
<1>3. CASE Miss(t)
  <2>1. hook[t] # Idle
    BY <1>3, NotIdle DEF Miss
  <2>2. [hook[t] EXCEPT !.at = "missed"] \in HookStates
    BY <2>1, HookFields DEF HookStates
  <2>3. hook' \in [Threads -> HookStates]
    BY <1>3, <2>2 DEF Miss, TypeOK
  <2> QED BY <1>3, <2>3 DEF Miss, TypeOK, daemonVars
<1>4. CASE Reserve(t)
  <2>1. hook[t] # Idle
    BY <1>4, NotIdle DEF Reserve
  <2>2. [hook[t] EXCEPT !.at = "reserved"] \in HookStates
    BY <2>1, HookFields DEF HookStates
  <2>3. hook' \in [Threads -> HookStates]
    BY <1>4, <2>2 DEF Reserve, TypeOK
  <2> DEFINE e == ConnectEvent(hook[t].id, PidOf[t], hook[t].dst, program[PidOf[t]])
  <2>4. e \in Records
    <3>1. hook[t].id \in 1 .. MaxCalls /\ hook[t].dst \in Dsts
      BY <2>1, HookFields
    <3>2. PidOf[t] \in Pids /\ program[PidOf[t]] \in Programs \cup {NoProgram}
      BY ThreadsAssumption DEF TypeOK
    <3> QED BY <3>1, <3>2 DEF Records
  <2>5. [event |-> e, busy |-> TRUE] \in Slots
    BY <2>4 DEF Slots
  <2>6. EVENTS' = Append(EVENTS, [event |-> e, busy |-> TRUE])
        /\ reported' = Append(reported, e)
    BY <1>4 DEF Reserve
  <2> HIDE DEF e
  <2>7. EVENTS' \in Seq(Slots) /\ reported' \in Seq(Records)
    BY <2>4, <2>5, <2>6 DEF TypeOK
  <2> QED BY <1>4, <2>3, <2>7 DEF Reserve, TypeOK, daemonVars
<1>5. CASE ReserveFails(t)
  <2>1. hook[t] # Idle
    BY <1>5, NotIdle DEF ReserveFails
  <2> QED BY <1>5, <2>1, ReturnTyped DEF ReserveFails, TypeOK, daemonVars
<1>6. CASE Submit(t)
  <2>1. hook[t] # Idle
    BY <1>6, NotIdle DEF Submit
  <2>2. PICK i \in 1 .. Len(EVENTS) :
            EVENTS' = [EVENTS EXCEPT ![i].busy = FALSE] /\ ev_edge' = (ev_edge \/ i = 1)
    BY <1>6 DEF Submit
  <2>3. [EVENTS[i] EXCEPT !.busy = FALSE] \in Slots
    <3>1. EVENTS \in Seq(Slots)
      BY DEF TypeOK
    <3>2. EVENTS[i] \in Slots
      BY <3>1
    <3> QED BY <3>2 DEF Slots
  <2>4. EVENTS' \in Seq(Slots)
    <3>1. EVENTS \in Seq(Slots)
      BY DEF TypeOK
    <3>2. EVENTS' = [EVENTS EXCEPT ![i] = [EVENTS[i] EXCEPT !.busy = FALSE]]
      BY <2>2
    <3> QED BY <2>3, <3>1, <3>2
  <2>5. ev_edge' \in BOOLEAN
    BY <2>2
  <2>6. Return(t, "passed")
    BY <1>6 DEF Submit
  <2>7. UNCHANGED <<program, ev_ready, daemonVars, VERDICT_CACHE, calls, execs,
                    reported, lost>>
    BY <1>6 DEF Submit
  <2> QED BY <2>1, <2>4, <2>5, <2>6, <2>7, ReturnTyped DEF TypeOK, daemonVars
<1> QED
  BY <1>1, <1>2, <1>3, <1>4, <1>5, <1>6 DEF Hook

\* Insertion into the cache, and the hooks it unbinds.
LEMMA CacheTyped ==
    ASSUME TypeOK, NEW key \in Keys, CacheInsert(key)
    PROVE  VERDICT_CACHE' \in SUBSET Keys /\ lost' \in SUBSET Keys
  BY DEF CacheInsert, TypeOK

\* Calls that are no longer bound to be blocked stay well typed.
LEMMA UnbindTyped ==
    ASSUME TypeOK, NEW dropped, Unbind(dropped)
    PROVE  hook' \in [Threads -> HookStates]
<1>1. ASSUME NEW t \in Threads, hook[t] # Idle
      PROVE  [hook[t] EXCEPT !.doomed = FALSE] \in HookStates
  BY <1>1, HookFields DEF HookStates
<1>2. \A t \in Threads : hook[t] \in HookStates
  BY DEF TypeOK
<1> QED
  BY <1>1, <1>2 DEF Unbind

\* The record the drain works on.
LEMMA HeadRecord ==
    ASSUME TypeOK, EVENTS # <<>>
    PROVE  Head(EVENTS) = EVENTS[1] /\ Head(EVENTS) \in Slots
           /\ Head(EVENTS).event \in Records
<1>1. EVENTS \in Seq(Slots)
  BY DEF TypeOK
<1>2. Head(EVENTS) = EVENTS[1] /\ Head(EVENTS) \in Slots
  BY <1>1
<1> QED BY <1>2 DEF Slots

\* Evaluating a record leaves types in order.
LEMMA TypeHandle == ASSUME TypeOK, Handle PROVE TypeOK'
<1> DEFINE e == Head(EVENTS).event
           exe == ExeOf(e.pid)
           denied == <<exe, e.dst>> \in rule_set
           entry == [event |-> e, exe |-> exe,
                     verdict |-> IF denied THEN "deny" ELSE "allow"]
<1>1. e \in Records /\ e.pid \in Pids /\ common_flow_key(e) \in Keys
  BY HeadRecord, KeyTyped DEF Handle, Readable
<1>2. exe \in Programs \cup {NoProgram}
  BY <1>1, ExeTyped
<1>3. /\ log' = Append(log, entry) /\ RememberExe(e.pid)
      /\ IF denied THEN CacheInsert(common_flow_key(e))
                   ELSE UNCHANGED <<VERDICT_CACHE, lost>>
      /\ Unbind(lost')
  BY DEF Handle
<1>4. entry \in Logged
  BY <1>1, <1>2 DEF Logged
<1> HIDE DEF entry, denied, exe, e
<1>5. log' \in Seq(Logged)
  BY <1>3, <1>4 DEF TypeOK
<1>6. VERDICT_CACHE' \in SUBSET Keys /\ lost' \in SUBSET Keys
  <2>1. CASE denied
    BY <1>1, <1>3, <2>1, CacheTyped
  <2>2. CASE ~denied
    BY <1>3, <2>2 DEF TypeOK
  <2> QED BY <2>1, <2>2
<1>7. /\ DOMAIN exe_paths' \subseteq Pids
      /\ exe_paths' \in [DOMAIN exe_paths' -> Programs \cup {NoProgram}]
  <2>1. exe_paths' = [q \in DOMAIN exe_paths \cup {e.pid} |-> ExeOf(q)]
    BY <1>3 DEF RememberExe
  <2>2. DOMAIN exe_paths \subseteq Pids
    BY DEF TypeOK
  <2>3. \A q \in DOMAIN exe_paths \cup {e.pid} : ExeOf(q) \in Programs \cup {NoProgram}
    BY <1>1, <2>2, ExeTyped
  <2> QED BY <1>1, <2>1, <2>2, <2>3
<1>8. hook' \in [Threads -> HookStates]
  BY <1>3, UnbindTyped
<1>9. /\ main' = "release"
      /\ UNCHANGED <<program, calls, execs, fate, EVENTS, ev_edge, ev_ready,
                     rule_set, swaps, crashes, reported>>
  BY DEF Handle
<1> QED
  BY <1>5, <1>6, <1>7, <1>8, <1>9 DEF TypeOK

\* The death of the daemon leaves types in order.
LEMMA TypeCrash == ASSUME TypeOK, Crash PROVE TypeOK'
<1>1. hook' \in [Threads -> HookStates]
  BY IdleTyped DEF Crash
<1>2. fate' \in [1 .. MaxCalls ->
                 {"none", "open", "ignored", "blocked", "unlogged", "passed"}]
  BY DEF Crash, TypeOK
<1>3. EVENTS' \in Seq(Slots) /\ reported' \in Seq(Records) /\ log' \in Seq(Logged)
  BY DEF Crash
<1>4. /\ DOMAIN exe_paths' \subseteq Pids
      /\ exe_paths' \in [DOMAIN exe_paths' -> Programs \cup {NoProgram}]
  <2>1. exe_paths' = <<>>
    BY DEF Crash
  <2> QED BY <2>1
<1>5. ev_edge' \in BOOLEAN /\ ev_ready' \in BOOLEAN
  BY DEF Crash
<1>6. crashes' \in 0 .. MaxCrashes
  BY LimitsAssumption DEF Crash, TypeOK
<1>7. /\ main' = "down" /\ VERDICT_CACHE' = {} /\ lost' = {}
      /\ rule_set' \in RuleSets
      /\ UNCHANGED <<program, calls, execs, swaps>>
  BY LimitsAssumption DEF Crash
<1> QED
  BY <1>1, <1>2, <1>3, <1>4, <1>5, <1>6, <1>7 DEF TypeOK

\* backfill_proc leaves types in order.
LEMMA TypeBackfill == ASSUME TypeOK, Backfill PROVE TypeOK'
<1>1. /\ DOMAIN exe_paths' \subseteq Pids
      /\ exe_paths' \in [DOMAIN exe_paths' -> Programs \cup {NoProgram}]
  BY DEF Backfill, TypeOK
<1>2. /\ main' = "load"
      /\ UNCHANGED <<kernelVars, EVENTS, ev_edge, ev_ready, rule_set,
                     VERDICT_CACHE, swaps, crashes, reported, log, lost>>
  BY DEF Backfill
<1> QED BY <1>1, <1>2 DEF TypeOK, kernelVars

\* So does the first load.
LEMMA TypeBoot == ASSUME TypeOK, NEW r \in RuleSets, Boot(r) PROVE TypeOK'
<1>1. ev_edge' \in BOOLEAN
  BY DEF Boot
<1>2. /\ main' = "select" /\ rule_set' = r
      /\ UNCHANGED <<kernelVars, EVENTS, ev_ready, exe_paths, VERDICT_CACHE, swaps,
                     crashes, reported, log, lost>>
  BY DEF Boot
<1> QED BY <1>1, <1>2 DEF TypeOK, kernelVars

\* So do the steps that touch little.
LEMMA TypeRest ==
    ASSUME TypeOK,
           \/ TurnDriver \/ StartDrain \/ Release \/ DrainEnds \/ ClearReady
           \/ Restart \/ UNCHANGED vars
           \/ \E r \in RuleSets : SwapRules(r)
           \/ \E p \in Pids, g \in Programs \cup {NoProgram} : Exec(p, g)
    PROVE  TypeOK'
<1>1. CASE TurnDriver
  <2>1. ev_edge' \in BOOLEAN /\ ev_ready' \in BOOLEAN
    BY <1>1 DEF TurnDriver
  <2>2. UNCHANGED <<kernelVars, EVENTS, daemonVars, VERDICT_CACHE, reported, lost>>
    BY <1>1 DEF TurnDriver
  <2> QED BY <2>1, <2>2 DEF TypeOK, kernelVars, daemonVars
<1>2. CASE StartDrain
  BY <1>2 DEF StartDrain, TypeOK, kernelVars
<1>3. CASE Release
  <2>1. EVENTS' \in Seq(Slots)
    <3>1. EVENTS \in Seq(Slots) /\ EVENTS # <<>> /\ EVENTS' = Tail(EVENTS)
      BY <1>3 DEF Release, TypeOK
    <3> QED BY <3>1
  <2> QED BY <1>3, <2>1 DEF Release, TypeOK, kernelVars
<1>4. CASE DrainEnds
  BY <1>4 DEF DrainEnds, TypeOK, kernelVars
<1>5. CASE ClearReady
  <2>1. ev_ready' \in BOOLEAN /\ main' = "select"
    BY <1>5 DEF ClearReady
  <2>2. UNCHANGED <<kernelVars, EVENTS, ev_edge, rule_set, exe_paths, swaps,
                   crashes, log, VERDICT_CACHE, reported, lost>>
    BY <1>5 DEF ClearReady
  <2> QED BY <2>1, <2>2 DEF TypeOK, kernelVars
<1>6. CASE Restart
  BY <1>6 DEF Restart, TypeOK, kernelVars
<1>7. CASE UNCHANGED vars
  BY <1>7 DEF vars, TypeOK
<1>8. ASSUME NEW r \in RuleSets, SwapRules(r) PROVE TypeOK'
  <2>1. swaps' \in 0 .. MaxSwaps /\ rule_set' = r
    BY <1>8, LimitsAssumption DEF SwapRules, TypeOK
  <2>2. UNCHANGED <<kernelVars, EVENTS, ev_edge, ev_ready, main, exe_paths,
                   VERDICT_CACHE, crashes, reported, log, lost>>
    BY <1>8 DEF SwapRules
  <2> QED BY <2>1, <2>2 DEF TypeOK, kernelVars
<1>9. ASSUME NEW p \in Pids, NEW g \in Programs \cup {NoProgram}, Exec(p, g)
      PROVE  TypeOK'
  <2>1. execs' \in 0 .. MaxExecs
    BY <1>9, LimitsAssumption DEF Exec, TypeOK
  <2>2. program' \in [Pids -> Programs \cup {NoProgram}]
    BY <1>9 DEF Exec, TypeOK
  <2>3. UNCHANGED <<hook, EVENTS, ev_edge, ev_ready, daemonVars, VERDICT_CACHE,
                   calls, reported, fate, lost>>
    BY <1>9 DEF Exec
  <2> QED BY <2>1, <2>2, <2>3 DEF TypeOK, daemonVars
<1> QED
  BY <1>1, <1>2, <1>3, <1>4, <1>5, <1>6, <1>7, <1>8, <1>9

\* Types are preserved by every step.
LEMMA TypeNext == TypeOK /\ [Next]_vars => TypeOK'
<1> SUFFICES ASSUME TypeOK, [Next]_vars PROVE TypeOK'
  OBVIOUS
<1> QED
  BY TypeCalls, TypeHook, TypeHandle, TypeCrash, TypeBackfill, TypeBoot, TypeRest
  DEF Next, Startup, Drain

\* Each variable stays in its range, in every reachable state.
THEOREM TypeCorrect == Spec => []TypeOK
  BY TypeInit, TypeNext, PTL DEF Spec

---------------------------------------------------------------------------
(* Wakeups                                                                 *)

\* The parts of the invariant about wakeups.
Wakeups == NoLostWakeup /\ ClearKeepsWakeup

\* Submitting a record that becomes readable raises an edge.
LEMMA SubmitWakes ==
    ASSUME TypeOK, NEW t \in Threads, Submit(t)
    PROVE  Readable' => ev_edge' \/ Readable
<1> PICK i \in 1 .. Len(EVENTS) :
        /\ EVENTS' = [EVENTS EXCEPT ![i].busy = FALSE]
        /\ ev_edge' = (ev_edge \/ i = 1)
  BY DEF Submit
<1>1. EVENTS \in Seq(Slots)
  BY DEF TypeOK
<1>2. CASE i = 1
  BY <1>2
<1>3. CASE i # 1
  <2>1. /\ EVENTS # <<>> /\ EVENTS' # <<>>
        /\ Head(EVENTS) = EVENTS[1] /\ Head(EVENTS') = EVENTS'[1]
    BY <1>1
  <2>2. EVENTS'[1] = EVENTS[1]
    BY <1>1, <1>3
  <2> QED BY <2>1, <2>2 DEF Readable
<1> QED BY <1>2, <1>3

\* A reservation makes nothing readable.
LEMMA ReserveQuiet ==
    ASSUME TypeOK, NEW t \in Threads, Reserve(t)
    PROVE  Readable' => Readable
<1> PICK e : EVENTS' = Append(EVENTS, [event |-> e, busy |-> TRUE])
  BY DEF Reserve
<1>1. EVENTS \in Seq(Slots)
  BY DEF TypeOK
<1>2. CASE EVENTS = <<>>
  <2>1. Head(EVENTS') = [event |-> e, busy |-> TRUE]
    BY <1>2
  <2> QED BY <2>1 DEF Readable
<1>3. CASE EVENTS # <<>>
  <2>1. Head(EVENTS') = Head(EVENTS)
    BY <1>1, <1>3
  <2> QED BY <1>3, <2>1 DEF Readable
<1> QED BY <1>2, <1>3

\* No step loses a wakeup: DrainEnds leaves nothing readable, ClearReady leaves
\* the edge, and only Submit makes a record readable.
LEMMA WakeupsNext ==
    ASSUME TypeOK, Wakeups, [Next]_vars PROVE Wakeups'
<1> USE DEF Wakeups, NoLostWakeup, ClearKeepsWakeup
<1>1. CASE UNCHANGED <<EVENTS, ev_edge, ev_ready, main>>
  BY <1>1 DEF Readable
<1>2. ASSUME NEW t \in Threads, Reserve(t) PROVE Wakeups'
  <2>1. UNCHANGED <<ev_edge, ev_ready, main>>
    BY <1>2 DEF Reserve, daemonVars
  <2> QED BY <1>2, <2>1, ReserveQuiet
<1>3. ASSUME NEW t \in Threads, Submit(t) PROVE Wakeups'
  <2>1. UNCHANGED <<ev_ready, main>> /\ (ev_edge => ev_edge')
    BY <1>3 DEF Submit, daemonVars
  <2> QED BY <1>3, <2>1, SubmitWakes
<1>4. ASSUME Backfill \/ \E r : Boot(r) PROVE Wakeups'
  BY <1>4 DEF Backfill, Boot, Readable
<1>5. CASE TurnDriver
  BY <1>5 DEF TurnDriver, Readable, daemonVars
<1>6. CASE StartDrain \/ Handle \/ Release \/ Crash \/ Restart
  <2>1. main' \notin {"select", "clear"}
    BY <1>6 DEF StartDrain, Handle, Release, Crash, Restart
  <2> QED BY <2>1
<1>7. CASE DrainEnds
  <2>1. main' = "clear" /\ ~Readable'
    BY <1>7 DEF DrainEnds, Readable
  <2> QED BY <2>1
<1>8. CASE ClearReady
  <2>1. main = "clear" /\ main' = "select" /\ UNCHANGED <<EVENTS, ev_edge>>
    BY <1>8 DEF ClearReady
  <2> QED BY <2>1 DEF Readable
<1> QED
  BY <1>1, <1>2, <1>3, <1>4, <1>5, <1>6, <1>7, <1>8
  DEF Next, Startup, Drain, Hook, Call, Ignore, Block, Miss, ReserveFails, Exec,
      SwapRules, daemonVars, vars

---------------------------------------------------------------------------
(* Log and buffer                                                          *)

\* The parts of the invariant about what has been evaluated.
Accounting == EvaluatedOnce /\ UnderEvaluation

\* No step loses a record or repeats one: Handle adds the head to the log,
\* Release takes it from the buffer.
LEMMA AccountingNext ==
    ASSUME TypeOK, Accounting, [Next]_vars PROVE Accounting'
<1>1. /\ EVENTS \in Seq(Slots) /\ reported \in Seq(Records) /\ log \in Seq(Logged)
      /\ main \in {"boot", "load", "select", "drain", "release", "clear", "down"}
  BY DEF TypeOK
<1>2. CASE UNCHANGED <<EVENTS, reported, log>> /\ (main' = "release" <=> main = "release")
  BY <1>2 DEF Accounting, EvaluatedOnce, UnderEvaluation
<1>3. ASSUME NEW t \in Threads, Reserve(t) PROVE Accounting'
  <2> PICK e : /\ EVENTS' = Append(EVENTS, [event |-> e, busy |-> TRUE])
               /\ reported' = Append(reported, e)
    BY <1>3 DEF Reserve
  <2>1. main' = main /\ log' = log
    BY <1>3 DEF Reserve, daemonVars
  <2>2. /\ Len(EVENTS') = Len(EVENTS) + 1 /\ EVENTS' # <<>>
        /\ \A i \in 1 .. Len(EVENTS) : EVENTS'[i] = EVENTS[i]
        /\ EVENTS'[Len(EVENTS) + 1].event = e
    BY <1>1
  <2>3. /\ Len(reported') = Len(reported) + 1
        /\ \A i \in 1 .. Len(reported) : reported'[i] = reported[i]
        /\ reported'[Len(reported) + 1] = e
    BY <1>1
  <2>4. /\ Len(EVENTS) \in Nat /\ Len(log) \in Nat /\ Len(reported) \in Nat
        /\ EVENTS # <<>> => Len(EVENTS) >= 1
    BY <1>1
  <2>5. Len(reported) = Len(log) + Len(EVENTS) - (IF main = "release" THEN 1 ELSE 0)
        /\ (main = "release" => EVENTS # <<>> /\ Len(log) >= 1)
    BY <1>1 DEF Accounting, EvaluatedOnce, UnderEvaluation
  <2>6. Len(reported') = Len(log') + Len(EVENTS') - (IF main' = "release" THEN 1 ELSE 0)
    BY <2>1, <2>2, <2>3, <2>4, <2>5
  <2>7. ASSUME NEW i \in 1 .. Len(log') PROVE log'[i].event = reported'[i]
    <3>1. i \in 1 .. Len(log) /\ i \in 1 .. Len(reported)
      BY <2>1, <2>4, <2>5
    <3>2. log[i].event = reported[i]
      BY <3>1 DEF Accounting, EvaluatedOnce
    <3> QED BY <2>1, <2>3, <3>1, <3>2
  <2>8. ASSUME NEW i \in 1 .. Len(EVENTS')
        PROVE  EVENTS'[i].event = reported'[Len(reported') - Len(EVENTS') + i]
    <3>1. CASE i = Len(EVENTS) + 1
      <4>1. Len(reported') - Len(EVENTS') + i = Len(reported) + 1
        BY <2>2, <2>3, <2>4, <3>1
      <4> QED BY <2>2, <2>3, <3>1, <4>1
    <3>2. CASE i \in 1 .. Len(EVENTS)
      <4> DEFINE n == Len(reported) - Len(EVENTS) + i
      <4>1. n \in 1 .. Len(reported) /\ Len(reported') - Len(EVENTS') + i = n
        BY <2>2, <2>3, <2>4, <2>5, <3>2
      <4>2. EVENTS[i].event = reported[n]
        BY <3>2 DEF Accounting, EvaluatedOnce
      <4> HIDE DEF n
      <4>3. EVENTS'[i].event = reported'[n]
        BY <2>2, <2>3, <3>2, <4>1, <4>2
      <4> QED BY <4>1, <4>3
    <3>3. i = Len(EVENTS) + 1 \/ i \in 1 .. Len(EVENTS)
      BY <2>2, <2>4
    <3> QED BY <3>1, <3>2, <3>3
  <2> QED BY <2>1, <2>2, <2>6, <2>7, <2>8
          DEF Accounting, EvaluatedOnce, UnderEvaluation
<1>4. ASSUME NEW t \in Threads, Submit(t) PROVE Accounting'
  <2> PICK i \in 1 .. Len(EVENTS) : EVENTS' = [EVENTS EXCEPT ![i].busy = FALSE]
    BY <1>4 DEF Submit
  <2>1. main' = main /\ log' = log /\ reported' = reported
    BY <1>4 DEF Submit, daemonVars
  <2>2. Len(EVENTS') = Len(EVENTS) /\ EVENTS' # <<>>
    BY <1>1
  <2>3. \A j \in 1 .. Len(EVENTS) : EVENTS'[j].event = EVENTS[j].event
    <3> TAKE j \in 1 .. Len(EVENTS)
    <3>1. EVENTS[j] \in Slots
      BY <1>1
    <3> QED BY <1>1, <3>1 DEF Slots
  <2> QED BY <2>1, <2>2, <2>3 DEF Accounting, EvaluatedOnce, UnderEvaluation
<1>5. CASE Handle
  <2> DEFINE e == Head(EVENTS).event
  <2>1. /\ main = "drain" /\ main' = "release" /\ EVENTS # <<>>
        /\ UNCHANGED <<EVENTS, reported>>
    BY <1>5 DEF Handle, Readable
  <2>2. PICK entry : log' = Append(log, entry) /\ entry.event = e
    BY <1>5 DEF Handle
  <2>3. /\ Len(log') = Len(log) + 1
        /\ \A i \in 1 .. Len(log) : log'[i] = log[i]
        /\ log'[Len(log) + 1].event = EVENTS[1].event
    BY <1>1, <2>1, <2>2
  <2>4. Len(EVENTS) >= 1
    BY <1>1, <2>1
  <2>5. Len(reported) = Len(log) + Len(EVENTS)
    BY <1>1, <2>1 DEF Accounting, EvaluatedOnce
  <2>6. Len(log) \in Nat /\ Len(EVENTS) \in Nat /\ Len(reported) \in Nat
    BY <1>1
  <2>7. EVENTS[1].event = reported[Len(log) + 1]
    <3>1. 1 \in 1 .. Len(EVENTS) /\ Len(reported) - Len(EVENTS) + 1 = Len(log) + 1
      BY <2>4, <2>5, <2>6
    <3>2. EVENTS[1].event = reported[Len(reported) - Len(EVENTS) + 1]
      BY <3>1 DEF Accounting, EvaluatedOnce
    <3> QED BY <3>1, <3>2
  <2>8. Len(reported') = Len(log') + Len(EVENTS') - (IF main' = "release" THEN 1 ELSE 0)
    BY <2>1, <2>3, <2>5, <2>6
  <2>9. ASSUME NEW i \in 1 .. Len(log') PROVE log'[i].event = reported'[i]
    <3>1. CASE i = Len(log) + 1
      BY <2>1, <2>3, <2>7, <3>1
    <3>2. CASE i \in 1 .. Len(log)
      <4>1. log[i].event = reported[i]
        BY <3>2 DEF Accounting, EvaluatedOnce
      <4> QED BY <2>1, <2>3, <3>2, <4>1
    <3> QED BY <2>3, <2>6, <3>1, <3>2
  <2>10. \A i \in 1 .. Len(EVENTS') :
            EVENTS'[i].event = reported'[Len(reported') - Len(EVENTS') + i]
    BY <2>1 DEF Accounting, EvaluatedOnce
  <2>11. log' # <<>>
    BY <1>1, <2>2
  <2> QED BY <2>1, <2>8, <2>9, <2>10, <2>11
          DEF Accounting, EvaluatedOnce, UnderEvaluation
<1>6. CASE Release
  <2>1. /\ main = "release" /\ main' = "drain" /\ EVENTS # <<>>
        /\ EVENTS' = Tail(EVENTS) /\ UNCHANGED <<reported, log>>
    BY <1>6 DEF Release
  <2>2. /\ Len(EVENTS') = Len(EVENTS) - 1
        /\ \A i \in 1 .. Len(EVENTS') : EVENTS'[i] = EVENTS[i + 1]
    BY <1>1, <2>1
  <2> QED BY <1>1, <2>1, <2>2 DEF Accounting, EvaluatedOnce, UnderEvaluation
<1>7. CASE Crash
  <2>1. EVENTS' = <<>> /\ reported' = <<>> /\ log' = <<>> /\ main' = "down"
    BY <1>7 DEF Crash
  <2> QED BY <2>1 DEF Accounting, EvaluatedOnce, UnderEvaluation
<1>8. ASSUME Backfill \/ \E r : Boot(r) PROVE Accounting'
  BY <1>2, <1>8 DEF Backfill, Boot
<1>9. CASE StartDrain \/ DrainEnds \/ ClearReady \/ Restart
  BY <1>2, <1>9 DEF StartDrain, DrainEnds, ClearReady, Restart
<1>10. CASE TurnDriver \/ (\E r \in RuleSets : SwapRules(r))
            \/ (\E p \in Pids, g \in Programs \cup {NoProgram} : Exec(p, g))
  BY <1>2, <1>10 DEF TurnDriver, SwapRules, Exec, daemonVars
<1>11. ASSUME NEW t \in Threads,
              \/ \E d \in Dsts : Call(t, d)
              \/ Ignore(t) \/ Block(t) \/ Miss(t) \/ ReserveFails(t)
       PROVE  Accounting'
  BY <1>2, <1>11 DEF Call, Ignore, Block, Miss, ReserveFails, daemonVars
<1>12. CASE UNCHANGED vars
  BY <1>2, <1>12 DEF vars
<1> QED
  BY <1>3, <1>4, <1>5, <1>6, <1>7, <1>8, <1>9, <1>10, <1>11, <1>12
  DEF Next, Startup, Drain, Hook

---------------------------------------------------------------------------
(* The cache                                                               *)

\* The parts of the invariant about VERDICT_CACHE.
CacheSound == DeniedStaysBlocked /\ BlocksOnlyDenied /\ CacheHoldsDenied

\* A denial adds its key to the denied flows; any other verdict adds none.
LEMMA DeniedGrows ==
    ASSUME TypeOK, NEW entry \in Logged, log' = Append(log, entry)
    PROVE  DeniedKeys' = IF entry.verdict = "deny"
                         THEN DeniedKeys \cup {common_flow_key(entry.event)}
                         ELSE DeniedKeys
<1>1. log \in Seq(Logged)
  BY DEF TypeOK
<1>2. /\ Len(log) \in Nat /\ Len(log') = Len(log) + 1
      /\ log'[Len(log) + 1] = entry
      /\ \A i \in 1 .. Len(log) : log'[i] = log[i]
  BY <1>1
<1> DEFINE n == Len(log)
           D == {j \in 1 .. n : log[j].verdict = "deny"}
           E == {j \in 1 .. Len(log') : log'[j].verdict = "deny"}
<1>3. E = IF entry.verdict = "deny" THEN D \cup {n + 1} ELSE D
  <2>1. 1 .. Len(log') = (1 .. n) \cup {n + 1}
    BY <1>2
  <2>2. n + 1 \notin 1 .. n
    BY <1>2
  <2> QED BY <1>2, <2>1, <2>2
<1>4. /\ DeniedKeys = {common_flow_key(log[j].event) : j \in D}
      /\ DeniedKeys' = {common_flow_key(log'[j].event) : j \in E}
  BY DEF DeniedKeys, common_flow_key
<1>5. \A j \in D : log'[j] = log[j]
  BY <1>2
<1>6. log'[n + 1].event = entry.event
  BY <1>2
<1> HIDE DEF D, E, n
<1> QED BY <1>3, <1>4, <1>5, <1>6

\* Whatever insertion does, a key that it does not record as lost is in the
\* cache afterwards if it was before, or if it is the one inserted; and no
\* other key gets in.
LEMMA InsertKeeps ==
    ASSUME NEW key, CacheInsert(key)
    PROVE  /\ \A k \in VERDICT_CACHE \cup {key} : k \in VERDICT_CACHE' \/ k \in lost'
           /\ \A k \in lost : k = key \/ k \in lost'
           /\ VERDICT_CACHE' \subseteq VERDICT_CACHE \cup {key}
  BY DEF CacheInsert

\* A call that is still bound to be blocked after Unbind was so before, is
\* where it was, and is not one of those that were dropped.
LEMMA UnbindKeeps ==
    ASSUME TypeOK, NEW dropped, Unbind(dropped),
           NEW t \in Threads, hook'[t] # Idle, hook'[t].doomed
    PROVE  /\ hook'[t] = hook[t] /\ KeyOf(t) \notin dropped
<1>1. hook'[t] = IF hook[t] # Idle /\ KeyOf(t) \in dropped
                 THEN [hook[t] EXCEPT !.doomed = FALSE] ELSE hook[t]
  BY DEF Unbind
<1>2. CASE hook[t] # Idle /\ KeyOf(t) \in dropped
  <2>1. hook[t] \in [at : {"called", "missed", "reserved"},
                     id : 1 .. MaxCalls, dst : Dsts, doomed : BOOLEAN]
    BY <1>2, HookFields
  <2>2. hook'[t].doomed = FALSE
    BY <1>1, <1>2, <2>1
  <2> QED BY <2>2
<1>3. CASE ~(hook[t] # Idle /\ KeyOf(t) \in dropped)
  BY <1>1, <1>3
<1> QED BY <1>2, <1>3

\* Evaluating a record keeps the cache sound, whatever insertion does.
LEMMA CacheHandle ==
    ASSUME TypeOK, CacheSound, Handle PROVE CacheSound'
<1> DEFINE e == Head(EVENTS).event
           exe == ExeOf(e.pid)
           denied == <<exe, e.dst>> \in rule_set
           entry == [event |-> e, exe |-> exe,
                     verdict |-> IF denied THEN "deny" ELSE "allow"]
           key == common_flow_key(e)
<1>1. /\ log' = Append(log, entry) /\ Unbind(lost')
      /\ IF denied THEN CacheInsert(key) ELSE UNCHANGED <<VERDICT_CACHE, lost>>
  BY DEF Handle
<1>2. entry \in Logged
  <2>1. e \in Records /\ e.pid \in Pids
    BY HeadRecord, KeyTyped DEF Handle, Readable
  <2>2. exe \in Programs \cup {NoProgram}
    BY <2>1, ExeTyped
  <2> QED BY <2>1, <2>2 DEF Logged
<1>3. DeniedKeys' = IF denied THEN DeniedKeys \cup {key} ELSE DeniedKeys
  <2>1. entry.event = e /\ (entry.verdict = "deny" <=> denied)
    OBVIOUS
  <2> HIDE DEF entry, denied, e
  <2> QED BY <1>1, <1>2, <2>1, DeniedGrows
<1> HIDE DEF entry, denied, exe, e, key
<1>4. /\ BlocksOnlyDenied' /\ Enforced' \subseteq VERDICT_CACHE'
      /\ \A k \in VERDICT_CACHE : k \in VERDICT_CACHE' \/ k \in lost'
  <2>1. VERDICT_CACHE \subseteq DeniedKeys /\ DeniedKeys \ lost \subseteq VERDICT_CACHE
    BY DEF CacheSound, BlocksOnlyDenied, CacheHoldsDenied, Enforced
  <2>2. Enforced' = DeniedKeys' \ lost'
    BY DEF Enforced
  <2>3. CASE denied
    <3>1. CacheInsert(key)
      BY <1>1, <2>3
    <3>2. DeniedKeys' = DeniedKeys \cup {key}
      BY <1>3, <2>3
    <3> QED BY <2>1, <2>2, <3>1, <3>2, InsertKeeps DEF BlocksOnlyDenied
  <2>4. CASE ~denied
    BY <1>1, <1>3, <2>1, <2>2, <2>4 DEF BlocksOnlyDenied
  <2> QED BY <2>3, <2>4
<1>5. ASSUME NEW t \in Threads, hook'[t] # Idle, hook'[t].doomed
      PROVE  hook'[t].at = "called" /\ KeyOf(t)' \in VERDICT_CACHE'
  <2>1. hook'[t] = hook[t] /\ KeyOf(t) \notin lost'
    BY <1>1, <1>5, UnbindKeeps
  <2>2. hook[t].at = "called" /\ KeyOf(t) \in VERDICT_CACHE
    BY <1>5, <2>1 DEF CacheSound, DeniedStaysBlocked, CacheHoldsDenied
  <2>3. KeyOf(t)' = KeyOf(t)
    BY <2>1 DEF KeyOf
  <2> QED BY <1>4, <2>1, <2>2, <2>3
<1> QED
  BY <1>4, <1>5 DEF CacheSound, DeniedStaysBlocked, CacheHoldsDenied

\* Every step keeps the cache sound: a hook that misses holds a call that was
\* not bound to be blocked, and only Handle and Crash touch the cache.
LEMMA CacheNext ==
    ASSUME TypeOK, CacheSound, [Next]_vars PROVE CacheSound'
<1> USE DEF CacheSound, DeniedStaysBlocked, BlocksOnlyDenied, CacheHoldsDenied
<1>1. CASE UNCHANGED <<hook, VERDICT_CACHE, log, lost>>
  BY <1>1 DEF Enforced, DeniedKeys, KeyOf
<1>2. ASSUME UNCHANGED <<VERDICT_CACHE, log, lost>>,
             NEW t \in Threads, \A u \in Threads : u # t => hook'[u] = hook[u],
             hook'[t] # Idle /\ hook'[t].doomed =>
                 hook'[t].at = "called" /\ KeyOf(t)' \in VERDICT_CACHE
      PROVE  CacheSound'
  <2>1. Enforced' = Enforced /\ DeniedKeys' = DeniedKeys
    BY <1>2 DEF Enforced, DeniedKeys
  <2>2. \A u \in Threads : u # t => KeyOf(u)' = KeyOf(u)
    BY <1>2 DEF KeyOf
  <2>3. ASSUME NEW u \in Threads, hook'[u] # Idle, hook'[u].doomed
        PROVE  hook'[u].at = "called" /\ KeyOf(u)' \in VERDICT_CACHE
    <3>1. CASE u = t
      BY <1>2, <2>3, <3>1
    <3>2. CASE u # t
      BY <1>2, <2>2, <2>3, <3>2
    <3> QED BY <3>1, <3>2
  <2> QED BY <1>2, <2>1, <2>3
<1>3. ASSUME NEW t \in Threads, NEW d \in Dsts, Call(t, d) PROVE CacheSound'
  <2>1. /\ hook'[t] = [at |-> "called", id |-> calls', dst |-> d,
                       doomed |-> FlowKey(PidOf[t], d) \in Enforced]
        /\ \A u \in Threads : u # t => hook'[u] = hook[u]
        /\ UNCHANGED <<VERDICT_CACHE, log, lost>>
    BY <1>3 DEF Call, TypeOK, daemonVars
  <2>2. KeyOf(t)' = FlowKey(PidOf[t], d)
    BY <2>1 DEF KeyOf
  <2>3. hook'[t] # Idle /\ hook'[t].doomed =>
            hook'[t].at = "called" /\ KeyOf(t)' \in VERDICT_CACHE
    <3>1. hook'[t].at = "called"
      BY <2>1
    <3>2. hook'[t].doomed = (FlowKey(PidOf[t], d) \in Enforced)
      BY <2>1
    <3> QED BY <2>2, <3>1, <3>2
  <2> QED BY <1>2, <2>1, <2>3
<1>4. ASSUME NEW t \in Threads,
             Ignore(t) \/ Block(t) \/ ReserveFails(t) \/ Submit(t)
      PROVE  CacheSound'
  <2>1. /\ hook' = [hook EXCEPT ![t] = Idle]
        /\ UNCHANGED <<VERDICT_CACHE, log, lost>>
    BY <1>4 DEF Ignore, Block, ReserveFails, Submit, Return, daemonVars
  <2> QED BY <1>2, <2>1 DEF TypeOK
<1>5. ASSUME NEW t \in Threads, Miss(t) \/ Reserve(t) PROVE CacheSound'
  <2>1. hook[t] # Idle
    BY <1>5, NotIdle DEF Miss, Reserve
  <2>2. ~hook[t].doomed
    BY <1>5, <2>1 DEF Miss, Reserve
  <2>3. /\ hook' = [hook EXCEPT ![t].at = hook'[t].at]
        /\ UNCHANGED <<VERDICT_CACHE, log, lost>>
    BY <1>5 DEF Miss, Reserve, daemonVars, TypeOK
  <2>4. hook'[t].doomed = hook[t].doomed
    BY <2>1, <2>3, HookFields DEF TypeOK
  <2> QED BY <1>2, <2>2, <2>3, <2>4 DEF TypeOK
<1>6. CASE Handle
  BY <1>6, CacheHandle
<1>7. CASE Crash
  <2>1. /\ \A t \in Threads : hook'[t] = Idle
        /\ VERDICT_CACHE' = {} /\ log' = <<>>
    BY <1>7 DEF Crash
  <2>2. DeniedKeys' = {}
    BY <2>1 DEF DeniedKeys
  <2> QED BY <2>1, <2>2 DEF Enforced
<1>8. ASSUME Backfill \/ \E r : Boot(r) PROVE CacheSound'
  BY <1>1, <1>8 DEF Backfill, Boot, kernelVars
<1>9. CASE TurnDriver \/ StartDrain \/ Release \/ DrainEnds \/ ClearReady \/ Restart
           \/ (\E r \in RuleSets : SwapRules(r)) \/ UNCHANGED vars
           \/ (\E p \in Pids, g \in Programs \cup {NoProgram} : Exec(p, g))
  BY <1>1, <1>9 DEF TurnDriver, StartDrain, Release, DrainEnds, ClearReady, Restart,
      SwapRules, Exec, kernelVars, daemonVars, vars
<1> QED
  BY <1>3, <1>4, <1>5, <1>6, <1>7, <1>8, <1>9 DEF Next, Startup, Drain, Hook

---------------------------------------------------------------------------
(* Destinations that the hooks skip                                        *)

\* Only a watched destination gets past the first check.
LEMMA SkipsNext == TypeOK /\ SkipsUnwatched /\ [Next]_vars => SkipsUnwatched'
<1> SUFFICES ASSUME TypeOK, SkipsUnwatched, [Next]_vars,
                    NEW t \in Threads, hook'[t] # Idle, hook'[t].dst \in Unwatched
             PROVE  hook'[t].at = "called"
  BY DEF SkipsUnwatched
<1>1. hook[t] # Idle /\ hook[t].dst \in Unwatched => hook[t].at = "called"
  BY DEF SkipsUnwatched
<1>2. hook \in [Threads -> HookStates]
  BY DEF TypeOK
<1>3. CASE UNCHANGED hook
  BY <1>1, <1>3
<1>4. CASE \E s \in Threads, d \in Dsts : Call(s, d)
  <2>1. PICK s \in Threads, d \in Dsts : Call(s, d)
    BY <1>4
  <2>2. hook'[t] = IF t = s THEN [at |-> "called", id |-> calls', dst |-> d,
                                  doomed |-> FlowKey(PidOf[s], d) \in Enforced]
                   ELSE hook[t]
    BY <1>2, <2>1 DEF Call
  <2> QED BY <1>1, <2>2
<1>5. CASE \E s \in Threads : Hook(s)
  <2>1. PICK s \in Threads : Hook(s)
    BY <1>5
  <2>2. s # t => hook'[t] = hook[t]
    BY <1>2, <2>1 DEF Hook, Ignore, Block, Miss, Reserve, ReserveFails, Submit, Return
  <2>3. CASE s = t
    <3>1. hook[t] # Idle
      BY <2>1, <2>3, NotIdle DEF Hook, Ignore, Block, Miss, Reserve, ReserveFails, Submit
    <3>2. hook[t] \in [at : {"called", "missed", "reserved"},
                       id : 1 .. MaxCalls, dst : Dsts, doomed : BOOLEAN]
      BY <3>1, HookFields
    <3>3. CASE Ignore(t) \/ Block(t) \/ ReserveFails(t) \/ Submit(t)
      BY <1>2, <3>3 DEF Ignore, Block, ReserveFails, Submit, Return
    <3>4. CASE Miss(t)
      BY <1>2, <3>2, <3>4 DEF Miss
    <3>5. CASE Reserve(t)
      <4>1. hook'[t].dst = hook[t].dst /\ hook[t].at = "missed"
        BY <1>2, <3>2, <3>5 DEF Reserve
      <4> QED BY <1>1, <3>1, <4>1
    <3> QED BY <2>1, <2>3, <3>3, <3>4, <3>5 DEF Hook
  <2> QED BY <1>1, <2>2, <2>3
<1>6. CASE Handle
  <2>1. hook'[t] = IF hook[t] # Idle /\ KeyOf(t) \in lost'
                   THEN [hook[t] EXCEPT !.doomed = FALSE] ELSE hook[t]
    BY <1>6 DEF Handle, Unbind
  <2>2. CASE hook[t] # Idle /\ KeyOf(t) \in lost'
    <3>1. hook[t] \in [at : {"called", "missed", "reserved"},
                       id : 1 .. MaxCalls, dst : Dsts, doomed : BOOLEAN]
      BY <2>2, HookFields
    <3>2. hook'[t].dst = hook[t].dst /\ hook'[t].at = hook[t].at
      BY <2>1, <2>2, <3>1
    <3> QED BY <1>1, <2>2, <3>2
  <2>3. CASE ~(hook[t] # Idle /\ KeyOf(t) \in lost')
    BY <1>1, <2>1, <2>3
  <2> QED BY <2>2, <2>3
<1>7. CASE Crash
  BY <1>7 DEF Crash
<1>8. CASE Startup \/ TurnDriver \/ StartDrain \/ Release \/ DrainEnds \/ ClearReady
           \/ Restart \/ (\E r \in RuleSets : SwapRules(r)) \/ UNCHANGED vars
           \/ (\E p \in Pids, g \in Programs \cup {NoProgram} : Exec(p, g))
  BY <1>3, <1>8 DEF Startup, Backfill, Boot, TurnDriver, StartDrain, Release, DrainEnds,
      ClearReady, Restart, SwapRules, Exec, kernelVars, vars
<1> QED
  BY <1>4, <1>5, <1>6, <1>7, <1>8 DEF Next, Drain

---------------------------------------------------------------------------
(* The invariant                                                           *)

\* The invariant holds when the daemon starts with its maps empty.
LEMMA InvariantInit == Init => IInv
<1> SUFFICES ASSUME Init PROVE IInv
  OBVIOUS
<1>1. TypeOK
  BY TypeInit
<1>2. NoLostWakeup /\ ClearKeepsWakeup /\ UnderEvaluation
  BY DEF Init, NoLostWakeup, ClearKeepsWakeup, UnderEvaluation
<1>3. EvaluatedOnce
  BY DEF Init, EvaluatedOnce
<1>4. \A t \in Threads : hook[t] = Idle
  BY DEF Init
<1>5. VERDICT_CACHE = {} /\ DeniedKeys = {}
  BY DEF Init, DeniedKeys
<1>6. DeniedStaysBlocked /\ BlocksOnlyDenied /\ CacheHoldsDenied /\ SkipsUnwatched
  BY <1>4, <1>5 DEF DeniedStaysBlocked, BlocksOnlyDenied, CacheHoldsDenied, Enforced,
      SkipsUnwatched
<1> QED BY <1>1, <1>2, <1>3, <1>6 DEF IInv

\* Every step preserves it.
LEMMA InvariantNext == IInv /\ [Next]_vars => IInv'
  BY TypeNext, WakeupsNext, AccountingNext, CacheNext, SkipsNext
  DEF IInv, Wakeups, Accounting, CacheSound

\* All parts of the inductive invariant hold in every reachable state.
THEOREM Invariant == Spec => []IInv
  BY InvariantInit, InvariantNext, PTL DEF Spec

\* The daemon never waits while the record at its end of the ring buffer is
\* readable and no wakeup is pending.
THEOREM NoWakeupIsLost == Spec => []NoLostWakeup
<1>1. IInv => NoLostWakeup
  BY DEF IInv
<1> QED BY <1>1, Invariant, PTL

\* Every record the hooks reserved is evaluated at most once, in order, and
\* none is skipped.
THEOREM RecordsEvaluatedOnce == Spec => []EvaluatedOnce
<1>1. IInv => EvaluatedOnce
  BY DEF IInv
<1> QED BY <1>1, Invariant, PTL

\* A call that begins after its flow was denied does not get past the lookup,
\* unless the entry of the flow was lost.
THEOREM DeniedFlowsStayBlocked == Spec => []DeniedStaysBlocked
<1>1. IInv => DeniedStaysBlocked
  BY DEF IInv
<1> QED BY <1>1, Invariant, PTL

\* The kernel blocks only flows that this run of the daemon denied and logged.
THEOREM OnlyDeniedFlowsBlocked == Spec => []BlocksOnlyDenied
<1>1. IInv => BlocksOnlyDenied
  BY DEF IInv
<1> QED BY <1>1, Invariant, PTL
=============================================================================
