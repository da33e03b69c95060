----------------------------- MODULE DaemonProofs -----------------------------
(***************************************************************************)
(* Proofs about Daemon, for any files and contents, threads, processes and *)
(* destinations: what RuleReload proves of the loaded list still holds     *)
(* when the daemon may die, and the whole does what Enforcement says.      *)
(***************************************************************************)
EXTENDS Daemon, RuleReloadProofs

---------------------------------------------------------------------------
(* Types of the kernel's side                                               *)

\* A hook that is called, past the lookup or past the reservation is not idle,
\* and what it works on has the right types.
LEMMA KernelHookFields ==
    ASSUME E!TypeOK, NEW t \in Threads, hook[t] # E!Idle
    PROVE  /\ hook[t] \in [at : {"called", "missed", "reserved"},
                           id : 1 .. MaxCalls, dst : Dsts, doomed : BOOLEAN]
           /\ PidOf[t] \in Pids /\ E!KeyOf(t) \in E!Keys
<1>1. hook[t] \in E!HookStates
  BY DEF E!TypeOK
<1>2. hook[t] \in [at : {"called", "missed", "reserved"},
                   id : 1 .. MaxCalls, dst : Dsts, doomed : BOOLEAN]
  BY <1>1 DEF E!HookStates
<1>3. PidOf[t] \in Pids
  BY KernelAssumption
<1>4. E!KeyOf(t) \in E!Keys
  BY <1>2, <1>3 DEF E!KeyOf, E!Keys
<1> QED BY <1>2, <1>3, <1>4

\* A hook that is somewhere in its work is not idle.
LEMMA KernelNotIdle ==
    \A t : hook[t].at \in {"called", "missed", "reserved"} => hook[t] # E!Idle
  BY DEF E!Idle

\* The state of a thread outside the hooks.
LEMMA KernelIdleTyped == E!Idle \in E!HookStates
  BY DEF E!HookStates

\* A hook that returns leaves types in order.
LEMMA KernelReturnTyped ==
    ASSUME E!TypeOK, NEW t \in Threads, hook[t] # E!Idle,
           NEW w \in {"ignored", "blocked", "unlogged", "passed"}, E!Return(t, w)
    PROVE  /\ hook' \in [Threads -> E!HookStates]
           /\ fate' \in [1 .. MaxCalls ->
                 {"none", "open", "ignored", "blocked", "unlogged", "passed"}]
<1>1. hook' \in [Threads -> E!HookStates]
  BY KernelIdleTyped DEF E!Return, E!TypeOK
<1>2. fate' \in [1 .. MaxCalls ->
                 {"none", "open", "ignored", "blocked", "unlogged", "passed"}]
  BY DEF E!Return, E!TypeOK
<1> QED BY <1>1, <1>2

\* The initial states have the right types.
LEMMA KernelTypeInit == E!Init => E!TypeOK
<1> SUFFICES ASSUME E!Init PROVE E!TypeOK
  OBVIOUS
<1>1. hook \in [Threads -> E!HookStates]
  BY KernelIdleTyped DEF E!Init
<1>2. EVENTS \in Seq(E!Slots) /\ reported \in Seq(E!Records) /\ log \in Seq(E!Logged)
  BY DEF E!Init
<1>3. /\ DOMAIN exe_paths \subseteq Pids
      /\ exe_paths \in [DOMAIN exe_paths -> Programs \cup {NoProgram}]
  <2>1. exe_paths = <<>>
    BY DEF E!Init
  <2> QED BY <2>1
<1>4. ev_edge \in BOOLEAN /\ ev_ready \in BOOLEAN
  BY DEF E!Init
<1>5. /\ calls \in 0 .. MaxCalls /\ execs \in 0 .. MaxExecs
      /\ swaps \in 0 .. MaxSwaps /\ crashes \in 0 .. MaxCrashes
  BY KernelAssumption DEF E!Init
<1>6. /\ program \in [Pids -> Programs \cup {NoProgram}]
      /\ main = "boot" /\ InForce \in SUBSET Pairs
      /\ VERDICT_CACHE = {} /\ lost = {}
  BY KernelAssumption DEF E!Init
<1>7. fate \in [1 .. MaxCalls ->
                 {"none", "open", "ignored", "blocked", "unlogged", "passed"}]
  BY DEF E!Init
<1> QED
  BY <1>1, <1>2, <1>3, <1>4, <1>5, <1>6, <1>7 DEF E!TypeOK

\* The key and the path of a record.
LEMMA KernelKeyTyped == \A e \in E!Records : e.pid \in Pids /\ E!common_flow_key(e) \in E!Keys
  BY DEF E!Records, E!ConnectEvent, E!common_flow_key, E!Keys, E!FlowKey

\* lookup_exe returns a path or none.
LEMMA KernelExeTyped ==
    ASSUME E!TypeOK, NEW p \in Pids
    PROVE  E!ExeOf(p) \in Programs \cup {NoProgram}
  BY DEF E!TypeOK, E!ExeOf

\* Calls by a thread.
LEMMA KernelTypeCalls ==
    ASSUME E!TypeOK, NEW t \in Threads, NEW d \in Dsts, E!Call(t, d) PROVE E!TypeOK'
<1> DEFINE h == [at |-> "called", id |-> calls', dst |-> d,
                 doomed |-> E!FlowKey(PidOf[t], d) \in E!Enforced]
<1>1. calls' \in 1 .. MaxCalls
  BY KernelAssumption DEF E!Call, E!TypeOK
<1>2. h \in E!HookStates
  BY <1>1 DEF E!HookStates
<1>3. hook' \in [Threads -> E!HookStates]
  BY <1>2 DEF E!Call, E!TypeOK
<1>4. fate' \in [1 .. MaxCalls ->
                 {"none", "open", "ignored", "blocked", "unlogged", "passed"}]
  BY <1>1 DEF E!Call, E!TypeOK
<1> QED
  BY <1>1, <1>3, <1>4 DEF E!Call, E!TypeOK, E!daemonVars

\* Steps of a hook.
LEMMA KernelTypeHook ==
    ASSUME E!TypeOK, NEW t \in Threads, E!Hook(t) PROVE E!TypeOK'
<1>1. CASE E!Ignore(t)
  <2>1. hook[t] # E!Idle
    BY <1>1, KernelNotIdle DEF E!Ignore
  <2> QED BY <1>1, <2>1, KernelReturnTyped DEF E!Ignore, E!TypeOK, E!daemonVars
<1>2. CASE E!Block(t)
  <2>1. hook[t] # E!Idle
    BY <1>2, KernelNotIdle DEF E!Block
  <2> QED BY <1>2, <2>1, KernelReturnTyped DEF E!Block, E!TypeOK, E!daemonVars
<1>3. CASE E!Miss(t)
  <2>1. hook[t] # E!Idle
    BY <1>3, KernelNotIdle DEF E!Miss
  <2>2. [hook[t] EXCEPT !.at = "missed"] \in E!HookStates
    BY <2>1, KernelHookFields DEF E!HookStates
  <2>3. hook' \in [Threads -> E!HookStates]
    BY <1>3, <2>2 DEF E!Miss, E!TypeOK
  <2> QED BY <1>3, <2>3 DEF E!Miss, E!TypeOK, E!daemonVars
<1>4. CASE E!Reserve(t)
  <2>1. hook[t] # E!Idle
    BY <1>4, KernelNotIdle DEF E!Reserve
  <2>2. [hook[t] EXCEPT !.at = "reserved"] \in E!HookStates
    BY <2>1, KernelHookFields DEF E!HookStates
  <2>3. hook' \in [Threads -> E!HookStates]
    BY <1>4, <2>2 DEF E!Reserve, E!TypeOK
  <2> DEFINE e == E!ConnectEvent(hook[t].id, PidOf[t], hook[t].dst, program[PidOf[t]])
  <2>4. e \in E!Records
    <3>1. hook[t].id \in 1 .. MaxCalls /\ hook[t].dst \in Dsts
      BY <2>1, KernelHookFields
    <3>2. PidOf[t] \in Pids /\ program[PidOf[t]] \in Programs \cup {NoProgram}
      BY KernelAssumption DEF E!TypeOK
    <3> QED BY <3>1, <3>2 DEF E!Records
  <2>5. [event |-> e, busy |-> TRUE] \in E!Slots
    BY <2>4 DEF E!Slots
  <2>6. EVENTS' = Append(EVENTS, [event |-> e, busy |-> TRUE])
        /\ reported' = Append(reported, e)
    BY <1>4 DEF E!Reserve
  <2> HIDE DEF e
  <2>7. EVENTS' \in Seq(E!Slots) /\ reported' \in Seq(E!Records)
    BY <2>4, <2>5, <2>6 DEF E!TypeOK
  <2> QED BY <1>4, <2>3, <2>7 DEF E!Reserve, E!TypeOK, E!daemonVars
<1>5. CASE E!ReserveFails(t)
  <2>1. hook[t] # E!Idle
    BY <1>5, KernelNotIdle DEF E!ReserveFails
  <2> QED BY <1>5, <2>1, KernelReturnTyped DEF E!ReserveFails, E!TypeOK, E!daemonVars
<1>6. CASE E!Submit(t)
  <2>1. hook[t] # E!Idle
    BY <1>6, KernelNotIdle DEF E!Submit
  <2>2. PICK i \in 1 .. Len(EVENTS) :
            EVENTS' = [EVENTS EXCEPT ![i].busy = FALSE] /\ ev_edge' = (ev_edge \/ i = 1)
    BY <1>6 DEF E!Submit
  <2>3. [EVENTS[i] EXCEPT !.busy = FALSE] \in E!Slots
    <3>1. EVENTS \in Seq(E!Slots)
      BY DEF E!TypeOK
    <3>2. EVENTS[i] \in E!Slots
      BY <3>1
    <3> QED BY <3>2 DEF E!Slots
  <2>4. EVENTS' \in Seq(E!Slots)
    <3>1. EVENTS \in Seq(E!Slots)
      BY DEF E!TypeOK
    <3>2. EVENTS' = [EVENTS EXCEPT ![i] = [EVENTS[i] EXCEPT !.busy = FALSE]]
      BY <2>2
    <3> QED BY <2>3, <3>1, <3>2
  <2>5. ev_edge' \in BOOLEAN
    BY <2>2
  <2>6. E!Return(t, "passed")
    BY <1>6 DEF E!Submit
  <2>7. UNCHANGED <<program, ev_ready, E!daemonVars, VERDICT_CACHE, calls, execs,
                    reported, lost>>
    BY <1>6 DEF E!Submit
  <2> QED BY <2>1, <2>4, <2>5, <2>6, <2>7, KernelReturnTyped DEF E!TypeOK, E!daemonVars
<1> QED
  BY <1>1, <1>2, <1>3, <1>4, <1>5, <1>6 DEF E!Hook

\* Insertion into the cache, and the hooks it unbinds.
LEMMA KernelCacheTyped ==
    ASSUME E!TypeOK, NEW key \in E!Keys, E!CacheInsert(key)
    PROVE  VERDICT_CACHE' \in SUBSET E!Keys /\ lost' \in SUBSET E!Keys
  BY DEF E!CacheInsert, E!TypeOK

\* Calls that are no longer bound to be blocked stay well typed.
LEMMA KernelUnbindTyped ==
    ASSUME E!TypeOK, NEW dropped, E!Unbind(dropped)
    PROVE  hook' \in [Threads -> E!HookStates]
<1>1. ASSUME NEW t \in Threads, hook[t] # E!Idle
      PROVE  [hook[t] EXCEPT !.doomed = FALSE] \in E!HookStates
  BY <1>1, KernelHookFields DEF E!HookStates
<1>2. \A t \in Threads : hook[t] \in E!HookStates
  BY DEF E!TypeOK
<1> QED
  BY <1>1, <1>2 DEF E!Unbind

\* The record the drain works on.
LEMMA KernelHeadRecord ==
    ASSUME E!TypeOK, EVENTS # <<>>
    PROVE  Head(EVENTS) = EVENTS[1] /\ Head(EVENTS) \in E!Slots
           /\ Head(EVENTS).event \in E!Records
<1>1. EVENTS \in Seq(E!Slots)
  BY DEF E!TypeOK
<1>2. Head(EVENTS) = EVENTS[1] /\ Head(EVENTS) \in E!Slots
  BY <1>1
<1> QED BY <1>2 DEF E!Slots

\* Evaluating a record leaves types in order.
LEMMA KernelTypeHandle == ASSUME E!TypeOK, E!Handle PROVE E!TypeOK'
<1> DEFINE e == Head(EVENTS).event
           exe == E!ExeOf(e.pid)
           denied == <<exe, e.dst>> \in InForce
           entry == [event |-> e, exe |-> exe,
                     verdict |-> IF denied THEN "deny" ELSE "allow"]
<1>1. e \in E!Records /\ e.pid \in Pids /\ E!common_flow_key(e) \in E!Keys
  BY KernelHeadRecord, KernelKeyTyped DEF E!Handle, E!Readable
<1>2. exe \in Programs \cup {NoProgram}
  BY <1>1, KernelExeTyped
<1>3. /\ log' = Append(log, entry) /\ E!RememberExe(e.pid)
      /\ IF denied THEN E!CacheInsert(E!common_flow_key(e))
                   ELSE UNCHANGED <<VERDICT_CACHE, lost>>
      /\ E!Unbind(lost')
  BY DEF E!Handle
<1>4. entry \in E!Logged
  BY <1>1, <1>2 DEF E!Logged
<1> HIDE DEF entry, denied, exe, e
<1>5. log' \in Seq(E!Logged)
  BY <1>3, <1>4 DEF E!TypeOK
<1>6. VERDICT_CACHE' \in SUBSET E!Keys /\ lost' \in SUBSET E!Keys
  <2>1. CASE denied
    BY <1>1, <1>3, <2>1, KernelCacheTyped
  <2>2. CASE ~denied
    BY <1>3, <2>2 DEF E!TypeOK
  <2> QED BY <2>1, <2>2
<1>7. /\ DOMAIN exe_paths' \subseteq Pids
      /\ exe_paths' \in [DOMAIN exe_paths' -> Programs \cup {NoProgram}]
  <2>1. exe_paths' = [q \in DOMAIN exe_paths \cup {e.pid} |-> E!ExeOf(q)]
    BY <1>3 DEF E!RememberExe
  <2>2. DOMAIN exe_paths \subseteq Pids
    BY DEF E!TypeOK
  <2>3. \A q \in DOMAIN exe_paths \cup {e.pid} : E!ExeOf(q) \in Programs \cup {NoProgram}
    BY <1>1, <2>2, KernelExeTyped
  <2> QED BY <1>1, <2>1, <2>2, <2>3
<1>8. hook' \in [Threads -> E!HookStates]
  BY <1>3, KernelUnbindTyped
<1>9. /\ main' = "release"
      /\ UNCHANGED <<program, calls, execs, fate, EVENTS, ev_edge, ev_ready,
                     InForce, swaps, crashes, reported>>
  BY DEF E!Handle
<1> QED
  BY <1>5, <1>6, <1>7, <1>8, <1>9 DEF E!TypeOK

\* The death of the daemon leaves types in order.
LEMMA KernelTypeCrash == ASSUME E!TypeOK, E!Crash PROVE E!TypeOK'
<1>1. hook' \in [Threads -> E!HookStates]
  BY KernelIdleTyped DEF E!Crash
<1>2. fate' \in [1 .. MaxCalls ->
                 {"none", "open", "ignored", "blocked", "unlogged", "passed"}]
  BY DEF E!Crash, E!TypeOK
<1>3. EVENTS' \in Seq(E!Slots) /\ reported' \in Seq(E!Records) /\ log' \in Seq(E!Logged)
  BY DEF E!Crash
<1>4. /\ DOMAIN exe_paths' \subseteq Pids
      /\ exe_paths' \in [DOMAIN exe_paths' -> Programs \cup {NoProgram}]
  <2>1. exe_paths' = <<>>
    BY DEF E!Crash
  <2> QED BY <2>1
<1>5. ev_edge' \in BOOLEAN /\ ev_ready' \in BOOLEAN
  BY DEF E!Crash
<1>6. crashes' \in 0 .. MaxCrashes
  BY KernelAssumption DEF E!Crash, E!TypeOK
<1>7. /\ main' = "down" /\ VERDICT_CACHE' = {} /\ lost' = {}
      /\ InForce' \in SUBSET Pairs
      /\ UNCHANGED <<program, calls, execs, swaps>>
  BY KernelAssumption DEF E!Crash
<1> QED
  BY <1>1, <1>2, <1>3, <1>4, <1>5, <1>6, <1>7 DEF E!TypeOK

\* backfill_proc leaves types in order.
LEMMA KernelTypeBackfill == ASSUME E!TypeOK, E!Backfill PROVE E!TypeOK'
<1>1. /\ DOMAIN exe_paths' \subseteq Pids
      /\ exe_paths' \in [DOMAIN exe_paths' -> Programs \cup {NoProgram}]
  BY DEF E!Backfill, E!TypeOK
<1>2. /\ main' = "load"
      /\ UNCHANGED <<E!kernelVars, EVENTS, ev_edge, ev_ready, InForce,
                     VERDICT_CACHE, swaps, crashes, reported, log, lost>>
  BY DEF E!Backfill
<1> QED BY <1>1, <1>2 DEF E!TypeOK, E!kernelVars

\* So does the first load.
LEMMA KernelTypeBoot == ASSUME E!TypeOK, NEW r \in SUBSET Pairs, E!Boot(r) PROVE E!TypeOK'
<1>1. ev_edge' \in BOOLEAN
  BY DEF E!Boot
<1>2. /\ main' = "select" /\ InForce' = r
      /\ UNCHANGED <<E!kernelVars, EVENTS, ev_ready, exe_paths, VERDICT_CACHE, swaps,
                     crashes, reported, log, lost>>
  BY DEF E!Boot
<1> QED BY <1>1, <1>2 DEF E!TypeOK, E!kernelVars

\* So do the steps that touch little.
LEMMA KernelTypeRest ==
    ASSUME E!TypeOK,
           \/ E!TurnDriver \/ E!StartDrain \/ E!Release \/ E!DrainEnds \/ E!ClearReady
           \/ E!Restart \/ UNCHANGED E!vars
           \/ \E r \in SUBSET Pairs : E!SwapRules(r)
           \/ \E p \in Pids, g \in Programs \cup {NoProgram} : E!Exec(p, g)
    PROVE  E!TypeOK'
<1>1. CASE E!TurnDriver
  <2>1. ev_edge' \in BOOLEAN /\ ev_ready' \in BOOLEAN
    BY <1>1 DEF E!TurnDriver
  <2>2. UNCHANGED <<E!kernelVars, EVENTS, E!daemonVars, VERDICT_CACHE, reported, lost>>
    BY <1>1 DEF E!TurnDriver
  <2> QED BY <2>1, <2>2 DEF E!TypeOK, E!kernelVars, E!daemonVars
<1>2. CASE E!StartDrain
  BY <1>2 DEF E!StartDrain, E!TypeOK, E!kernelVars
<1>3. CASE E!Release
  <2>1. EVENTS' \in Seq(E!Slots)
    <3>1. EVENTS \in Seq(E!Slots) /\ EVENTS # <<>> /\ EVENTS' = Tail(EVENTS)
      BY <1>3 DEF E!Release, E!TypeOK
    <3> QED BY <3>1
  <2> QED BY <1>3, <2>1 DEF E!Release, E!TypeOK, E!kernelVars
<1>4. CASE E!DrainEnds
  BY <1>4 DEF E!DrainEnds, E!TypeOK, E!kernelVars
<1>5. CASE E!ClearReady
  <2>1. ev_ready' \in BOOLEAN /\ main' = "select"
    BY <1>5 DEF E!ClearReady
  <2>2. UNCHANGED <<E!kernelVars, EVENTS, ev_edge, InForce, exe_paths, swaps,
                   crashes, log, VERDICT_CACHE, reported, lost>>
    BY <1>5 DEF E!ClearReady
  <2> QED BY <2>1, <2>2 DEF E!TypeOK, E!kernelVars
<1>6. CASE E!Restart
  BY <1>6 DEF E!Restart, E!TypeOK, E!kernelVars
<1>7. CASE UNCHANGED E!vars
  BY <1>7 DEF E!vars, E!TypeOK
<1>8. ASSUME NEW r \in SUBSET Pairs, E!SwapRules(r) PROVE E!TypeOK'
  <2>1. swaps' \in 0 .. MaxSwaps /\ InForce' = r
    BY <1>8, KernelAssumption DEF E!SwapRules, E!TypeOK
  <2>2. UNCHANGED <<E!kernelVars, EVENTS, ev_edge, ev_ready, main, exe_paths,
                   VERDICT_CACHE, crashes, reported, log, lost>>
    BY <1>8 DEF E!SwapRules
  <2> QED BY <2>1, <2>2 DEF E!TypeOK, E!kernelVars
<1>9. ASSUME NEW p \in Pids, NEW g \in Programs \cup {NoProgram}, E!Exec(p, g)
      PROVE  E!TypeOK'
  <2>1. execs' \in 0 .. MaxExecs
    BY <1>9, KernelAssumption DEF E!Exec, E!TypeOK
  <2>2. program' \in [Pids -> Programs \cup {NoProgram}]
    BY <1>9 DEF E!Exec, E!TypeOK
  <2>3. UNCHANGED <<hook, EVENTS, ev_edge, ev_ready, E!daemonVars, VERDICT_CACHE,
                   calls, reported, fate, lost>>
    BY <1>9 DEF E!Exec
  <2> QED BY <2>1, <2>2, <2>3 DEF E!TypeOK, E!daemonVars
<1> QED
  BY <1>1, <1>2, <1>3, <1>4, <1>5, <1>6, <1>7, <1>8, <1>9

\* Types are preserved by every step.
LEMMA KernelTypeNext == E!TypeOK /\ [E!Next]_(E!vars) => E!TypeOK'
<1> SUFFICES ASSUME E!TypeOK, [E!Next]_(E!vars) PROVE E!TypeOK'
  OBVIOUS
<1> QED
  BY KernelTypeCalls, KernelTypeHook, KernelTypeHandle, KernelTypeCrash,
     KernelTypeBackfill, KernelTypeBoot, KernelTypeRest
  DEF E!Next, E!Startup, E!Drain

---------------------------------------------------------------------------
(* The two halves                                                          *)

\* What the rules in force deny is a set of pairs.
LEMMA PairsOnly == InForce \in SUBSET Pairs /\ Denied(rule_set) \in SUBSET Pairs
  BY DEF InForce, Denied

\* As long as the daemon lives, each of its steps is one of RuleReload or
\* leaves the directory and the lists alone.
LEMMA ReloadSteps ==
    ASSUME MainStep \/ Kernel \/ Directory \/ Restart PROVE [Next]_vars
<1>1. CASE Backfill \/ Turn \/ Kernel \/ Restart
  BY <1>1 DEF Backfill, Turn, Kernel, Restart
<1>2. CASE Load
  BY <1>2 DEF Load, Next, MainTask, Faults
<1>3. CASE Loaded
  BY <1>3 DEF Loaded, Next, MainTask, Faults
<1>4. CASE EnterLoop
  BY <1>4 DEF EnterLoop, Next, MainTask
<1>5. CASE StartReload
  BY <1>5 DEF StartReload, Next, MainTask
<1>6. CASE Directory
  BY <1>6 DEF Directory, Next
<1> QED BY <1>1, <1>2, <1>3, <1>4, <1>5, <1>6 DEF MainStep

\* A load, the other arms and the changes of the directory leave the list in
\* force alone, until the load ends.
LEMMA ListStays ==
    ASSUME Load \/ StartReload \/ Directory
    PROVE  UNCHANGED <<hookVars, main, swaps, rule_set>>
<1>1. CASE Load
  BY <1>1 DEF Load, OpenDir, ReadFile, ReadFails
<1>2. CASE StartReload
  BY <1>2 DEF StartReload, TakeReload
<1>3. CASE Directory
  BY <1>3 DEF Directory, Editors, Clients, Deliver, Edit, MakeDir, RemoveDir,
              WriteDenyRule, SetEnabled, ListRules, mainVars
<1> QED BY <1>1, <1>2, <1>3

\* Hooks and processes leave to the daemon what is the daemon's.
LEMMA KernelLeaves ==
    ASSUME Kernel
    PROVE  UNCHANGED <<vars, main, ev_ready, swaps, log, VERDICT_CACHE>>
<1>1. ASSUME NEW t \in Threads, NEW d \in Dsts, E!Call(t, d)
      PROVE  UNCHANGED <<main, ev_ready, swaps, log, VERDICT_CACHE>>
  BY <1>1 DEF E!Call, E!daemonVars
<1>2. ASSUME NEW t \in Threads, E!Hook(t)
      PROVE  UNCHANGED <<main, ev_ready, swaps, log, VERDICT_CACHE>>
  BY <1>2 DEF E!Hook, E!Ignore, E!Block, E!Miss, E!Reserve, E!ReserveFails,
              E!Submit, E!daemonVars
<1>3. ASSUME NEW p \in Pids, NEW g \in Programs \cup {NoProgram}, E!Exec(p, g)
      PROVE  UNCHANGED <<main, ev_ready, swaps, log, VERDICT_CACHE>>
  BY <1>3 DEF E!Exec, E!daemonVars
<1> QED BY <1>1, <1>2, <1>3 DEF Kernel

\* Every step of the daemon is one that Enforcement allows, or none of its
\* business.  The end of a load needs the interlock: the list changes while no
\* event is ready.
LEMMA KernelSteps ==
    ASSUME Interlock,
           \/ MainStep \/ Kernel \/ Directory \/ Crashes \/ Restart
           \/ UNCHANGED daemonVars
    PROVE  [E!Next]_(E!vars)
<1>1. ASSUME UNCHANGED <<hookVars, main, swaps, rule_set>> PROVE UNCHANGED E!vars
  <2>1. InForce' = InForce
    BY <1>1 DEF InForce, Denied
  <2> QED BY <1>1, <2>1 DEF hookVars, E!vars
<1>2. CASE Backfill
  BY <1>2 DEF Backfill, E!Startup, E!Next
<1>3. CASE Load \/ StartReload \/ Directory
  BY <1>1, <1>3, ListStays
<1>4. CASE Loaded
  <2>1. UNCHANGED <<hookVars, main>>
        /\ swaps' = IF InForce' = InForce THEN swaps ELSE swaps + 1
    BY <1>4 DEF Loaded
  <2>2. CASE InForce' = InForce
    BY <2>1, <2>2 DEF hookVars, E!vars
  <2>3. CASE InForce' # InForce
    <3>1. main = "select"
      BY <1>4, <2>1, <2>3 DEF Loaded, InForce
    <3>2. phase # "select"
      BY <1>4 DEF Loaded, FinishLoad, OpenDirFails
    <3>3. ~ev_ready /\ swaps < MaxSwaps
      BY <3>1, <3>2 DEF Interlock
    <3>4. PICK r \in SUBSET Pairs : r = InForce'
      BY DEF InForce, Denied
    <3>5. E!SwapRules(r)
      BY <2>1, <2>3, <3>1, <3>3, <3>4 DEF E!SwapRules, hookVars, E!kernelVars
    <3> QED BY <3>5 DEF E!Next
  <2> QED BY <2>2, <2>3
<1>5. CASE EnterLoop
  BY <1>5, PairsOnly DEF EnterLoop, E!Startup, E!Next
<1>6. CASE Turn
  BY <1>6 DEF Turn, E!Next
<1>7. CASE Kernel
  BY <1>7 DEF Kernel, E!Next
<1>8. CASE Crashes
  BY <1>8 DEF Crashes, Crash, CrashInWrite, Die, E!Next
<1>9. CASE Restart
  BY <1>9 DEF Restart, E!Next
<1>10. CASE UNCHANGED daemonVars
  BY <1>1, <1>10 DEF daemonVars, vars
<1> QED
  BY <1>2, <1>3, <1>4, <1>5, <1>6, <1>7, <1>8, <1>9, <1>10 DEF MainStep

\* The initial states are initial states of Enforcement.
LEMMA KernelInit == DaemonInit => E!Init
  BY DEF DaemonInit, E!Init, InForce

---------------------------------------------------------------------------
(* The inductive invariant                                                 *)

\* The death of the daemon keeps what RuleReload knows: nothing is loaded,
\* watched or on its way any more, and what is on disk is some contents.
LEMMA CrashKeeps == ASSUME IInv, Crashes PROVE IInv'
<1>1. /\ phase' = "open" /\ watcher' = "unset" /\ fs_events' = 0 /\ rules_rx' = 0
      /\ todo' = {} /\ loading' = <<>> /\ rule_set' = <<>>
      /\ unseen' = {} /\ faulted' = FALSE /\ edits' = edits
  BY DEF Crashes, Crash, CrashInWrite, Die
<1>2. /\ disk' \in [Files -> Contents \cup {Absent}] /\ dir_exists' \in BOOLEAN
      /\ acked' \in SUBSET AutoFiles
      /\ ~dir_exists' => \A f \in Files : disk'[f] = Absent
  <2>1. CASE Crash
    BY <2>1 DEF Crash, IInv, TypeOK, DirectoryOfFiles
  <2>2. ASSUME NEW f \in TomlFiles, NEW c \in Contents, CrashInWrite(f, c)
        PROVE  /\ disk' = [disk EXCEPT ![f] = c] /\ dir_exists' = TRUE
               /\ acked' = acked \ {f}
    BY <2>2 DEF CrashInWrite
  <2> QED BY <2>1, <2>2 DEF Crashes, IInv, TypeOK
<1>3. TypeOK'
  <2>1. fs_events' \in 0 .. MaxQueue /\ rules_rx' \in 0 .. MaxChan
    BY <1>1, BoundsAssumption
  <2>2. loading' \in Seq(Entries) /\ rule_set' \in Seq(Entries)
    BY <1>1
  <2>3. edits' \in 0 .. MaxEdits /\ todo' \subseteq Files /\ unseen' \subseteq Files
    BY <1>1 DEF IInv, TypeOK
  <2> QED BY <1>1, <1>2, <2>1, <2>2, <2>3 DEF TypeOK
<1>4. DirectoryOfFiles'
  BY <1>1, <1>2 DEF DirectoryOfFiles
<1>5. RulesOrdered'
  BY <1>1, EmptyList DEF RulesOrdered, Ordered
<1>6. LoadIsCurrent' /\ RulesCurrent'
  BY <1>1 DEF LoadIsCurrent, RulesCurrent
<1> QED BY <1>3, <1>4, <1>5, <1>6 DEF IInv

\* The interlock holds in every step.
LEMMA InterlockNext ==
    ASSUME Interlock,
           \/ MainStep \/ Kernel \/ Directory \/ Crashes \/ Restart
           \/ UNCHANGED daemonVars
    PROVE  Interlock'
<1>1. CASE Backfill
  BY <1>1 DEF Backfill, E!Backfill, Interlock, vars
<1>2. CASE Load
  <2>1. main \in {"load", "select"} /\ UNCHANGED <<hookVars, main, swaps>>
        /\ phase \in {"open", "scan"} /\ phase' = "scan" /\ watcher' = watcher
    BY <1>2 DEF Load, OpenDir, ReadFile, ReadFails
  <2> QED BY <2>1 DEF Interlock, hookVars
<1>3. CASE Loaded
  <2>1. main \in {"load", "select"} /\ UNCHANGED <<hookVars, main>>
        /\ phase \in {"open", "scan"} /\ phase' = AfterLoad /\ watcher' = watcher
    BY <1>3 DEF Loaded, FinishLoad, OpenDirFails
  <2> QED BY <2>1 DEF Interlock, AfterLoad
<1>4. CASE EnterLoop
  <2>1. main' = "select" /\ phase' = "select" /\ watcher' \in {"on", "off"}
    BY <1>4 DEF EnterLoop, StartWatch, E!Boot
  <2> QED BY <2>1 DEF Interlock
<1>5. CASE Turn
  <2>1. /\ phase = "select" /\ UNCHANGED <<phase, watcher>>
        /\ main \in {"select", "drain", "release", "clear"}
        /\ main' \in {"select", "drain", "release", "clear"}
    BY <1>5 DEF Turn, vars, E!TurnDriver, E!Drain, E!StartDrain, E!Handle,
                E!Release, E!DrainEnds, E!ClearReady, E!daemonVars
  <2> QED BY <2>1 DEF Interlock
<1>6. CASE StartReload
  <2>1. main = "select" /\ ~ev_ready /\ swaps < MaxSwaps /\ phase = "select"
        /\ phase' = "open" /\ UNCHANGED <<main, ev_ready, swaps, watcher>>
    BY <1>6 DEF StartReload, TakeReload, hookVars
  <2> QED BY <2>1 DEF Interlock
<1>7. CASE Kernel
  BY <1>7, KernelLeaves DEF Interlock, vars
<1>8. CASE Directory
  <2>1. /\ UNCHANGED <<phase, main, ev_ready, swaps>>
        /\ watcher' = watcher \/ (watcher = "on" /\ watcher' = "off")
    BY <1>8 DEF Directory, hookVars, Editors, Clients, Deliver, Edit, MakeDir,
                RemoveDir, WriteDenyRule, SetEnabled, ListRules, mainVars
  <2> QED BY <2>1 DEF Interlock
<1>9. CASE Crashes
  <2>1. main' = "down" /\ phase' = "open" /\ watcher' = "unset"
    BY <1>9 DEF Crashes, Crash, CrashInWrite, Die, E!Crash
  <2> QED BY <2>1 DEF Interlock
<1>10. CASE Restart
  BY <1>10 DEF Restart, E!Restart, Interlock, vars
<1>11. CASE UNCHANGED daemonVars
  BY <1>11 DEF daemonVars, hookVars, vars, Interlock
<1> QED
  BY <1>1, <1>2, <1>3, <1>4, <1>5, <1>6, <1>7, <1>8, <1>9, <1>10, <1>11 DEF MainStep

\* What a list holds.
Held(list) == {list[i] : i \in 1 .. Len(list)}

\* What a step of RuleReload puts into a list was in a list, or is what a file
\* contributes.
LEMMA ListsFrom ==
    ASSUME TypeOK, [Next]_vars
    PROVE  /\ Held(loading') \subseteq Held(loading) \cup Offered
           /\ Held(rule_set') \subseteq Held(rule_set) \cup Held(loading)
<1>1. CASE UNCHANGED <<loading, rule_set>>
  BY <1>1
<1>2. Held(<<>>) = {}
  BY DEF Held
<1>3. CASE OpenDir
  BY <1>2, <1>3 DEF OpenDir
<1>4. CASE OpenDirFails
  BY <1>2, <1>4 DEF OpenDirFails
<1>5. CASE FinishLoad
  BY <1>2, <1>5 DEF FinishLoad
<1>6. ASSUME NEW f \in Files, ReadFile(f)
      PROVE  Held(loading') \subseteq Held(loading) \cup Offered
             /\ rule_set' = rule_set
  <2>1. rule_set' = rule_set
    BY <1>6 DEF ReadFile
  <2>2. CASE loading' = loading
    BY <2>1, <2>2
  <2>3. CASE loading' # loading
    <3>1. f \in TomlFiles /\ Contributes(disk[f])
      BY <1>6, <2>3 DEF ReadFile
    <3> DEFINE r == Entry(f, disk[f])
    <3>2. PICK k \in 1 .. Len(loading) + 1 : loading' = InsertAt(loading, k, r)
      BY <1>6, <3>1 DEF ReadFile
    <3>3. r \in Entries /\ loading \in Seq(Entries)
      BY <3>1 DEF TypeOK, Contributes, Entries
    <3>4. r \in Offered
      BY <3>1 DEF Offered, Listed
    <3> HIDE DEF r
    <3>5. /\ Len(loading') = Len(loading) + 1
          /\ \A i \in 1 .. Len(loading') :
                loading'[i] = IF i < k THEN loading[i]
                              ELSE IF i = k THEN r ELSE loading[i - 1]
      BY <3>2, <3>3, InsertLemma
    <3>6. ASSUME NEW i \in 1 .. Len(loading')
          PROVE  loading'[i] \in Held(loading) \cup Offered
      <4>1. CASE i < k
        BY <3>3, <3>5, <4>1 DEF Held
      <4>2. CASE i = k
        BY <3>4, <3>5, <4>2
      <4>3. CASE i > k
        <5>1. i - 1 \in 1 .. Len(loading) /\ loading'[i] = loading[i - 1]
          BY <3>3, <3>5, <4>3
        <5> QED BY <5>1 DEF Held
      <4> QED BY <4>1, <4>2, <4>3
    <3> QED BY <2>1, <3>6 DEF Held
  <2> QED BY <2>2, <2>3
<1>7. CASE \/ StartWatch \/ TakeReload \/ Deliver \/ Editors \/ Clients
           \/ (\E f \in Files : ReadFails(f)) \/ UNCHANGED vars
  <2>1. UNCHANGED <<loading, rule_set>>
    BY <1>7 DEF StartWatch, TakeReload, Deliver, Editors, Clients, Edit, MakeDir,
                RemoveDir, WriteDenyRule, SetEnabled, ListRules, ReadFails,
                mainVars, vars
  <2> QED BY <1>1, <2>1
<1> QED
  BY <1>3, <1>4, <1>5, <1>6, <1>7 DEF Next, MainTask, Faults

\* Lists hold rules that the directory held.
LEMMA ListsNext ==
    ASSUME IInv, ListsAreOffered, [DaemonNext]_daemonVars
    PROVE  ListsAreOffered'
<1>1. seen \subseteq seen' /\ (Offered \subseteq seen => Offered' \subseteq seen')
  <2>1. CASE DaemonNext
    BY <2>1 DEF DaemonNext
  <2>2. CASE UNCHANGED daemonVars
    BY <2>2 DEF daemonVars, vars, Offered, Listed
  <2> QED BY <2>1, <2>2
<1>2. Held(loading) \subseteq seen /\ Held(rule_set) \subseteq seen /\ Offered \subseteq seen
  BY DEF ListsAreOffered, Held
<1>3. Held(loading') \subseteq seen' /\ Held(rule_set') \subseteq seen'
  <2>1. CASE [Next]_vars
    BY <1>1, <1>2, <2>1, ListsFrom DEF IInv
  <2>2. CASE Crashes
    <3>1. loading' = <<>> /\ rule_set' = <<>>
      BY <2>2 DEF Crashes, Crash, CrashInWrite, Die
    <3> QED BY <3>1 DEF Held
  <2>3. CASE UNCHANGED daemonVars
    BY <2>1, <2>3 DEF daemonVars
  <2> QED BY <2>1, <2>2, <2>3, ReloadSteps DEF DaemonNext
<1> QED BY <1>1, <1>2, <1>3 DEF ListsAreOffered, Held

\* A denial comes from a rule of the list in force.
LEMMA DeniedHasRule ==
    ASSUME TypeOK, NEW p \in Denied(rule_set)
    PROVE  \E r \in Held(rule_set) : r.action = "deny" /\ RuleMatches(r, FlowOf[p])
<1>1. Evaluate(rule_set, FlowOf[p]).action = "deny"
  BY DEF Denied
<1>2. Hits(rule_set, FlowOf[p]) # {}
  BY <1>1 DEF Evaluate, NoVerdict
<1>3. PICK i \in Hits(rule_set, FlowOf[p]) :
          Evaluate(rule_set, FlowOf[p]) = [action |-> rule_set[i].action,
                                           rule_id |-> rule_set[i].id]
  BY <1>2, EvaluateFirst DEF TypeOK
<1>4. rule_set[i] \in Held(rule_set) /\ RuleMatches(rule_set[i], FlowOf[p])
  BY DEF Hits, Held
<1> QED BY <1>1, <1>3, <1>4

\* Evaluating a record: it is logged under its pair, which the list in force
\* denies or not, and only a denial adds to the cache.
LEMMA HandleLogs ==
    ASSUME E!TypeOK, E!Handle
    PROVE  \E entry \in E!Logged :
              /\ log' = Append(log, entry)
              /\ <<entry.exe, entry.event.dst>> \in Pairs
              /\ entry.verdict = "deny" <=> <<entry.exe, entry.event.dst>> \in Denied(rule_set)
              /\ entry.verdict = "deny" =>
                    /\ VERDICT_CACHE' \subseteq
                          VERDICT_CACHE \cup {E!common_flow_key(entry.event)}
                    /\ E!common_flow_key(entry.event) \in VERDICT_CACHE' \cup lost'
              /\ entry.verdict # "deny" => VERDICT_CACHE' = VERDICT_CACHE
<1> DEFINE e == Head(EVENTS).event
           exe == E!ExeOf(e.pid)
           denied == <<exe, e.dst>> \in InForce
           entry == [event |-> e, exe |-> exe,
                     verdict |-> IF denied THEN "deny" ELSE "allow"]
<1>1. /\ log' = Append(log, entry)
      /\ IF denied THEN E!CacheInsert(E!common_flow_key(e))
                   ELSE UNCHANGED <<VERDICT_CACHE, lost>>
      /\ main = "drain" /\ EVENTS # <<>>
  BY DEF E!Handle, E!Readable
<1>2. e \in E!Records /\ e.pid \in Pids /\ e.dst \in Dsts
  <2>1. e \in E!Records
    BY <1>1, KernelHeadRecord
  <2>2. \A x \in E!Records : x.pid \in Pids /\ x.dst \in Dsts
    BY DEF E!Records, E!ConnectEvent
  <2> QED BY <2>1, <2>2
<1>3. exe \in Programs \cup {NoProgram}
  BY <1>2, KernelExeTyped
<1>4. InForce = Denied(rule_set)
  BY <1>1 DEF InForce
<1> HIDE DEF exe, e
<1>5. entry \in E!Logged /\ entry.exe = exe /\ entry.event = e
      /\ (entry.verdict = "deny" <=> denied)
  BY <1>2, <1>3 DEF E!Logged
<1>6. denied => /\ VERDICT_CACHE' \subseteq VERDICT_CACHE \cup {E!common_flow_key(e)}
                /\ E!common_flow_key(e) \in VERDICT_CACHE' \cup lost'
  BY <1>1 DEF E!CacheInsert
<1>7. <<exe, e.dst>> \in Pairs
  BY <1>2, <1>3 DEF Pairs
<1> HIDE DEF entry
<1> QED BY <1>1, <1>4, <1>5, <1>6, <1>7

\* Only the evaluation of a record and the death of the daemon change the
\* cache or the log.
LEMMA CacheSteps ==
    ASSUME [DaemonNext]_daemonVars
    PROVE  \/ UNCHANGED <<log, VERDICT_CACHE>> /\ ~(main = "drain" /\ main' = "release")
           \/ Turn /\ E!Handle
           \/ VERDICT_CACHE' = {} /\ main' = "down"
<1>1. CASE Backfill \/ EnterLoop \/ Restart
  BY <1>1 DEF Backfill, EnterLoop, Restart, E!Backfill, E!Boot, E!Restart
<1>2. CASE Load \/ Loaded \/ StartReload \/ Directory
  BY <1>2 DEF Load, Loaded, StartReload, Directory, hookVars
<1>3. CASE Turn
  BY <1>3 DEF Turn, E!TurnDriver, E!Drain, E!StartDrain, E!Release, E!DrainEnds,
              E!ClearReady, E!daemonVars
<1>4. CASE Kernel
  BY <1>4, KernelLeaves
<1>5. CASE Crashes
  BY <1>5 DEF Crashes, Crash, CrashInWrite, Die, E!Crash
<1>6. CASE UNCHANGED daemonVars
  BY <1>6 DEF daemonVars, hookVars
<1> QED BY <1>1, <1>2, <1>3, <1>4, <1>5, <1>6 DEF DaemonNext, MainStep

\* Whatever is blocked goes back to a rule, in every step.
LEMMA BlocksNext ==
    ASSUME DaemonIInv, [DaemonNext]_daemonVars
    PROVE  BlocksHaveRules'
<1>1. /\ TypeOK /\ E!TypeOK /\ BlocksHaveRules /\ log \in Seq(E!Logged)
      /\ Held(rule_set) \subseteq seen
  BY DEF DaemonIInv, IInv, E!TypeOK, ListsAreOffered, Held
<1>2. seen \subseteq seen'
  BY DEF DaemonNext, daemonVars
<1>3. CASE UNCHANGED <<log, VERDICT_CACHE>>
  BY <1>1, <1>2, <1>3 DEF BlocksHaveRules, DeniedByRule
<1>4. CASE Turn /\ E!Handle
  <2>1. PICK entry \in E!Logged :
            /\ log' = Append(log, entry)
            /\ entry.verdict = "deny" <=> <<entry.exe, entry.event.dst>> \in Denied(rule_set)
            /\ entry.verdict = "deny" =>
                  VERDICT_CACHE' \subseteq VERDICT_CACHE \cup {E!common_flow_key(entry.event)}
            /\ entry.verdict # "deny" => VERDICT_CACHE' = VERDICT_CACHE
    BY <1>1, <1>4, HandleLogs
  <2>2. /\ Len(log') = Len(log) + 1 /\ log'[Len(log) + 1] = entry
        /\ \A i \in 1 .. Len(log) : log'[i] = log[i]
    BY <1>1, <2>1
  <2>3. Len(log) \in Nat
    BY <1>1
  <2> SUFFICES ASSUME NEW k \in VERDICT_CACHE'
               PROVE  \E i \in 1 .. Len(log') :
                         E!common_flow_key(log'[i].event) = k /\ DeniedByRule(i)'
    BY DEF BlocksHaveRules, E!common_flow_key
  <2>4. CASE k \in VERDICT_CACHE
    <3>1. PICK i \in 1 .. Len(log) : E!common_flow_key(log[i].event) = k /\ DeniedByRule(i)
      BY <1>1, <2>4 DEF BlocksHaveRules
    <3>2. i \in 1 .. Len(log') /\ log'[i] = log[i]
      BY <2>2, <2>3
    <3>3. DeniedByRule(i)'
      BY <1>2, <3>1, <3>2 DEF DeniedByRule
    <3> QED BY <3>1, <3>2, <3>3
  <2>5. CASE k \notin VERDICT_CACHE
    <3>1. /\ entry.verdict = "deny" /\ k = E!common_flow_key(entry.event)
          /\ <<entry.exe, entry.event.dst>> \in Denied(rule_set)
      BY <2>1, <2>5
    <3>2. PICK r \in seen :
              /\ r.action = "deny"
              /\ RuleMatches(r, FlowOf[<<entry.exe, entry.event.dst>>])
      BY <1>1, <3>1, DeniedHasRule
    <3>3. PICK n \in 1 .. Len(log') : log'[n] = entry
      BY <2>2, <2>3
    <3>4. DeniedByRule(n)'
      BY <1>2, <3>1, <3>2, <3>3 DEF DeniedByRule
    <3> QED BY <3>1, <3>3, <3>4
  <2> QED BY <2>4, <2>5
<1>5. CASE VERDICT_CACHE' = {}
  BY <1>5 DEF BlocksHaveRules
<1> QED BY <1>3, <1>4, <1>5, CacheSteps

\* The initial states satisfy the inductive invariant.
LEMMA DaemonInvariantInit == DaemonInit => DaemonIInv
<1> SUFFICES ASSUME DaemonInit PROVE DaemonIInv
  OBVIOUS
<1>1. IInv
  BY InvariantInit DEF DaemonInit
<1>2. E!TypeOK
  BY KernelInit, KernelTypeInit
<1>3. Interlock
  BY DEF DaemonInit, Init, Interlock
<1>4. ListsAreOffered
  BY DEF DaemonInit, Init, ListsAreOffered
<1>5. BlocksHaveRules
  BY DEF DaemonInit, BlocksHaveRules
<1> QED BY <1>1, <1>2, <1>3, <1>4, <1>5 DEF DaemonIInv

\* Every step keeps it.
LEMMA DaemonInvariantNext == DaemonIInv /\ [DaemonNext]_daemonVars => DaemonIInv'
<1> SUFFICES ASSUME DaemonIInv, [DaemonNext]_daemonVars PROVE DaemonIInv'
  OBVIOUS
<1>1. \/ MainStep \/ Kernel \/ Directory \/ Crashes \/ Restart
      \/ UNCHANGED daemonVars
  BY DEF DaemonNext
<1>2. IInv'
  <2>1. [Next]_vars \/ Crashes
    BY <1>1, ReloadSteps DEF daemonVars
  <2> QED BY <2>1, InvariantNext, CrashKeeps DEF DaemonIInv
<1>3. E!TypeOK'
  BY <1>1, KernelSteps, KernelTypeNext DEF DaemonIInv
<1>4. Interlock'
  BY <1>1, InterlockNext DEF DaemonIInv
<1>5. ListsAreOffered'
  BY ListsNext DEF DaemonIInv
<1> QED BY <1>2, <1>3, <1>4, <1>5, BlocksNext DEF DaemonIInv

\* The daemon and the kernel keep the inductive invariant: what RuleReload
\* shows of the lists, the types, the interlock and the origin of denials.
THEOREM DaemonInvariant == DaemonSpec => []DaemonIInv
  BY DaemonInvariantInit, DaemonInvariantNext, PTL DEF DaemonSpec

---------------------------------------------------------------------------
(* What follows                                                            *)

\* Whatever the kernel blocks was denied since the daemon started, by a rule
\* that the directory held: for any rules, flows, crashes and torn writes.
THEOREM BlocksComeFromRules == DaemonSpec => []BlocksHaveRules
<1>1. DaemonIInv => BlocksHaveRules
  BY DEF DaemonIInv
<1> QED BY <1>1, DaemonInvariant, PTL

\* The verdict on a record evaluated while no change is on its way is the one
\* the directory asks for, and a denial reaches the cache unless it is refused.
LEMMA EnforcedNext ==
    ASSUME DaemonIInv, [DaemonNext]_daemonVars, main = "drain", main' = "release",
           Quiet, ~faulted, unseen = {}
    PROVE  LET entry == log'[Len(log')]
               flow == FlowOf[<<entry.exe, entry.event.dst>>]
           IN /\ \/ Matching(flow) = {} /\ entry.verdict = "allow"
                 \/ \E f \in Deciding(flow) :
                       entry.verdict = "deny" <=> disk[f].action = "deny"
              /\ entry.verdict = "deny" =>
                    E!common_flow_key(entry.event) \in VERDICT_CACHE' \cup lost'
<1>1. Turn /\ E!Handle
  BY CacheSteps
<1>2. IInv /\ E!TypeOK /\ phase = "select" /\ log \in Seq(E!Logged)
  BY <1>1 DEF DaemonIInv, Turn, E!TypeOK
<1>3. PICK entry \in E!Logged :
          /\ log' = Append(log, entry)
          /\ <<entry.exe, entry.event.dst>> \in Pairs
          /\ entry.verdict = "deny" <=> <<entry.exe, entry.event.dst>> \in Denied(rule_set)
          /\ entry.verdict = "deny" =>
                E!common_flow_key(entry.event) \in VERDICT_CACHE' \cup lost'
  BY <1>1, <1>2, HandleLogs
<1>4. log'[Len(log')] = entry
  BY <1>2, <1>3
<1> DEFINE flow == FlowOf[<<entry.exe, entry.event.dst>>]
<1>5. entry.verdict = "deny" <=> Evaluate(rule_set, flow).action = "deny"
  BY <1>3 DEF Denied
<1>6. entry.verdict \in {"allow", "deny"}
  BY DEF E!Logged
<1> HIDE DEF flow
<1>7. \/ Matching(flow) = {} /\ Evaluate(rule_set, flow) = NoVerdict
      \/ \E f \in Matching(flow) :
            /\ \A g \in Matching(flow) : disk[f].priority <= disk[g].priority
            /\ Decides(f, flow)
  BY <1>2, MirrorDecides
<1>8. CASE Matching(flow) = {} /\ Evaluate(rule_set, flow) = NoVerdict
  <2>1. NoVerdict.action = "allow"
    BY DEF NoVerdict
  <2>2. entry.verdict = "allow"
    BY <1>5, <1>6, <1>8, <2>1
  <2> QED BY <1>3, <1>4, <1>8, <2>2 DEF flow
<1>9. ASSUME NEW f \in Matching(flow), Decides(f, flow),
             \A g \in Matching(flow) : disk[f].priority <= disk[g].priority
      PROVE  f \in Deciding(flow) /\ (entry.verdict = "deny" <=> disk[f].action = "deny")
  BY <1>5, <1>9 DEF Deciding, Decides
<1> QED BY <1>3, <1>4, <1>7, <1>8, <1>9 DEF flow

\* Text of a rule to verdict to cache, for any rules and flows.
THEOREM RulesAreEnforced == DaemonSpec => DirectoryIsEnforced
<1>1. DaemonIInv /\ [DaemonNext]_daemonVars =>
        [ main = "drain" /\ main' = "release" /\ Quiet /\ ~faulted /\ unseen = {} =>
          LET entry == log'[Len(log')]
              flow == FlowOf[<<entry.exe, entry.event.dst>>]
          IN /\ \/ Matching(flow) = {} /\ entry.verdict = "allow"
                \/ \E f \in Deciding(flow) :
                      entry.verdict = "deny" <=> disk[f].action = "deny"
             /\ entry.verdict = "deny" =>
                   E!common_flow_key(entry.event) \in VERDICT_CACHE' \cup lost'
        ]_daemonVars
  BY EnforcedNext
<1> QED BY <1>1, DaemonInvariant, PTL DEF DaemonSpec, DirectoryIsEnforced

\* The daemon implements Enforcement: startup, a reload of many steps and a
\* crash are each, for the kernel's side, what Enforcement does in one step.
THEOREM DaemonImplementsEnforcement == DaemonSpec => ImplementsEnforcement
<1>1. DaemonIInv /\ [DaemonNext]_daemonVars => [E!Next]_(E!vars)
  BY KernelSteps DEF DaemonIInv, DaemonNext
<1> QED
  BY <1>1, KernelInit, DaemonInvariant, PTL DEF DaemonSpec, ImplementsEnforcement
=============================================================================
