----------------------------- MODULE Enforcement -----------------------------
(***************************************************************************)
(* How a deny rule comes to block a flow in the kernel.  The cgroup hooks  *)
(* of dadophoros-ebpf/src/main.rs run in the calling thread: they look the *)
(* flow up in VERDICT_CACHE and report what they let pass in the ring      *)
(* buffer EVENTS.  The select loop of dadophoros-daemon/src/main.rs is     *)
(* woken by the buffer, drains it, evaluates the rules and puts denied     *)
(* flows into VERDICT_CACHE.                                               *)
(*                                                                         *)
(* dst stands for address, port and family together.  The rules in force   *)
(* are the set of <<program, dst>> pairs that they deny; what is reloaded, *)
(* and a DNS answer that makes a host rule match, changes this set between *)
(* two drains (RuleReload models the reload itself).                       *)
(***************************************************************************)
EXTENDS Integers, Sequences, FiniteSets

CONSTANTS
    Threads,      \* threads that call connect or sendmsg
    Pids,
    PidOf,        \* the process of a thread
    Programs,     \* executables; a pid runs one at a time
    Dsts,
    Unwatched,    \* destinations the hooks skip: port 0, loopback datagrams
    RuleSets,     \* what the rules may deny
    NoProgram,    \* a pid without a process; also a path that is not known
    RingCap,      \* records EVENTS has room for
    CacheCap,     \* entries of VERDICT_CACHE
    CacheFaults,  \* can an insertion into VERDICT_CACHE fail
    MaxCalls,     \* bounds of the numbers of calls, of new programs under a
    MaxExecs,     \* pid (exec, exit, reuse of the pid), of changes of the
    MaxSwaps,     \* rules and of crashes
    MaxCrashes

ASSUME ThreadsAssumption == PidOf \in [Threads -> Pids]

ASSUME ProgramsAssumption == NoProgram \notin Programs

ASSUME LimitsAssumption ==
    /\ RingCap \in Nat \ {0} /\ CacheCap \in Nat \ {0} /\ CacheFaults \in BOOLEAN
    /\ MaxCalls \in Nat /\ MaxExecs \in Nat /\ MaxSwaps \in Nat /\ MaxCrashes \in Nat
    /\ {} \in RuleSets /\ \A r \in RuleSets : r \subseteq (Programs \cup {NoProgram}) \X Dsts

VARIABLES
    hook,       \* per thread: where the hook is, and on behalf of which call
    program,    \* per pid: what it runs
    EVENTS,     \* the ring buffer, consumer's end first
    ev_edge,    \* a wakeup the event driver has not collected
    ev_ready,   \* tokio's readiness flag of events_fd
    main,       \* the daemon: "boot", "load", "select", "drain", "release",
                \* "clear", "down"
    rule_set,   \* what the rules in force deny
    exe_paths,  \* the daemon's path cache, a function on the pids it knows
    VERDICT_CACHE,
    calls, execs, swaps, crashes,
    reported,   \* history: reserved records in order, since the last start
    log,        \* history: evaluated records in order, since the last start
    fate,       \* history: what became of each call
    lost        \* history: denied keys evicted or not inserted since

kernelVars == <<hook, program, calls, execs, fate>>
daemonVars == <<main, rule_set, exe_paths, swaps, crashes, log>>
vars == <<hook, program, EVENTS, ev_edge, ev_ready, main, rule_set, exe_paths,
          VERDICT_CACHE, calls, execs, swaps, crashes, reported, log, fate, lost>>

---------------------------------------------------------------------------
(* Keys and records                                                        *)

\* FlowKey as the hook fills it: start_ns is always zero, so a key does not
\* tell a process from a later one with its pid.
FlowKey(pid, dst) == [pid |-> pid, start_ns |-> 0, dst |-> dst]

\* ConnectEvent; "by" is history, the program that made the call.
ConnectEvent(id, pid, dst, by) ==
    [id |-> id, pid |-> pid, start_ns |-> 0, dst |-> dst, by |-> by]

\* Variant: the daemon knows when the process started, and says so in the key.
common_flow_key_started(e) == [pid |-> e.pid, start_ns |-> 1, dst |-> e.dst]

\* The key the daemon derives from an event.
common_flow_key(e) == [pid |-> e.pid, start_ns |-> e.start_ns, dst |-> e.dst]

Keys == {FlowKey(p, d) : p \in Pids, d \in Dsts}
Records == {ConnectEvent(i, p, d, b) :
              i \in 1 .. MaxCalls, p \in Pids, d \in Dsts,
              b \in Programs \cup {NoProgram}}
Slots == [event : Records, busy : BOOLEAN]
Logged == [event : Records, exe : Programs \cup {NoProgram},
           verdict : {"allow", "deny"}]

Idle == [at |-> "idle"]
HookStates == {Idle} \cup
    [at : {"called", "missed", "reserved"}, id : 1 .. MaxCalls, dst : Dsts,
     doomed : BOOLEAN]

KeyOf(t) == FlowKey(PidOf[t], hook[t].dst)

\* Flows the daemon has denied, and whose cache entry it did not lose.
DeniedKeys == {common_flow_key(log[i].event) :
                 i \in {j \in 1 .. Len(log) : log[j].verdict = "deny"}}
Enforced == DeniedKeys \ lost

Init ==
    /\ hook = [t \in Threads |-> Idle]
    /\ program \in [Pids -> Programs]
    /\ EVENTS = <<>> /\ ev_edge = FALSE /\ ev_ready = FALSE
    /\ main = "boot" /\ rule_set = {}
    /\ exe_paths = <<>> /\ VERDICT_CACHE = {}
    /\ calls = 0 /\ execs = 0 /\ swaps = 0 /\ crashes = 0
    /\ reported = <<>> /\ log = <<>> /\ lost = {}
    /\ fate = [i \in 1 .. MaxCalls |-> "none"]

---------------------------------------------------------------------------
(* The hooks                                                               *)

\* A thread calls connect or sendmsg while the hooks are attached.  "doomed"
\* is history: the flow was denied, and in the cache, before the call.
Call(t, dst) ==
    /\ main # "down" /\ hook[t] = Idle /\ program[PidOf[t]] # NoProgram
    /\ calls < MaxCalls /\ calls' = calls + 1
    /\ hook' = [hook EXCEPT ![t] =
                  [at |-> "called", id |-> calls', dst |-> dst,
                   doomed |-> FlowKey(PidOf[t], dst) \in Enforced]]
    /\ fate' = [fate EXCEPT ![calls'] = "open"]
    /\ UNCHANGED <<program, EVENTS, ev_edge, ev_ready, daemonVars,
                   VERDICT_CACHE, execs, reported, lost>>

\* The hook lets the call go on its way or refuses it.
Return(t, what) ==
    /\ hook' = [hook EXCEPT ![t] = Idle]
    /\ fate' = [fate EXCEPT ![hook[t].id] = what]

\* Port 0 or a datagram to loopback: let it pass, say nothing.
Ignore(t) ==
    /\ hook[t].at = "called" /\ hook[t].dst \in Unwatched
    /\ Return(t, "ignored")
    /\ UNCHANGED <<program, EVENTS, ev_edge, ev_ready, daemonVars,
                   VERDICT_CACHE, calls, execs, reported, lost>>

\* The flow is in the cache: the call fails, and nothing is reported.
Block(t) ==
    /\ hook[t].at = "called" /\ hook[t].dst \notin Unwatched
    /\ KeyOf(t) \in VERDICT_CACHE
    /\ Return(t, "blocked")
    /\ UNCHANGED <<program, EVENTS, ev_edge, ev_ready, daemonVars,
                   VERDICT_CACHE, calls, execs, reported, lost>>

\* Variant: the lookup is left out, as on one of the two address families.
MissAlways(t) ==
    /\ hook[t].at = "called" /\ hook[t].dst \notin Unwatched
    /\ hook' = [hook EXCEPT ![t].at = "missed"]
    /\ UNCHANGED <<program, EVENTS, ev_edge, ev_ready, daemonVars,
                   VERDICT_CACHE, calls, execs, reported, fate, lost>>

\* The flow is not in the cache: the call will pass.
Miss(t) ==
    /\ hook[t].at = "called" /\ hook[t].dst \notin Unwatched
    /\ KeyOf(t) \notin VERDICT_CACHE
    /\ hook' = [hook EXCEPT ![t].at = "missed"]
    /\ UNCHANGED <<program, EVENTS, ev_edge, ev_ready, daemonVars,
                   VERDICT_CACHE, calls, execs, reported, fate, lost>>

\* EVENTS.reserve: a busy record at the producers' end.
Reserve(t) ==
    /\ hook[t].at = "missed" /\ Len(EVENTS) < RingCap
    /\ LET e == ConnectEvent(hook[t].id, PidOf[t], hook[t].dst, program[PidOf[t]])
       IN /\ EVENTS' = Append(EVENTS, [event |-> e, busy |-> TRUE])
          /\ reported' = Append(reported, e)
    /\ hook' = [hook EXCEPT ![t].at = "reserved"]
    /\ UNCHANGED <<program, ev_edge, ev_ready, daemonVars, VERDICT_CACHE,
                   calls, execs, fate, lost>>

\* EVENTS is full: the flow passes and is not reported.
ReserveFails(t) ==
    /\ hook[t].at = "missed" /\ Len(EVENTS) >= RingCap
    /\ Return(t, "unlogged")
    /\ UNCHANGED <<program, EVENTS, ev_edge, ev_ready, daemonVars,
                   VERDICT_CACHE, calls, execs, reported, lost>>

\* Variant: submitted with BPF_RB_NO_WAKEUP.
SubmitQuietly(t) ==
    /\ hook[t].at = "reserved"
    /\ \E i \in 1 .. Len(EVENTS) :
          /\ EVENTS[i].event.id = hook[t].id
          /\ EVENTS' = [EVENTS EXCEPT ![i].busy = FALSE]
    /\ Return(t, "passed")
    /\ UNCHANGED <<program, ev_edge, ev_ready, daemonVars, VERDICT_CACHE,
                   calls, execs, reported, lost>>

\* entry.submit(0): the record is no longer busy, and the kernel wakes the
\* consumer when the consumer stands at this very record.
Submit(t) ==
    /\ hook[t].at = "reserved"
    /\ \E i \in 1 .. Len(EVENTS) :
          /\ EVENTS[i].event.id = hook[t].id
          /\ EVENTS' = [EVENTS EXCEPT ![i].busy = FALSE]
          /\ ev_edge' = (ev_edge \/ i = 1)
    /\ Return(t, "passed")
    /\ UNCHANGED <<program, ev_ready, daemonVars, VERDICT_CACHE, calls, execs,
                   reported, lost>>

\* execve, exit, or a new process under the pid; no thread of it is in a hook.
Exec(p, g) ==
    /\ execs < MaxExecs /\ execs' = execs + 1
    /\ g # program[p] /\ \A t \in Threads : PidOf[t] = p => hook[t] = Idle
    /\ program' = [program EXCEPT ![p] = g]
    /\ UNCHANGED <<hook, EVENTS, ev_edge, ev_ready, daemonVars, VERDICT_CACHE,
                   calls, reported, fate, lost>>

---------------------------------------------------------------------------
(* The daemon                                                              *)

\* Startup, after the hooks are attached: backfill_proc.
Backfill ==
    /\ main = "boot" /\ main' = "load"
    /\ exe_paths' = [p \in {q \in Pids : program[q] # NoProgram} |-> program[p]]
    /\ UNCHANGED <<kernelVars, EVENTS, ev_edge, ev_ready, rule_set, VERDICT_CACHE,
                   swaps, crashes, reported, log, lost>>

\* Variant: the buffer is registered with what it holds already unnoticed.
BootUnaware(r) ==
    /\ main = "load" /\ main' = "select"
    /\ rule_set' = r
    /\ ev_edge' = FALSE
    /\ UNCHANGED <<kernelVars, EVENTS, ev_ready, exe_paths, VERDICT_CACHE, swaps,
                   crashes, reported, log, lost>>

\* The first load of the rules, and AsyncFd::new, which learns of records that
\* are there already.
Boot(r) ==
    /\ main = "load" /\ main' = "select"
    /\ rule_set' = r
    /\ ev_edge' = (EVENTS # <<>>)
    /\ UNCHANGED <<kernelVars, EVENTS, ev_ready, exe_paths, VERDICT_CACHE, swaps,
                   crashes, reported, log, lost>>

\* The main task waits; the event driver collects the wakeup, which counts
\* only if the buffer holds a record (busy or not) at that moment.
TurnDriver ==
    /\ main = "select" /\ ~ev_ready /\ ev_edge
    /\ ev_edge' = FALSE /\ ev_ready' = (EVENTS # <<>>)
    /\ UNCHANGED <<kernelVars, EVENTS, daemonVars, VERDICT_CACHE, reported, lost>>

\* The reload arm: the rules that a load brings into force deny r.  The select is
\* biased, so that this comes only when no event is ready.
SwapRules(r) ==
    /\ main = "select" /\ ~ev_ready
    /\ swaps < MaxSwaps /\ swaps' = swaps + 1
    /\ r # rule_set /\ rule_set' = r
    /\ UNCHANGED <<kernelVars, EVENTS, ev_edge, ev_ready, main, exe_paths,
                   VERDICT_CACHE, crashes, reported, log, lost>>

\* The events arm of select: readable_mut() returned a guard.
StartDrain ==
    /\ main = "select" /\ ev_ready
    /\ main' = "drain"
    /\ UNCHANGED <<kernelVars, EVENTS, ev_edge, ev_ready, rule_set, exe_paths,
                   swaps, crashes, log, VERDICT_CACHE, reported, lost>>

\* lookup_exe: the path is read from /proc once per pid and kept for good, an
\* unreadable one too.
ExeOf(p) == IF p \in DOMAIN exe_paths THEN exe_paths[p] ELSE program[p]

\* The path cache after lookup_exe(p).
RememberExe(p) ==
    exe_paths' = [q \in DOMAIN exe_paths \cup {p} |-> ExeOf(q)]

\* Variant: the whole process is shut out, not the one flow.
CacheInsertProcess(key) ==
    /\ VERDICT_CACHE' = VERDICT_CACHE \cup {FlowKey(key.pid, d) : d \in Dsts}
    /\ lost' = lost \ {key}

\* Variant: a cache that is full takes nothing more, and nobody is told.
CacheInsertIfRoom(key) ==
    /\ VERDICT_CACHE' = IF Cardinality(VERDICT_CACHE) < CacheCap
                        THEN VERDICT_CACHE \cup {key} ELSE VERDICT_CACHE
    /\ lost' = lost \ {key}

\* verdict_cache.insert: an LRU map makes room by dropping some of the other
\* entries, perhaps more than it has to and before it is full; an insertion that
\* fails is only logged.  Dropped keys are recorded as lost, and calls under way
\* for them are no longer bound to be blocked.
CacheInsert(key) ==
    \/ \E old \in SUBSET (VERDICT_CACHE \ {key}) :
          /\ VERDICT_CACHE' = (VERDICT_CACHE \ old) \cup {key}
          /\ Cardinality(VERDICT_CACHE') <= CacheCap
          /\ lost' = (lost \ {key}) \cup old
    \/ /\ CacheFaults
       /\ VERDICT_CACHE' = VERDICT_CACHE
       /\ lost' = IF key \in VERDICT_CACHE THEN lost ELSE lost \cup {key}

\* A call that was bound to be blocked stays so unless its key was dropped.
Unbind(dropped) ==
    hook' = [t \in Threads |->
               IF hook[t] # Idle /\ KeyOf(t) \in dropped
               THEN [hook[t] EXCEPT !.doomed = FALSE] ELSE hook[t]]

\* rb.next() returns a record: there is one, and its producer is done with it.
Readable == EVENTS # <<>> /\ ~Head(EVENTS).busy

\* One record of the drain: path, verdict, and the cache entry of a denial.
\* The record keeps its place in the buffer until the loop body ends.
Handle ==
    /\ main = "drain" /\ Readable
    /\ LET e == Head(EVENTS).event
           exe == ExeOf(e.pid)
           denied == <<exe, e.dst>> \in rule_set
       IN /\ RememberExe(e.pid)
          /\ log' = Append(log, [event |-> e, exe |-> exe,
                                 verdict |-> IF denied THEN "deny" ELSE "allow"])
          /\ IF denied THEN CacheInsert(common_flow_key(e))
                       ELSE UNCHANGED <<VERDICT_CACHE, lost>>
    /\ Unbind(lost')
    /\ main' = "release"
    /\ UNCHANGED <<program, calls, execs, fate, EVENTS, ev_edge, ev_ready,
                   rule_set, swaps, crashes, reported>>

\* Variant: the consumer's position is not moved on.
ReleaseNothing ==
    /\ main = "release" /\ main' = "drain"
    /\ UNCHANGED <<kernelVars, EVENTS, ev_edge, ev_ready, rule_set, exe_paths,
                   swaps, crashes, log, VERDICT_CACHE, reported, lost>>

\* The item is dropped at the end of the body: its room is free again.
Release ==
    /\ main = "release" /\ main' = "drain"
    /\ EVENTS # <<>> /\ EVENTS' = Tail(EVENTS)
    /\ UNCHANGED <<kernelVars, ev_edge, ev_ready, rule_set, exe_paths, swaps,
                   crashes, log, VERDICT_CACHE, reported, lost>>

\* rb.next() returns None: the loop ends.
DrainEnds ==
    /\ main = "drain" /\ ~Readable
    /\ main' = "clear"
    /\ UNCHANGED <<kernelVars, EVENTS, ev_edge, ev_ready, rule_set, exe_paths,
                   swaps, crashes, log, VERDICT_CACHE, reported, lost>>

\* Variant: a wakeup that came since the drain began is thrown away too.
ClearAll ==
    /\ main = "clear" /\ main' = "select"
    /\ ev_ready' = FALSE /\ ev_edge' = FALSE
    /\ UNCHANGED <<kernelVars, EVENTS, rule_set, exe_paths, swaps, crashes,
                   log, VERDICT_CACHE, reported, lost>>

\* guard.clear_ready(): the flag only; a wakeup since then is the driver's.
ClearReady ==
    /\ main = "clear" /\ main' = "select"
    /\ ev_ready' = FALSE
    /\ UNCHANGED <<kernelVars, EVENTS, ev_edge, rule_set, exe_paths, swaps,
                   crashes, log, VERDICT_CACHE, reported, lost>>

\* The daemon dies: programs and maps live only as long as it holds them, so
\* hooks, cache and reported records are gone.
Crash ==
    /\ main # "down" /\ main' = "down"
    /\ crashes < MaxCrashes /\ crashes' = crashes + 1
    /\ hook' = [t \in Threads |-> Idle]
    /\ fate' = [i \in 1 .. MaxCalls |->
                  IF fate[i] = "open" THEN "unlogged" ELSE fate[i]]
    /\ EVENTS' = <<>> /\ ev_edge' = FALSE /\ ev_ready' = FALSE
    /\ VERDICT_CACHE' = {} /\ exe_paths' = <<>>
    /\ reported' = <<>> /\ log' = <<>> /\ lost' = {} /\ rule_set' = {}
    /\ UNCHANGED <<program, calls, execs, swaps>>

\* It is started again.
Restart ==
    /\ main = "down" /\ main' = "boot"
    /\ UNCHANGED <<kernelVars, EVENTS, ev_edge, ev_ready, rule_set, exe_paths,
                   swaps, crashes, log, VERDICT_CACHE, reported, lost>>

---------------------------------------------------------------------------
(* The system                                                              *)

\* What a hook does once it is called; it never waits.
Hook(t) == Ignore(t) \/ Block(t) \/ Miss(t) \/ Reserve(t) \/ ReserveFails(t)
           \/ Submit(t)
Startup == Backfill \/ \E r \in RuleSets : Boot(r)
Drain == StartDrain \/ Handle \/ Release \/ DrainEnds \/ ClearReady

Next ==
    \/ \E t \in Threads : (\E d \in Dsts : Call(t, d)) \/ Hook(t)
    \/ \E p \in Pids, g \in Programs \cup {NoProgram} : Exec(p, g)
    \/ Startup \/ TurnDriver \/ Drain
    \/ \E r \in RuleSets : SwapRules(r)
    \/ Crash \/ Restart

\* Hooks run to their end, and the daemon's runtime keeps polling while the
\* daemon lives.  Nobody has to call, to change a rule, or to start it again.
Fairness ==
    /\ \A t \in Threads : WF_vars(Hook(t))
    /\ WF_vars(Startup) /\ WF_vars(Drain) /\ WF_vars(TurnDriver)

Spec == Init /\ [][Next]_vars /\ Fairness

---------------------------------------------------------------------------
(* Properties                                                              *)

\* Each variable stays in its range.
TypeOK ==
    /\ hook \in [Threads -> HookStates]
    /\ program \in [Pids -> Programs \cup {NoProgram}]
    /\ EVENTS \in Seq(Slots) /\ ev_edge \in BOOLEAN /\ ev_ready \in BOOLEAN
    /\ main \in {"boot", "load", "select", "drain", "release", "clear", "down"}
    /\ rule_set \in RuleSets
    /\ DOMAIN exe_paths \subseteq Pids
    /\ exe_paths \in [DOMAIN exe_paths -> Programs \cup {NoProgram}]
    /\ VERDICT_CACHE \in SUBSET Keys
    /\ calls \in 0 .. MaxCalls /\ execs \in 0 .. MaxExecs
    /\ swaps \in 0 .. MaxSwaps /\ crashes \in 0 .. MaxCrashes
    /\ reported \in Seq(Records) /\ log \in Seq(Logged)
    /\ fate \in [1 .. MaxCalls ->
                  {"none", "open", "ignored", "blocked", "unlogged", "passed"}]
    /\ lost \in SUBSET Keys

\* The daemon never sleeps on a record that it could read: when it waits, the
\* record at its end of the buffer is still being written, or a wakeup is
\* waiting for it.  (Wakeups are edges; one that is cleared or collected at
\* the wrong moment leaves the buffer to fill up.)
NoLostWakeup ==
    main = "select" /\ Readable => ev_ready \/ ev_edge

\* Every reported call is evaluated once, in the order of the reservations:
\* the log followed by the buffer is what was reported, but for the record
\* under evaluation, which is in both.
EvaluatedOnce ==
    /\ Len(reported) = Len(log) + Len(EVENTS) - (IF main = "release" THEN 1 ELSE 0)
    /\ \A i \in 1 .. Len(log) : log[i].event = reported[i]
    /\ \A i \in 1 .. Len(EVENTS) :
          EVENTS[i].event = reported[Len(reported) - Len(EVENTS) + i]

\* README: once a deny rule fired, "the kernel blocks the next attempt".  A
\* call that begins after its flow was denied and cached does not get past
\* the lookup, unless the entry was evicted or was never inserted.
DeniedStaysBlocked ==
    \A t \in Threads : hook[t] # Idle /\ hook[t].doomed => hook[t].at = "called"

\* A call the kernel blocks silently belongs to a flow that this run of the
\* daemon denied, and logged as denied.
BlocksOnlyDenied == VERDICT_CACHE \subseteq DeniedKeys

\* A wakeup outlives the end of a drain: between the loop that found nothing
\* and clear_ready, a readable record needs an edge that is not cleared.
ClearKeepsWakeup ==
    main = "clear" /\ Readable => ev_edge

\* The record under evaluation is in the buffer and, as the last one, in the log.
UnderEvaluation == main = "release" => EVENTS # <<>> /\ log # <<>>

\* Denied flows that were not dropped are in VERDICT_CACHE, and a call that is
\* bound to be blocked, and has not looked yet, will find its flow there.
CacheHoldsDenied ==
    /\ Enforced \subseteq VERDICT_CACHE
    /\ \A t \in Threads : hook[t] # Idle /\ hook[t].doomed => KeyOf(t) \in VERDICT_CACHE

\* A call that the hooks skip does not get to the lookup.
SkipsUnwatched ==
    \A t \in Threads : hook[t] # Idle /\ hook[t].dst \in Unwatched => hook[t].at = "called"

\* The inductive invariant.
IInv == /\ TypeOK /\ NoLostWakeup /\ ClearKeepsWakeup
        /\ EvaluatedOnce /\ UnderEvaluation
        /\ DeniedStaysBlocked /\ BlocksOnlyDenied /\ CacheHoldsDenied
        /\ SkipsUnwatched

\* Call i has a record, in the buffer or in the log.
Reported(i) == \E n \in 1 .. Len(reported) : reported[n].id = i

\* A call that passed and was reported is evaluated in the end, unless the
\* daemon goes down first and the report with it: neither a producer that is
\* slow to submit ahead of it nor a wakeup that comes during the drain holds
\* it up for good.
ReportsAreEvaluated ==
    \A i \in 1 .. MaxCalls :
        fate[i] = "passed" /\ Reported(i)
            ~> (\E n \in 1 .. Len(log) : log[n].event.id = i) \/ ~Reported(i)

\* What a program sees of its call: nothing of one that the hooks skip, then
\* whether the lookup let it pass.
Attempts == [t \in Threads |->
    IF hook[t] = Idle \/ hook[t].dst \in Unwatched THEN Idle
    ELSE [flow |-> KeyOf(t),
          at |-> IF hook[t].at = "called" THEN "asked" ELSE "admitted"]]

\* Flows of which a call was reported.
Witnessed == {common_flow_key(reported[i]) : i \in 1 .. Len(reported)}

TheGate == INSTANCE Gate WITH Flows <- Keys, attempt <- Attempts,
                              shut <- VERDICT_CACHE, witnessed <- Witnessed

\* The hooks, the buffer and the daemon together are a gate that shuts flows
\* after the first attempt.
ImplementsGate == TheGate!GateSpec

\* README: a rule is toggled off and "the active rule set reloads
\* automatically".  What the kernel blocks is what the rules in force deny for
\* some program.
BlockedIsDenied ==
    main = "select" => \A k \in VERDICT_CACHE :
        \E g \in Programs \cup {NoProgram} : <<g, k.dst>> \in rule_set

\* SPEC.md: "connections from short-lived processes show the correct exe
\* path".  A record is evaluated under the program that made the call.
ExeIsTheCallers == \A i \in 1 .. Len(log) : log[i].exe = log[i].event.by
=============================================================================
