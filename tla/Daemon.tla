------------------------------- MODULE Daemon -------------------------------
(***************************************************************************)
(* The rule directory and the kernel together (dadophoros-daemon/src/      *)
(* main.rs): RuleReload, with its variables, and Enforcement, whose rules  *)
(* in force are what the loaded list denies.  One task does both: a load   *)
(* runs to its end inside an arm of the select loop, so no record is       *)
(* evaluated and no wakeup collected meanwhile, but hooks, editors and     *)
(* notify's thread go on.  The daemon may die at any point, also in the    *)
(* middle of writing a rule file, and start over from what is on disk.     *)
(***************************************************************************)
EXTENDS RuleReload

CONSTANTS
    Threads, Pids, PidOf, Programs, Dsts, Unwatched, NoProgram, RingCap,
    CacheCap, CacheFaults, MaxCalls, MaxExecs, MaxSwaps, MaxCrashes,
    FlowOf      \* what the rules see of a program's call to a destination:
                \* its path and the host, address and port

ASSUME KernelAssumption ==
    /\ PidOf \in [Threads -> Pids] /\ NoProgram \notin Programs
    /\ RingCap \in Nat \ {0} /\ CacheCap \in Nat \ {0} /\ CacheFaults \in BOOLEAN
    /\ MaxCalls \in Nat /\ MaxExecs \in Nat /\ MaxSwaps \in Nat /\ MaxCrashes \in Nat

VARIABLES
    hook, program, EVENTS, ev_edge, ev_ready, main, exe_paths, VERDICT_CACHE,
    calls, execs, swaps, crashes, reported, log, fate, lost,
    seen        \* history: the rules the directory ever held

hookVars == <<hook, program, EVENTS, ev_edge, ev_ready, exe_paths, VERDICT_CACHE,
              calls, execs, crashes, reported, log, fate, lost>>
daemonVars == <<vars, hookVars, main, swaps, seen>>

Pairs == (Programs \cup {NoProgram}) \X Dsts

\* The pairs that a list of rules denies.
Denied(rules) == {p \in Pairs : Evaluate(rules, FlowOf[p]).action = "deny"}

\* A list counts once the main task is past its first load.
InForce == IF main \in {"boot", "load", "down"} THEN {} ELSE Denied(rule_set)

E == INSTANCE Enforcement WITH rule_set <- InForce, RuleSets <- SUBSET Pairs

\* The rules the directory holds.
Offered == UNION {Listed(f) : f \in Files}

DaemonInit ==
    /\ Init
    /\ hook = [t \in Threads |-> E!Idle]
    /\ program \in [Pids -> Programs]
    /\ EVENTS = <<>> /\ ev_edge = FALSE /\ ev_ready = FALSE
    /\ main = "boot" /\ exe_paths = <<>> /\ VERDICT_CACHE = {}
    /\ calls = 0 /\ execs = 0 /\ swaps = 0 /\ crashes = 0
    /\ reported = <<>> /\ log = <<>> /\ lost = {}
    /\ fate = [i \in 1 .. MaxCalls |-> "none"]
    /\ seen = Offered

---------------------------------------------------------------------------
(* The main task                                                           *)

\* main.rs before the loop: backfill_proc.
Backfill == UNCHANGED vars /\ E!Backfill

\* load_dir at work, before the loop or in the reload arm.
Load ==
    /\ main \in {"load", "select"}
    /\ OpenDir \/ \E f \in Files : ReadFile(f) \/ ReadFails(f)
    /\ UNCHANGED <<hookVars, main, swaps>>

\* load_dir returns: its list is in force, and what it denies may be new.
Loaded ==
    /\ main \in {"load", "select"}
    /\ FinishLoad \/ OpenDirFails
    /\ UNCHANGED <<hookVars, main>>
    /\ swaps' = IF InForce' = InForce THEN swaps ELSE swaps + 1

\* The watcher is made, then the buffers are registered and the loop begins.
EnterLoop == StartWatch /\ E!Boot(Denied(rule_set))

\* Variant: records are drained by a task of their own, also during a load.
TurnAnyTime == UNCHANGED vars /\ (E!TurnDriver \/ E!Drain)

\* A turn of the loop in which no load runs: the task waits, or drains EVENTS.
Turn == phase = "select" /\ UNCHANGED vars /\ (E!TurnDriver \/ E!Drain)

\* Variant: the select is not biased, so the reload arm may go first.
StartReloadUnbiased ==
    /\ main = "select" /\ swaps < MaxSwaps
    /\ TakeReload
    /\ UNCHANGED <<hookVars, main, swaps>>

\* The reload arm, which runs only when no event is ready (biased).
StartReload ==
    /\ main = "select" /\ ~ev_ready /\ swaps < MaxSwaps
    /\ TakeReload
    /\ UNCHANGED <<hookVars, main, swaps>>

---------------------------------------------------------------------------
(* The others                                                              *)

\* Hooks run in the calling threads; processes come and go.
Kernel ==
    /\ UNCHANGED vars
    /\ \/ \E t \in Threads : (\E d \in Dsts : E!Call(t, d)) \/ E!Hook(t)
       \/ \E p \in Pids, g \in Programs \cup {NoProgram} : E!Exec(p, g)

\* Editors and notify's thread act at any time, client handlers while the main
\* task waits.
Directory ==
    /\ Editors \/ Deliver \/ (main = "select" /\ Clients)
    /\ UNCHANGED <<hookVars, main, swaps>>

\* The daemon dies; what it knew of the directory goes with it.
Die ==
    /\ E!Crash
    /\ phase' = "open" /\ watcher' = "unset" /\ fs_events' = 0 /\ rules_rx' = 0
    /\ todo' = {} /\ loading' = <<>> /\ rule_set' = <<>>
    /\ unseen' = {} /\ faulted' = FALSE
    /\ UNCHANGED edits

Crash == UNCHANGED <<disk, dir_exists, acked>> /\ Die

\* It dies in std::fs::write, of write_deny_rule or of set_enabled, when the
\* file is truncated and its text not yet written.
CrashInWrite(f, c) ==
    /\ main = "select" /\ phase = "select"
    /\ f \in AutoFiles \/ (disk[f] # Absent /\ disk[f].parses)
    /\ ~c.parses
    /\ disk' = [disk EXCEPT ![f] = c] /\ dir_exists' = TRUE
    /\ acked' = acked \ {f}
    /\ Die

Restart == UNCHANGED vars /\ E!Restart

---------------------------------------------------------------------------
(* The system                                                              *)

MainStep == Backfill \/ Load \/ Loaded \/ EnterLoop \/ Turn \/ StartReload
Crashes == Crash \/ \E f \in TomlFiles, c \in Contents : CrashInWrite(f, c)

DaemonNext ==
    /\ MainStep \/ Kernel \/ Directory \/ Crashes \/ Restart
    /\ seen' = seen \cup Offered'

DaemonSpec == DaemonInit /\ [][DaemonNext]_daemonVars

---------------------------------------------------------------------------
(* Properties                                                              *)

\* What the two halves of the main task can be at together: while it loads,
\* it neither evaluates a record nor has a wakeup it collected, and it is in
\* the loop only when the first load is over and make_rules_watcher was tried.
Interlock ==
    /\ main \in {"boot", "down"} => phase = "open"
    /\ main \in {"boot", "load", "down"} => phase # "select" /\ watcher = "unset"
    /\ main \in {"select", "drain", "release", "clear"} =>
          phase # "watch" /\ watcher # "unset"
    /\ main \in {"drain", "release", "clear"} => phase = "select"
    /\ main = "select" /\ phase # "select" => ~ev_ready /\ swaps < MaxSwaps

\* Record i of the log was denied by a rule that the directory once held.
DeniedByRule(i) ==
    /\ log[i].verdict = "deny"
    /\ \E r \in seen : /\ r.action = "deny"
                       /\ RuleMatches(r, FlowOf[<<log[i].exe, log[i].event.dst>>])

\* emit_v4 and emit_v6 refuse what VERDICT_CACHE holds: whatever that is was
\* denied since the daemon started, in a flow that a deny rule of the directory
\* matches, or once matched.  A file that was switched off, half written or of
\* another extension all along, or a run of the daemon before the last crash,
\* blocks nothing.
BlocksHaveRules ==
    \A k \in VERDICT_CACHE :
        \E i \in 1 .. Len(log) : E!common_flow_key(log[i].event) = k /\ DeniedByRule(i)

\* The matching files that may decide: those of the lowest priority number.
Deciding(flow) ==
    {f \in Matching(flow) :
        \A g \in Matching(flow) : disk[f].priority <= disk[g].priority}

\* From the text of a rule to the kernel: a record that is evaluated when no
\* change is on its way gets the verdict that the directory asks for, and a
\* denied flow is in the cache when its evaluation is over, unless the cache
\* refused it.
DirectoryIsEnforced ==
    [][ main = "drain" /\ main' = "release" /\ Quiet /\ ~faulted /\ unseen = {} =>
          LET entry == log'[Len(log')]
              flow == FlowOf[<<entry.exe, entry.event.dst>>]
          IN /\ \/ Matching(flow) = {} /\ entry.verdict = "allow"
                \/ \E f \in Deciding(flow) :
                      entry.verdict = "deny" <=> disk[f].action = "deny"
             /\ entry.verdict = "deny" =>
                   E!common_flow_key(entry.event) \in VERDICT_CACHE' \cup lost'
      ]_daemonVars

\* A load is, for the kernel's side, one change of the rules between two
\* drains: the many steps of startup, reload and crash do what Enforcement
\* does in one.
ImplementsEnforcement == E!Init /\ [][E!Next]_(E!vars)

\* The rules that lists hold come from the directory.
ListsAreOffered ==
    /\ Offered \subseteq seen
    /\ \A i \in 1 .. Len(loading) : loading[i] \in seen
    /\ \A i \in 1 .. Len(rule_set) : rule_set[i] \in seen

\* The inductive invariant.
DaemonIInv == IInv /\ E!TypeOK /\ Interlock /\ ListsAreOffered /\ BlocksHaveRules
=============================================================================
