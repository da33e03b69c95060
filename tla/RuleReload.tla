----------------------------- MODULE RuleReload -----------------------------
(***************************************************************************)
(* How a change under /etc/dadophoros/rules.d reaches the rule set that    *)
(* the daemon evaluates (dadophoros-daemon/src/main.rs: startup, the       *)
(* notify watcher and the reload arm of the select loop; rules.rs:         *)
(* load_dir, set_enabled; ipc.rs: write_deny_rule).                        *)
(*                                                                         *)
(* Four actors share the directory:                                        *)
(*   - editors and the administrator, at any time;                         *)
(*   - notify's thread, which turns inotify events into channel messages;  *)
(*   - the main task, which loads the directory file by file;              *)
(*   - client handlers, on the main task's thread, so only while the main  *)
(*     task waits in select.                                               *)
(***************************************************************************)
EXTENDS Rules

CONSTANTS
    Files,       \* names of directory entries
    TomlFiles,   \* those with the extension .toml
    AutoFiles,   \* the names write_deny_rule makes up (auto-deny-*.toml)
    Contents,    \* what a file may hold
    Flows,       \* flows to be decided
    DirAtStart,  \* may the directory exist / be missing when the daemon starts
    ReportsOpen, \* may notify report / pass over that a file was opened, as
                 \* load_dir does
    IoFaults,    \* can read_dir, read_to_string and watch fail
    MaxQueue,    \* bound of the inotify queue (a full queue keeps one event)
    MaxChan,     \* bound of the (unbounded) channel to the main task
    MaxEdits     \* bound of the number of changes to the directory

ASSUME FilesAssumption == AutoFiles \subseteq TomlFiles /\ TomlFiles \subseteq Files

ASSUME ContentsAssumption ==
    /\ Absent \notin Contents
    /\ \A c \in Contents :
          /\ c.priority \in Nat /\ c.parses \in BOOLEAN /\ c.enabled \in BOOLEAN
          /\ \A on \in BOOLEAN : [c EXCEPT !.enabled = on] \in Contents

ASSUME BoundsAssumption ==
    /\ MaxQueue \in Nat \ {0} /\ MaxChan \in Nat \ {0} /\ MaxEdits \in Nat
    /\ ReportsOpen \subseteq BOOLEAN /\ ReportsOpen # {} /\ IoFaults \in BOOLEAN
    /\ DirAtStart \subseteq BOOLEAN

VARIABLES
    disk,       \* contents of every file name
    dir_exists,
    watcher,    \* "unset" before make_rules_watcher, then "on" or "off"
    fs_events,  \* events notify's thread has not taken yet
    rules_rx,   \* messages in the channel to the main task
    phase,      \* main task: "open", "scan", "watch" or "select"
    todo,       \* directory entries the running load has yet to read
    loading,    \* the running load's list
    rule_set,   \* the list in force
    edits,      \* changes made so far
    unseen,     \* history: files changed unwatched since the last read_dir
    faulted,    \* history: the last load met an I/O error
    acked       \* history: files a client was told "Ok" about, not changed since

vars == <<disk, dir_exists, watcher, fs_events, rules_rx, phase, todo,
          loading, rule_set, edits, unseen, faulted, acked>>
mainVars == <<phase, todo, loading, rule_set>>

Entries == {Entry(f, c) : f \in Files, c \in Contents}

Init ==
    /\ dir_exists \in DirAtStart
    /\ disk \in [Files -> Contents \cup {Absent}]
    /\ ~dir_exists => \A f \in Files : disk[f] = Absent
    /\ watcher = "unset" /\ phase = "open"
    /\ fs_events = 0 /\ rules_rx = 0 /\ edits = 0
    /\ todo = {} /\ loading = <<>> /\ rule_set = <<>>
    /\ unseen = {} /\ faulted = FALSE /\ acked = {}

---------------------------------------------------------------------------
(* inotify and notify's thread                                             *)

\* The kernel reports to a watcher that is on.  A queue that is full drops
\* the event but keeps its overflow mark, which notify forwards as any other.
Notify ==
    fs_events' = IF watcher = "on" /\ fs_events < MaxQueue
                 THEN fs_events + 1 ELSE fs_events

\* The same for an open, which is what a load does, if opens are reported (and
\* inotify does not merge it with one that is still in its queue).
NotifyOpen == \E reported \in ReportsOpen :
                 IF reported THEN Notify ELSE UNCHANGED fs_events

\* Variant: an event that comes while the main task is busy is not passed on.
DeliverWhenIdle ==
    /\ fs_events > 0 /\ rules_rx < MaxChan
    /\ fs_events' = fs_events - 1
    /\ rules_rx' = IF phase = "select" THEN rules_rx + 1 ELSE rules_rx
    /\ UNCHANGED <<disk, dir_exists, watcher, mainVars, edits, unseen,
                   faulted, acked>>

\* Variant: a rename is passed on as a removal and a creation.
DeliverTwice ==
    /\ fs_events > 0 /\ rules_rx < MaxChan
    /\ fs_events' = fs_events - 1
    /\ rules_rx' \in {rules_rx + 1, rules_rx + 2}
    /\ UNCHANGED <<disk, dir_exists, watcher, mainVars, edits, unseen,
                   faulted, acked>>

\* The watcher's callback: one message into the channel for every Ok event.
Deliver ==
    /\ fs_events > 0 /\ rules_rx < MaxChan
    /\ fs_events' = fs_events - 1
    /\ rules_rx' = rules_rx + 1
    /\ UNCHANGED <<disk, dir_exists, watcher, mainVars, edits, unseen,
                   faulted, acked>>

---------------------------------------------------------------------------
(* The main task                                                           *)

\* The first load is followed by make_rules_watcher, every other one by select.
AfterLoad == IF watcher = "unset" THEN "watch" ELSE "select"

\* load_dir: read_dir succeeds.  Every name is visited; one that is absent
\* when its turn comes was not listed, or is gone when it is read.
OpenDir ==
    /\ phase = "open" /\ dir_exists
    /\ phase' = "scan" /\ todo' = Files /\ loading' = <<>>
    /\ unseen' = {} /\ faulted' = FALSE
    /\ NotifyOpen
    /\ UNCHANGED <<disk, dir_exists, watcher, rules_rx, rule_set, edits, acked>>

\* load_dir: no directory (an empty list, silently) or an unreadable one
\* (an empty list and a warning).
OpenDirFails ==
    /\ phase = "open" /\ (~dir_exists \/ IoFaults)
    /\ rule_set' = <<>> /\ phase' = AfterLoad
    /\ unseen' = {} /\ faulted' = dir_exists
    /\ UNCHANGED <<disk, dir_exists, watcher, fs_events, rules_rx, todo,
                   loading, edits, acked>>

\* Variant: read_dir may return an entry again.
ReadFileAgain(f) ==
    /\ phase = "scan" /\ f \in todo
    /\ todo' \in {todo, todo \ {f}}
    /\ IF f \in TomlFiles /\ Contributes(disk[f])
       THEN \E k \in 1 .. Len(loading) + 1 :
                /\ SortsAt(loading, Entry(f, disk[f]), k)
                /\ loading' = InsertAt(loading, k, Entry(f, disk[f]))
       ELSE UNCHANGED loading
    /\ UNCHANGED <<disk, dir_exists, watcher, fs_events, rules_rx, phase,
                   rule_set, edits, unseen, faulted, acked>>

\* Variant: a rule that is switched off is loaded like any other.
ReadFileOff(f) ==
    /\ phase = "scan" /\ f \in todo
    /\ todo' = todo \ {f}
    /\ IF f \in TomlFiles /\ disk[f] # Absent /\ disk[f].parses
       THEN \E k \in 1 .. Len(loading) + 1 :
                /\ SortsAt(loading, Entry(f, disk[f]), k)
                /\ loading' = InsertAt(loading, k, Entry(f, disk[f]))
       ELSE UNCHANGED loading
    /\ UNCHANGED <<disk, dir_exists, watcher, fs_events, rules_rx, phase,
                   rule_set, edits, unseen, faulted, acked>>

\* load_dir: one directory entry, and its place in the sorted list.
ReadFile(f) ==
    /\ phase = "scan" /\ f \in todo
    /\ todo' = todo \ {f}
    /\ IF f \in TomlFiles /\ Contributes(disk[f])
       THEN \E k \in 1 .. Len(loading) + 1 :
                /\ SortsAt(loading, Entry(f, disk[f]), k)
                /\ loading' = InsertAt(loading, k, Entry(f, disk[f]))
       ELSE UNCHANGED loading
    /\ IF f \in TomlFiles /\ disk[f] # Absent THEN NotifyOpen
                                             ELSE UNCHANGED fs_events
    /\ UNCHANGED <<disk, dir_exists, watcher, rules_rx, phase, rule_set,
                   edits, unseen, faulted, acked>>

\* load_dir: read_to_string fails on a listed file, which is skipped.
ReadFails(f) ==
    /\ IoFaults /\ phase = "scan" /\ f \in todo \cap TomlFiles
    /\ disk[f] # Absent
    /\ todo' = todo \ {f} /\ faulted' = TRUE
    /\ UNCHANGED <<disk, dir_exists, watcher, fs_events, rules_rx, phase,
                   loading, rule_set, edits, unseen, acked>>

\* Variant: the messages are taken after the load and not before it.
FinishLoadDrains ==
    /\ phase = "scan" /\ todo = {}
    /\ rule_set' = loading /\ loading' = <<>> /\ phase' = AfterLoad
    /\ rules_rx' = 0
    /\ UNCHANGED <<disk, dir_exists, watcher, fs_events, todo, edits, unseen,
                   faulted, acked>>

\* load_dir returns and its list replaces the one in force.
FinishLoad ==
    /\ phase = "scan" /\ todo = {}
    /\ rule_set' = loading /\ loading' = <<>> /\ phase' = AfterLoad
    /\ UNCHANGED <<disk, dir_exists, watcher, fs_events, rules_rx, todo,
                   edits, unseen, faulted, acked>>

\* make_rules_watcher, once, after the first load: nothing is watched when
\* the directory is missing or the watcher cannot be made.
StartWatch ==
    /\ phase = "watch"
    /\ phase' = "select"
    /\ \/ dir_exists /\ watcher' = "on"
       \/ (~dir_exists \/ IoFaults) /\ watcher' = "off"
    /\ UNCHANGED <<disk, dir_exists, fs_events, rules_rx, todo, loading,
                   rule_set, edits, unseen, faulted, acked>>

\* The reload arm of select: take every message that is there, then load.
TakeReload ==
    /\ phase = "select" /\ rules_rx > 0
    /\ rules_rx' = 0 /\ phase' = "open"
    /\ UNCHANGED <<disk, dir_exists, watcher, fs_events, todo, loading,
                   rule_set, edits, unseen, faulted, acked>>

---------------------------------------------------------------------------
(* Changes to the directory                                                *)

\* File f now holds c, and inotify has something to report.
Changes(f, c) ==
    /\ edits < MaxEdits /\ edits' = edits + 1
    /\ disk' = [disk EXCEPT ![f] = c]
    /\ unseen' = IF watcher = "on" THEN unseen ELSE unseen \cup {f}
    /\ Notify

\* An editor writes, creates or removes a file.  Saving in place is two of
\* these: the truncated file does not parse, then the new text.
Edit(f, c) ==
    /\ dir_exists /\ c # disk[f]
    /\ Changes(f, c)
    /\ acked' = acked \ {f}
    /\ UNCHANGED <<dir_exists, watcher, rules_rx, mainVars, faulted>>

\* Somebody makes the directory; nothing watches it for that.
MakeDir ==
    /\ ~dir_exists /\ dir_exists' = TRUE
    /\ edits < MaxEdits /\ edits' = edits + 1
    /\ UNCHANGED <<disk, watcher, fs_events, rules_rx, mainVars, unseen,
                   faulted, acked>>

\* Removing the directory ends its inotify watch, which reports it.
RemoveDir ==
    /\ dir_exists /\ \A f \in Files : disk[f] = Absent
    /\ dir_exists' = FALSE
    /\ edits < MaxEdits /\ edits' = edits + 1
    /\ watcher' = IF watcher = "on" THEN "off" ELSE watcher
    /\ Notify
    /\ UNCHANGED <<disk, rules_rx, mainVars, unseen, faulted, acked>>

\* What CreateDenyRule puts into file f: a deny rule that is switched on, of
\* priority 100, with a clause, whose id is the stem of the file.
IsDenyRule(f, c) == c.parses /\ c.enabled /\ EffectiveId(f, c) = f
                    /\ c.priority = 100 /\ c.action = "deny" /\ c.matches # {}

\* ipc.rs write_deny_rule, answered with Ok: makes the directory if it is
\* missing; a name already taken in this millisecond is overwritten.
WriteDenyRule(f, c) ==
    /\ phase = "select" /\ f \in AutoFiles /\ IsDenyRule(f, c)
    /\ dir_exists' = TRUE
    /\ Changes(f, c)
    /\ acked' = acked \cup {f}
    /\ UNCHANGED <<watcher, rules_rx, mainVars, faulted>>

\* rules.rs set_enabled: some file (the first in directory order) that parses
\* to a rule with this id gets the flag; the rest of it stays as it was.
SetEnabled(id, enabled) ==
    /\ phase = "select"
    /\ \E f \in TomlFiles :
          /\ disk[f] # Absent /\ disk[f].parses /\ EffectiveId(f, disk[f]) = id
          /\ Changes(f, [disk[f] EXCEPT !.enabled = enabled])
          /\ acked' = acked \ {f}
    /\ UNCHANGED <<dir_exists, watcher, rules_rx, mainVars, faulted>>

\* rules.rs list_all for a client (or set_enabled, when no file has the id):
\* the files are opened and nothing changes.
ListRules ==
    /\ phase = "select" /\ dir_exists
    /\ NotifyOpen
    /\ UNCHANGED <<disk, dir_exists, watcher, rules_rx, mainVars, edits, unseen,
                   faulted, acked>>

---------------------------------------------------------------------------
(* The system                                                              *)

MainTask == OpenDir \/ (\E f \in Files : ReadFile(f)) \/ FinishLoad
            \/ StartWatch \/ TakeReload
Faults == OpenDirFails \/ \E f \in Files : ReadFails(f)
Editors == (\E f \in Files : \E c \in Contents \cup {Absent} : Edit(f, c))
           \/ MakeDir \/ RemoveDir
Clients == \/ \E f \in AutoFiles : \E c \in Contents : WriteDenyRule(f, c)
           \/ \E f \in TomlFiles : \E c \in Contents : \E on \in BOOLEAN :
                  SetEnabled(EffectiveId(f, c), on)
           \/ ListRules

Next == MainTask \/ Faults \/ Deliver \/ Editors \/ Clients

\* The main task and notify's thread are scheduled forever; nobody owes an
\* edit, and a load need not fail.
Fairness == WF_vars(MainTask \/ OpenDirFails) /\ WF_vars(Deliver)

Spec == Init /\ [][Next]_vars /\ Fairness

---------------------------------------------------------------------------
(* Properties                                                              *)

\* Each variable stays in its range.
TypeOK ==
    /\ disk \in [Files -> Contents \cup {Absent}] /\ dir_exists \in BOOLEAN
    /\ watcher \in {"unset", "on", "off"}
    /\ fs_events \in 0 .. MaxQueue /\ rules_rx \in 0 .. MaxChan
    /\ phase \in {"open", "scan", "watch", "select"}
    /\ todo \in SUBSET Files
    /\ loading \in Seq(Entries) /\ rule_set \in Seq(Entries)
    /\ edits \in 0 .. MaxEdits
    /\ unseen \in SUBSET Files /\ faulted \in BOOLEAN
    /\ acked \in SUBSET AutoFiles

\* What a list says of file f.
EntriesOf(rules, f) ==
    {rules[i] : i \in {j \in 1 .. Len(rules) : rules[j].file = f}}

\* What file f should contribute, by what it holds now.
Listed(f) == IF f \in TomlFiles /\ Contributes(disk[f])
             THEN {Entry(f, disk[f])} ELSE {}

Mirrors(rules, f) == EntriesOf(rules, f) = Listed(f)

\* No change is on its way to the main task.
Quiet == fs_events = 0 /\ rules_rx = 0

\* When no change is on its way and no load is running, the rule set in
\* force holds exactly what the directory holds, but for files that changed
\* while nothing watched and for a load that met an I/O error: a change made
\* during a scan, between two saves or between recv and read_dir is not lost.
RulesCurrent ==
    phase \in {"watch", "select"} /\ Quiet /\ ~faulted =>
        \A f \in Files : f \notin unseen => Mirrors(rule_set, f)

\* The list in force is sorted by priority and has one entry per file,
\* whatever order read_dir returned: a scan that a writer interrupts does not
\* load a file twice.
Ordered(rules) ==
    \A i, j \in 1 .. Len(rules) :
        i < j => /\ rules[i].priority <= rules[j].priority
                 /\ rules[i].file # rules[j].file

\* load_dir sorts before it returns, and evaluate relies on it.
RulesOrdered == Ordered(rule_set) /\ Ordered(loading)

\* RulesCurrent says nothing while a load runs; what the finished load will
\* put in force is settled entry by entry before.  What was read and did not
\* change since is in the running load's list, what is still to be read is not.
LoadIsCurrent ==
    phase = "scan" =>
        /\ \A f \in todo : EntriesOf(loading, f) = {}
        /\ Quiet /\ ~faulted =>
              \A f \in Files : f \notin unseen /\ f \notin todo => Mirrors(loading, f)

\* A watch needs its directory, and there are no files without one.
DirectoryOfFiles ==
    /\ watcher = "on" => dir_exists
    /\ ~dir_exists => \A f \in Files : disk[f] = Absent

\* The inductive invariant: what makes a reload correct is that a change made
\* during it either is still on its way as an event or hits a file that the
\* load has yet to read.
IInv == TypeOK /\ DirectoryOfFiles /\ RulesOrdered /\ LoadIsCurrent /\ RulesCurrent

\* The files whose rule matches flow, and that f is the one that decided.
Matching(flow) ==
    {f \in TomlFiles : Contributes(disk[f])
                       /\ RuleMatches(Entry(f, disk[f]), flow)}

Decides(f, flow) ==
    Evaluate(rule_set, flow) = [action |-> disk[f].action,
                                rule_id |-> EffectiveId(f, disk[f])]

\* The verdict on a flow is the one the directory asks for: that of a matching
\* file with the lowest priority number, or allow when no file matches.  (The
\* files of equal priority are in read_dir's order, which nothing fixes.)
VerdictFollowsDisk ==
    phase = "select" /\ Quiet /\ ~faulted /\ unseen = {} =>
        \A flow \in Flows :
            \/ Matching(flow) = {} /\ Evaluate(rule_set, flow) = NoVerdict
            \/ \E f \in Matching(flow) :
                  /\ \A g \in Matching(flow) : disk[f].priority <= disk[g].priority
                  /\ Decides(f, flow)

\* README: reloaded automatically.  A change made while the directory is
\* watched is in force eventually, unless the file changes again first, the
\* watch ends or a load meets an I/O error.
ChangesArrive ==
    \A f \in Files : \A c \in Contents \cup {Absent} :
        watcher = "on" /\ disk[f] = c /\ f \notin unseen
            ~> watcher # "on" \/ disk[f] # c \/ faulted \/ Mirrors(rule_set, f)

\* Loading the directory does not set off another load: once nobody edits,
\* the main task comes to rest.
ReloadsCease == <>[](phase = "select" /\ Quiet)

\* dadophoros-proto/src/lib.rs: the daemon writes a TOML file "and the existing
\* notify watcher reloads".  A rule a client was told Ok about is in force
\* eventually, unless its file changes first.
AckedRulesArrive ==
    \A f \in AutoFiles : f \in acked ~> f \notin acked \/ Mirrors(rule_set, f)

\* README: "hot-reloaded on file changes".  Any change to a file is in force
\* eventually, unless the file changes again first.
EveryChangeArrives ==
    \A f \in Files : \A c \in Contents \cup {Absent} :
        disk[f] = c ~> disk[f] # c \/ Mirrors(rule_set, f)
=============================================================================
