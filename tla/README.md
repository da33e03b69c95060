# A specification of dadophoros

dadophoros watches every outbound `connect()` and unconnected `sendmsg()` of a
Linux host, shows them in a terminal client, and lets the user turn a row into a
deny rule that the kernel then enforces. This directory holds TLA+ modules that
model its core, TLC configurations that check them on small instances, and
proofs, for instances of every size, of every safety property that the runs find to hold.

    tlc -workers 2 -config reload.cfg MCRuleReload     # any .cfg with its MC module
    tlapm RuleReloadProofs.tla        # or EnforcementProofs, GateProofs, DaemonProofs,
                                      # TuiAppProofs, MainLoopProofs, IpcSessionProofs, Lemmas

## The system

| Part | Source | State | Operations |
|---|---|---|---|
| Kernel hooks | `dadophoros-ebpf/src/main.rs` 36-184 | the maps `EVENTS` (ring buffer, 256 KiB), `VERDICT_CACHE` (LRU, 65536 entries) | `connect4/6`, `sendmsg4/6`: skip, look up, block, reserve, submit |
| Tracepoints | same, 186-248 | `PROCESS_INFO` (nothing reads it) | `sys_enter_execve`, fork, exit |
| DNS capture | same, 250-354 | `DNS_EVENTS` | `dns_egress`, `dns_ingress` |
| Daemon main loop | `dadophoros-daemon/src/main.rs` | `rule_set`, `exe_paths`, `dns_cache`, two ring buffer handles, channels | startup; a biased `select!` of DNS, events, reload, tick |
| Rules | `dadophoros-daemon/src/rules.rs` | the directory `/etc/dadophoros/rules.d` | `load_dir`, `list_all`, `set_enabled`, `evaluate` |
| IPC server | `dadophoros-daemon/src/ipc.rs` | one task per client; broadcast and watch channels | subscribe, deny, list, toggle, stats, forward events |
| Wire protocol | `dadophoros-proto/src/lib.rs` | none | length-prefixed frames |
| Statistics | `dadophoros-daemon/src/stats.rs` | counters, a ring of seconds | `record`, `tick`, `snapshot` |
| Client | `dadophoros-tui/src/app.rs`, `main.rs` | rows, selection, modal, rules, pending request | keys, server messages, the editor |
| Build tool | `xtask` | none | runs cargo |

How they interact. The hooks run in the calling thread; they read
`VERDICT_CACHE` and write `EVENTS`. The daemon is one OS thread (tokio's
`current_thread` runtime): its main task drains `EVENTS`, evaluates the rules and
writes `VERDICT_CACHE`; client tasks run on the same thread, whenever the main
task waits in `select!`. Another thread belongs to notify: it turns inotify
events into messages to the main task. Clients change rules only by writing
files; that their change comes into force is left to inotify.

What is hard, and what makes each part correct:

- *Reload.* Editors, clients and the daemon share a directory without a lock; the
  daemon reads it file by file. Correct if, whenever nothing is on its way, the
  rules in force are those of the directory, and a change does arrive.
- *Draining.* Wakeups of a ring buffer are edges, and a record is handed over in
  two steps. Correct if no readable record is slept on, and each is evaluated
  once and in order.
- *Enforcement.* The verdict is looked up in the kernel and decided later in the
  daemon. Correct if a flow that was denied does not pass again, and if nothing
  is blocked that was not denied.
- *Names and counts.* DNS answers and `/proc` are read at another time than the call
  they explain; entries expire between ticks, and ticks come late. Correct if a flow
  is named by an answer that was there before it, if a name is the last one heard and
  not older than its TTL, and if the published counts are those of the flows.
- *Sessions.* A frame is read inside a `select!`, both sides may block in a write,
  and a client that lags loses events.
- *Client state.* The table is bounded, its selection is an index, rows are taken over
  by later events while a modal is open, and denials are shown before the daemon
  confirms them. Correct if rows add up, the selection stays where it was, a request
  is about the row that was picked, and what is red is matched by a rule asked for.

`PROJECT.json` lists every hazard at its line, with the property that covers it
or the reason why none does yet.

## Modules

| Module | What it models |
|---|---|
| `Rules` | `rules.rs` as operators: matching, evaluation, ids, what a file contributes, where the sort puts it |
| `RuleReload` | startup, watcher, reload, and everything that changes the directory |
| `MCRuleReload` | small instances of it: two files, two rules, a file that does not parse |
| `RuleReloadProofs` | the theorems about it |
| `Enforcement` | hooks, ring buffer, verdict cache, the events arm, crash and restart |
| `MCEnforcement` | small instances of it |
| `EnforcementProofs` | the theorems about it |
| `Gate` | what enforcement promises, as an abstract specification |
| `GateProofs` | that `Enforcement` implements it |
| `Daemon` | `RuleReload` and `Enforcement` together, as the one task that they are, with deaths of the daemon |
| `MCDaemon` | a small instance of it |
| `DaemonProofs` | the theorems about it, and that it implements `Enforcement` |
| `MainLoop` | capture of DNS packets, the name cache, the order of the arms, the tick, the statistics |
| `MCMainLoop` | a small instance of it |
| `MainLoopProofs` | the theorems about it |
| `IpcSession` | one client: `handle_client`, the loop of the TUI, the socket and its frames, broadcast and lag |
| `MCIpcSession` | small instances of it |
| `IpcSessionProofs` | the theorems about it |
| `TuiApp` | rows, selection, filter, modal, optimistic denial, rules view |
| `MCTuiApp` | a small instance of it |
| `TuiAppProofs` | the theorems about it |
| `Lemmas` | facts on numbers and sequences that several proofs share |

`RuleReload` and `Enforcement` meet in `rule_set`, `RuleReload` and `IpcSession` in
the requests that write files, `Enforcement` and `MainLoop` in the drain of `EVENTS`,
which the one models with its wakeups and the other with its names. `TuiApp` takes from
`Rules` what a rule matches. `Daemon` composes the first two, since what a user writes
into a file and what the kernel then blocks is the purpose of the program; the others
are not composed with each other.

### RuleReload

`disk` and `dir_exists` are the directory; `fs_events` counts what inotify holds
for notify's thread, `rules_rx` the messages in the channel. Events and messages
carry nothing that the code looks at, so a number is enough. `phase` is the
place of the main task: `open` before `read_dir`, `scan` in the loop of
`load_dir`, `watch` before `make_rules_watcher` (startup only), `select`. `todo`
and `loading` are the local state of `load_dir`, `rule_set` is the variable of
`main`.

| Action | Code |
|---|---|
| `OpenDir`, `OpenDirFails` | `load_dir`, rules.rs:102-113 |
| `ReadFile`, `ReadFails` | one turn of its loop, rules.rs:114-141, and the place the stable sort of line 142 gives the rule |
| `FinishLoad` | the assignment to `rule_set`, main.rs:119 and 212 |
| `StartWatch` | `make_rules_watcher`, main.rs:231-257 |
| `TakeReload` | the reload arm up to the load, main.rs:210-211 |
| `Notify`, `Deliver` | inotify's queue; notify's thread and the callback, main.rs:240-244 |
| `WriteDenyRule`, `SetEnabled`, `ListRules` | the requests of a client, ipc.rs:88-123 |
| `Edit`, `MakeDir`, `RemoveDir` | editors and administrators |

The sort is done entry by entry (`SortsAt`): a stable sort of a list read in the
order e1, e2, ... puts each entry behind those of the same or a lower number that
were read before, so inserting each at that place gives the same list.
`read_dir` may return the entries in any order, so `ReadFile` takes any of
`todo`. A save in place is two edits, the truncated file (which does not parse)
and the new one. Client requests need `phase = "select"`, because they run on
the main task's thread and neither `load_dir` nor `set_enabled` awaits.

A full inotify queue keeps one event, as the kernel keeps its overflow mark, and
notify passes it on like any other. `ReportsOpen` says what may become of the opens
of a load: TRUE in it lets notify report one, FALSE lets it pass one over. Version 6.1,
which Cargo.lock names, reports them, to our knowledge, unless inotify merges one with
a like event in its queue; the crate is not part of the repository, so it is a
parameter. In `reload` and `daemon` each open may be reported or not. That matters for the
properties that speak of a system in which nothing is on its way: if every open is
reported, a reload that finds its directory leaves a message behind, and such a state
comes only after the first load. If none is, a lost notification of a change
cannot hide behind those of the opens. The violation runs take every open as reported.
The theorems hold for any choice.

Nothing retries a load that met an I/O error: `read_dir` or `read_to_string` fails, a
warning is logged, the rules concerned are out of the set in force, and the next change
under the directory, whenever that is, brings them back. `faulted` marks the time between.

### Enforcement

A thread is idle or at a place in the hook: `called` (before the lookup),
`missed` (looked up, not found), `reserved` (record busy in `EVENTS`). One
destination stands for address, port and family; `emit_v4` and `emit_v6` differ
only in these and are one action each. `main` is the place of the daemon, from
`boot` (hooks attached) over `load` (`/proc` read, rules not loaded) and `select` to `drain`, `release` (a
record is evaluated, its room not yet given back) and `clear` (before
`clear_ready`).

| Action | Code |
|---|---|
| `Call` ... `Submit` | `emit_v4`, `emit_v6`, ebpf main.rs:65-184 |
| `Backfill` | `backfill_proc`, main.rs:114-116 |
| `Boot` | the first load and the registration of the buffer, main.rs:118-133 |
| `TurnDriver` | tokio's event driver, which turns a wakeup into readiness (external) |
| `StartDrain`, `Handle`, `Release`, `DrainEnds`, `ClearReady` | the events arm, main.rs:167-209 |
| `CacheInsert` | main.rs:195-202 and the LRU map behind it |
| `SwapRules` | the reload arm; that is, any step of RuleReload that changes what the rules deny |
| `Exec` | execve, exit and reuse of a pid (external) |
| `Crash`, `Restart` | notes.txt:40: programs and maps live only as long as the daemon holds them |

The rules in force are the set of pairs of a program and a destination that they
deny; `RuleReload` says where they come from. That a DNS answer, or the end of its TTL
within a drain, changes which of them match a flow is not in this module: a destination has
its host for good here, and names are the subject of `MainLoop`. An insertion into a
full LRU map drops one entry or several, and may do so before the map is full, as the
kernel's does. Wakeups follow the kernel's ring buffer and
tokio 1: `submit` wakes when the consumer stands at this very record, the wakeup
is an edge, `AsyncFd` keeps a readiness flag, the driver sets it when the buffer
holds a record at that moment, and `clear_ready` clears the flag and not the
edge. A busy record counts as one that is held, as in the kernel's poll.

### Gate

A gate that sees every attempt to reach something: `Attempt`, then `Refuse` or
`Admit`; an admitted attempt may be witnessed, and a flow is shut only after one of
its attempts was. `Enforcement` maps to it (`TheGate`): an attempt is a call of the
hook that is not one of those it skips (`Attempts`), what is shut is `VERDICT_CACHE`,
witnessed are the flows with a record in `reported`. A crash is the gate's `Reset`.
So the first attempt of a flow always passes after a start, nothing is blocked that
was not reported before, and only the LRU map or the end of the daemon opens a flow
again. The gate does not say that a denied flow is shut in the end: an insertion may
fail, and the call that was denied may be the last.

### Daemon

The variables of `RuleReload`, those of `Enforcement` but for its rules in force, and `seen`, the
rules that the directory ever held. The rules in force are not a variable of their own: `InForce` is
what the loaded list denies (`Denied`, with `Evaluate` of `Rules`), and nothing until the main
task is past its first load. `E` is `Enforcement` with `InForce` for its rules, and its
actions are used as they are, so each of these acts on both halves:

| Action | Code |
|---|---|
| `Backfill` | main.rs:114-116 |
| `Load`, `Loaded` | `load_dir`, rules.rs:100-143, entry by entry, before the loop and in the reload arm; its return, main.rs:119 and 212 |
| `EnterLoop` | `make_rules_watcher` and the registration of the buffer, main.rs:122-133 |
| `Turn` | the events arm and the driver, while no load runs |
| `StartReload` | the reload arm, when no event is ready (the `select!` is biased) |
| `Kernel` | hooks and processes |
| `Directory` | editors, notify's thread, client handlers |
| `Crash`, `Restart` | the daemon dies between any two steps and is started again: list, watch, queue, cache and buffer are gone, the files stay |
| `CrashInWrite` | it dies within `std::fs::write` of `set_enabled` or `write_deny_rule`, rules.rs:232 and ipc.rs:292: the file is truncated and does not parse |

A load and a drain are arms of one `select!`, and neither awaits. So while `load_dir` is
at work nothing is evaluated, although hooks report, editors write and notify announces
(`Interlock`). A record that is evaluated sees a complete list.

`FlowOf` fixes the host of a destination: what an answer does to the name of a flow is
`MainLoop`'s subject. `Daemon` states safety only.

### MainLoop

Time is told by timers: `left` of an entry counts down in moments, `Grain` of which
make a second, `due` counts ticks that the interval has fired and the loop has not
taken (tokio's default is to make up for all of them). `main` is `select`, `dns` or
`events`; `dns_ready` and `ev_ready` are the readiness flags of the two buffers. That a
turn of the driver sees whatever can be read is what `NoLostWakeup` of `Enforcement`
says, and the edges are not modelled twice. Packets that were captured, and not yet
submitted, are `busy` and hide what is behind them.

| Action | Code |
|---|---|
| `Capture`, `CaptureFails`, `EndCapture` | `capture_dns`, ebpf main.rs:273-354, up to the reservation, without room, and from the copy on |
| `Report` | a hook (its steps are those of `Enforcement`) |
| `StartDns`, `TakePacket`, `EndDns` | the DNS arm, main.rs:154-166, with `ingest_dns`, 265-304 |
| `StartEvents`, `Handle`, `EndEvents` | the events arm, main.rs:167-209, with `lookup_host`, 306-343, and `Accumulator::record` |
| `Reload` | the reload arm, main.rs:210-214 (its load is `RuleReload`'s, and touches nothing here) |
| `Tick` | the last arm, main.rs:215-226, `Accumulator::tick` and `snapshot` |
| `Announce` | a message for the reload arm: a change, or an open by a reload itself, main.rs:239-246 |
| `Pass`, `TurnDriver` | the clock; tokio's driver (external) |

A packet is its answers and whether it fits the 512 bytes of a record; a longer one is
cut and does not parse. An answer without a name or an address (a CNAME) is passed
over. `Ingest` takes the answers one by one, as `ingest_dns` does; `Renewed` says what the last
answer of a packet makes of an address, which the proofs show to be the same. `top_n` is told
by rank: the entry at place i is the one with i - 1 ahead of it. `Upcoming` are the records with
an answer for an address that a drain would come upon now, short of the first busy one.
Which flows are denied is a set of hosts: `Rules` says what matches, `Enforcement`
what then happens.

### IpcSession

`c2d` and `d2c` are the two directions of the socket, as sequences of pieces: a
message is a length and a body. `d_out` and `c_out` are what a running write has
still to put there; an end that writes does nothing else. `d_held` and `c_held`
are what earlier polls of a running `read_message` have consumed: nothing, a
length, or a short body that is taken for the beginning of a length. A branch of
`select!` that completes drops the read, and what it held. `handler` is the place
in `handle_client`, `client` that in the TUI.

| Action | Code |
|---|---|
| `DaemonWrites`, `ClientWrites` | `write_all` of one piece, proto 216-218 |
| `DaemonConsumes`, `ClientConsumes` | a poll of `read_message` that waits for more, proto 190-204 |
| `DaemonMisreads`, `ClientMisreads` | a poll that fails: a body taken for a length |
| `FirstRequest`, `AnswerQuery`, `ChangeRules`, `SubscribeAgain`, `Unsubscribe` | ipc.rs 67-79 and the arms 88-133 |
| `RecvEvent`, `RecvLagged` | the broadcast arm, ipc.rs 137-151 |
| `GetsHello`, `GetsAck`, `GetsRefusal` | the handshake, tui main.rs 35-48 |
| `GetsEvent`, `GetsAnswer`, `GetsOk` | the arms of the read, tui main.rs 89-117 |
| `SwitchTo`, `Ask`, `Idle`, `Quit` | keys and ticks, app.rs 226-243 and 270-392, tui main.rs 120-153 |
| `StartEdit`, `EndEdit`, `EditFails` | `edit_rule`, which blocks the client's thread |

What a body yields when it is read as a length follows from the encoding: the
first byte of a body is the message's tag, never zero but for Subscribe, so four
bytes of it are a length beyond the 1 MiB of `MAX_FRAME` and the reader fails. The
bodies of Ok, ListRules, GetStats and Unsubscribe are that one byte; alone they
leave the reader waiting for three more, and a second dropped read takes it away
for good. The daemon's `select!` is biased, so its broadcast arm is reached only
when the read waits; the client's is not, and any key or tick may come first.

The client is the TUI. `Firsts` and `Others` let it behave as other clients may:
begin with another request, subscribe again, unsubscribe. Bodies that need more
than one send (tens of kilobytes) are left out, and so is a rule list without
rules.

### TuiApp

The fields of `App`, with places counted from 1 and 0 for a selection of nothing. A row
shows the last event of its key. The filter is a sequence of words of a small alphabet
that is looked for in the words of a row. Of the rule list only its length matters,
since the selection is an index into it. Keys scroll over the rows the filter shows: `Place` is
the place of a row among these.

| Action | Code |
|---|---|
| `GetEvent` | `push` and the arm of `run`, app.rs:100-117, tui main.rs:89-94 |
| `GetRules` | `set_rules`, app.rs:196-208 |
| `Scroll`, `JumpToEnd`, `JumpToStart` | app.rs:138-168 |
| `StartFilter`, `FilterInput` | app.rs:317-320 and 394-407 |
| `OpenModal`, `CloseModal`, `Deny` | app.rs:321-325 and 361-392, with `optimistically_deny`, 174-192, and the request, 409-417 |
| `SwitchTo`, `RulesScroll` | app.rs:226-243 and 210-218 |
| `Load` | the daemon has written and loaded a requested rule (external; it need not happen) |

An event was decided by some of the requested rules that are loaded by now, because
those that are missing may have been loaded after it was decided. `RuleFor` is the rule
that `write_deny_rule` (ipc.rs:227-289) writes, and `RuleMatches` of `Rules` decides what it
matches, so that the TUI's own idea of this (`Alike`) can be compared with the daemon's.

History variables (`unseen`, `faulted`, `acked`; `reported`, `log`, `fate`,
`lost`, and `doomed`, `by` in the records; `seen`; `owed`, `amiss`, `written`, `skipped`,
`torn`; `log`, `heard`, `promised`; `picked`, `latest`, `gone`) state properties. No guard of a
code action reads them.

Operators whose comment begins with "Variant" are ways in which the code could be
wrong; no specification uses them. With the variant in place of the operator it
precedes, some property of a run fails.

## Properties and runs

| Run | Instance | Result |
|---|---|---|
| `reload` | 2 files, 6 contents, directory missing or there, opens reported or not, I/O errors, 2 changes, queue of 1, channel of 2 | holds: `IInv`, `TypeOK`, `RulesCurrent`, `RulesOrdered`, `VerdictFollowsDisk`, `ChangesArrive` (143,705 states) |
| `reload_no_dir` | the directory is missing at startup | `AckedRulesArrive` is violated |
| `reload_startup` | one change | `EveryChangeArrives` is violated |
| `reload_own_opens` | one change | `ReloadsCease` is violated |
| `enforce` | 2 processes, 2 destinations (one loopback), 3 calls, buffer of 2, cache of 1 that may refuse, one exec, one swap of the rules, one crash | holds: `IInv`, `TypeOK`, `NoLostWakeup`, `EvaluatedOnce`, `DeniedStaysBlocked`, `BlocksOnlyDenied`, `ReportsAreEvaluated`, `ImplementsGate` (299,608 states) |
| `enforce_toggle` | 1 call, one swap of the rules | `BlockedIsDenied` is violated |
| `enforce_exe` | 1 call, 1 exit | `ExeIsTheCallers` is violated |
| `daemon` | 1 file, absent, on, off or half written, 2 edits, 1 thread, 2 calls, buffer, cache, queue and channel of 1, one reload that changes what is denied, opens reported or not, one death, I/O errors | holds: `DaemonIInv`, `BlocksHaveRules`, `DirectoryIsEnforced`, `ImplementsEnforcement` (291,550 states) |
| `names` | 3 packets (one cut, one with a CNAME and 0.0.0.0), 2 hosts of one address, a flow reported twice, reloads at any time, buffer of 2, 2 moments a second, ring of 2, ticks up to 2 late | holds: `TypeOK`, `FlowsAreNamed`, `NamesAreCurrent`, `SnapshotCountsLog`, `ActivityInOrder`, `ExpiredAreEvicted`, `FlowsAreCounted` (314,348 states) |
| `session` | any first request, 2 requests, 3 events (one unwanted), channel of 1, sockets of 2 pieces | holds: `TypeOK`, `AnswersInOrder`, `EventsInOrder`, `RulesViewFresh`, `EventsArrive` |
| `session_torn` | the TUI, 3 requests, 1 event | `RulesViewFollowsDisk` is violated |
| `live` | 4 facts of 3 keys, table of 2, 3 events, 1 request of any kind, filter of 1 word, rule list of up to 2 | holds: `TypeOK`, `RowsAddUp`, `MarksAreSound`, `PromptsInLiveView`, `DenyIsAboutPick`, `SelectionStays`, `NavigationLands` (393,876 states) |

`names` and `live` check for deadlock. The others do not: calls, changes and crashes are
bounded, and when they are used up the system rests, as the real one does when nobody
calls.

What the violated ones show:

- `AckedRulesArrive`. Without a directory at startup there is no watcher, ever.
  A deny rule from the client is written, acknowledged and not loaded.
- `EveryChangeArrives`. The directory is loaded before it is watched.
- `ReloadsCease`. The callback does not look at the kind of an event, so the
  opens of a reload set off the next. This depends on notify's reporting opens,
  see above.
- `BlockedIsDenied`. Nothing is ever removed from `VERDICT_CACHE`.
- `ExeIsTheCallers`. The path is read after the call and kept for ever.
- `RulesViewFollowsDisk`. The user toggles a rule; the daemon writes the length of
  its Ok, the client reads it and a tick drops the read; the client reads the
  body as a length, and the next tick drops that. The Ok never was, the session
  goes on, the list on screen is the old one. With a longer body the session ends
  instead.

`MarksAreSound` has no converse. With `github.com` picked, the rule written for it has op
`suffix` and will match `api.github.com` too, but the TUI marks rows of `github.com` only, until
their next event. What is red is matched by a rule that was asked for, but for rows of `0.0.0.0`, which
the daemon takes for no address.

Bounds, and why they are enough. Two files and two changes give every order of a
change against the scan of the file, against the other file, and against the
three places an announcement can be at (queue, channel, taken). A queue of one
overflows, a channel of two is drained of several messages at once, and both limits are
reached. After a reload of a watched directory in `reload`, and of a changed one in `daemon`, states
with nothing on its way are reached, with both files in force and with a flow that is
denied, so the properties about such states are tried on more than the first load. Two threads and three calls
fill a buffer of two, and bring about a submit out of order, a submit during each
place of a drain, and a third call that finds the flow denied. A cache of one evicts
on the second denial. One crash finds the daemon and the hooks at every place they can
be at; in `daemon` it also finds each place of a load and of a write. There, two calls and two
edits let a flow pass, be denied and be blocked, and a rule be switched off or cut
short between any two of these; a cache of one holds what one pair can put there.
The list loaded after the death may differ too; with two such reloads (434,041 states) the
properties hold as well.
A buffer of two is full when both calls of a busy drain are under way. Two
packets fill a DNS buffer of two, are submitted in either order, and name one address
twice or by two hosts; two moments a second let an entry expire between two ticks and
be renewed before the next; two seconds of ring wrap around when two ticks are late; a
list of one entry has to leave one out when there are two (hosts: the one flow is counted
under its address and under either name). Three events against a
table of two drop a row, with the selection on it or not; two of the four facts share a
row under two addresses, so a row's facts change under an open modal, and one host
ends with the other. One request suffices for what is marked between a request, its
load and events decided before and after. Sockets of two pieces hold one frame, so
both ends block; two requests and three events drop reads of every kind on both
sides, lag once or twice, and block both ends at once; the properties also hold with
three requests and two events (466,303 states). The safety properties of all six
modules are proved for all values; there the bounds matter for liveness only.

The inductive invariants of `RuleReload`, `Enforcement` and `Daemon` are invariants of `reload`,
`enforce` and `daemon`. Those of `TuiApp`, `MainLoop` and `IpcSession` are the definitions `IInv` of these
modules; a line `INVARIANT IInv` added to `live.cfg`, `names.cfg` or `session.cfg` makes TLC check
them on the same instances, where they hold.

Fairness. `RuleReload` assumes that the main task and notify's thread are
scheduled; it does not assume that anybody edits or that a load fails.
`Enforcement` assumes that a hook, once called, runs to its end (BPF programs
never wait), that the daemon's task is polled when it is ready and that the
driver turns when the task waits. It does not assume that a call is made, that
rules change or that a daemon that died is started again. `IpcSession` assumes
that both programs are scheduled and their tasks polled when they are ready;
broadcasts, keys and ticks need not come, and the user may stay in the editor.
`EventsArrive` names what may come before an event: lag, the end of the session,
the editor, and `MutualBlock`, where both ends wait for room in a full socket. The
run reaches that state; with the real sizes it takes a client that sends more than
a hundred requests while the daemon is blocked in one write. `MainLoop` assumes
that time passes, that `capture_dns` runs to its end, and that the daemon is polled
and its driver turns; packets, flows and messages about rules need not come. The tick is
the last arm of a biased `select!`, and there is no fairness between arms: an arm before
it that is always ready keeps it from running for good. The reload arm may be just
that, since `ReloadsCease` is violated. So `ExpiredAreEvicted` and `FlowsAreCounted` have a
premise, `ReloadsEnd`: from some time on there is no message for the reload arm. Without it
TLC finds both violated by a behaviour in which a message is there whenever the
main task comes back to its `select!`; of a daemon whose notify reports opens, and whose
rules directory was changed or listed once, nothing more is claimed. The premise is part of the
properties and not of `Fairness`, as it is not something the code sees to. Packets and flows
are bounded, and that matters too: under a load that never pauses the DNS and events arms, whose
drains are loops, would do the same. `Daemon` and `TuiApp` have safety
properties only.

## Proofs

All theorems hold for any set of files, contents, threads, programs, rules, packets,
flows, clients and facts and for any bounds, from the named assumptions that
`RuleReload`, `Enforcement`, `Daemon`, `MainLoop`, `IpcSession` and `TuiApp` make of their constants
(which TLC evaluates on every run). None assumes more than that sets hold values of
the right kind and that a buffer, a table or a grain is not empty.

*RuleReload.* `RulesCurrent` is not inductive: it says nothing while a load runs,
and what the finished load puts in force is settled file by file before. `IInv`
adds

- `LoadIsCurrent`: if nothing is on its way, every file that was read and not
  changed unwatched is in the running list as it is on disk, and what is to be
  read is not in the list;
- `DirectoryOfFiles`: a watch needs its directory (so a change either is
  announced or counts as unseen), and a missing directory has no files (so
  the empty list is the right one);
- `RulesOrdered`: a file has one place at most.

A change is either reported, and then the system is not quiet until `TakeReload`
starts a load that reads every file anew, or is recorded as unseen
(`ChangePreserves`). `ReadPreserves` is the step of the scan; it rests on what
`InsertAt` at the place of `SortsAt` does (`InsertOrdered`, `InsertEntries`).
`VerdictsFollowDisk` follows from `RulesCurrent` and `RulesOrdered`: the first hit
of a sorted list that mirrors the directory is a matching file of the lowest
number (`LeastOf`, `EvaluateFirst`, `MirrorDecides`).

*Enforcement.* `IInv` has three parts that do not depend on one another, given
`TypeOK`:

- *wakeups*: `NoLostWakeup` is about `select`, and `ClearReady` leads there from
  `clear`, so `ClearKeepsWakeup` says that a record that became readable since the
  drain ended has raised an edge. Only `Submit` makes a record readable, and
  only the one at the consumer's end matters (`SubmitWakes`, `ReserveQuiet`);
- *accounting*: `EvaluatedOnce` with `UnderEvaluation`, because the record being
  evaluated is both in the log and in the buffer;
- *cache*: `CacheHoldsDenied` ties the cache to the log. A call that was bound to be
  blocked when it began finds its entry at the lookup, because an eviction that
  takes the entry away also unbinds the call (`InsertKeeps`, `UnbindKeeps`).

`SkipsUnwatched` is there for the refinement: a hook that is past the lookup works for
a destination that is watched.

*Gate.* `GateProofs` shows that every step of `Enforcement` is a step of `Gate` or leaves
its variables as they are. One lemma per kind of step: `GateCall` and `GateHook` for what a
thread does (`AttemptOf` says that a step of one hook changes one attempt), `GateHandle`
for the insertion, and `GateCrash`. That a flow which is shut has been witnessed rests on
`EvaluatedOnce`: what the daemon evaluates is in `reported`.

*Daemon.* `DaemonIInv` is the invariant of `RuleReload`, the types of `Enforcement`, and

- `Interlock`: which places of the load go with which places of the events arm. It is what the
  refinement needs: a load that returns changes the rules when the main task is at `select`
  with no wakeup collected, which is where `Enforcement` has `SwapRules`; before the loop it
  changes nothing that counts yet, and `EnterLoop` is `Boot` with the list loaded then;
- `ListsAreOffered`: what a list holds came from a file, now or before;
- `BlocksHaveRules`.

Editors, hooks and the steps of a load are steps of `RuleReload` or leave it alone
(`ReloadSteps`), so its invariant needs no second proof; a death is new and resets it
(`CrashKeeps`). `KernelSteps` says which step of `Enforcement` each step is, or that it is none. Its
type invariant is proved again under the mapping, since the prover does not let a
theorem of a module be cited for an instance of it. `DirectoryIsEnforced` joins two halves that
were proved apart: `MirrorDecides`, a lemma on `RuleReload`, says what the list answers, and
`HandleLogs` what the events arm does with the answer.

`ImplementsEnforcement` and `ImplementsGate` compose: what `EnforcementProofs` and
`GateProofs` state of `Enforcement`, for any rules that come and go, holds of `Daemon` with
the rules the directory gives. Only this last substitution is not checked by the prover.

*TuiApp.* `IInv` is the type invariant, the three state properties and `PickIsModal` (what
the modal shows is what was picked when d was pressed), which `DenyIsAboutPick` needs.

- `RowsAddUp` is stated with a running sum, `Totals`, a function of the place, so an event
  extends that function or changes it from one place on. `push` has three outcomes, a row
  taken over, one appended, one appended after the first was dropped (`PushCases`,
  `PushShape`), and each adds one to the sum (`PushAddsUp`). That keys stay distinct comes
  from `push` itself: it appends only when no row has the key.
- `MarksAreSound` needs that rows which `optimistically_deny` takes for alike are rows
  that the rule written matches (`AlikeIsMatched`); the converse is false, as
  said above. A row that is taken over by another event of its key is marked by what that event
  was decided by.
- `SelectionStays`, `NavigationLands` and `DenyIsAboutPick` are properties of steps. The first
  rests on `PushShape`; the second on `LastPlace`: a row's place among the shown ones is their
  number exactly when it is the last of them.

*MainLoop.* `IInv` has two halves that do not depend on one another, given `TypeOK`.

- *Names*: `CacheIsHeard` ties the cache to what was heard and how long it is good for;
  `NamesAreCurrent` follows. `PromisesHold` is what makes `FlowsAreNamed` inductive: a name
  that was promised for an address (its answer could be read when the driver turned) is in the
  cache, or in a record that can be read and that the DNS arm, which the biased `select!` polls
  first, takes before the events arm gets its turn. `Ingest` is a recursive function over the
  answers; that it is defined is shown by a least counterexample (`IngestDefined`), since
  induction is out of reach of the provers, and likewise that the last answer for an address
  wins (`IngestKeepsLast`, `IngestRenews`).
- *Counts*: `AccountsForLog` says that the counters and the two maps of `Accumulator`
  count the log, `FlowsInOnePlace` that a flow is either still to be drained or in the log.
  `SnapshotCountsLog` is then what `Tick` publishes, and `ActivityInOrder` what shifting the ring
  by one does. The lists need that ranks are places: each place up to the number of labels
  has one entry, and a later one is not ahead (`PlaceOfEntry`, `TopIsSorted`).

*IpcSession.* None of the three properties is inductive, because each is about a message that
has been read, and what will be read is spread over a running write, the socket and a
running read. So `IInv` is about two streams, `ToClient` and `ToDaemon`, each the socket with
what the other end has still to write.

- `Aligned`: a stream is whole frames, of which only the first may have lost its length, to a
  read that goes on or to one that was dropped. Writes are never cut short but by an end
  of the session, which `Writing` says together with who writes at which stage.
- `EventsComing`: the events on their way continue the rows in order, and each event the
  receiver has passed is on its way, shown, or skipped.
- `ListsComing`, `ChangeComing`: lists on their way are ever newer; while the rules view shows
  less than the last change, an Ok, a request for the list or a list that is new enough is on its way.
- `AnswersComing`: places can be given to the messages such that the answers on their way are
  to the oldest requests without an answer, in order, and the requests on their way are the
  rest of them (`Orderly`). While the handler goes on nothing is missing; after it ended, requests
  may be.
- `Opening` is the same for the handshake: nothing is owed, and the answer to the first
  request is alone in its stream.

Every action does one of few things to a stream: it takes its first piece, adds a frame at its
end, moves a piece from a write to the socket (which leaves the stream as it is), or closes it.
The lemmas about these (`ReadTakes`, `ReadConsumes`, `FramesLeft`, `BodiesShed`, `BodiesGrow`) are
about any sequence of pieces; `DaemonTakes`, `ClientSends` and the like say which action does
which, and then one lemma per part of the invariant (`ClientAligned`, `DaemonAligned`,
`EventsStep`, `ListsStep`,
`WritingStep`, `OpeningStep`, `AnswersStep`, `AmissStep`, `ChangeStep`) shows that every step
preserves it. For `AnswersComing` the four changes of the places are lemmas of their own:
a stream shifts (`OrderlyAlike`), an answer is taken (`OrderlyAnswer`), a request becomes
its answer (`OrderlyReply`), a request is added (`OrderlyAsk`). All of this holds whether or
not a read was dropped, but for `AnswersComing` and `ChangeComing`, which a torn stream does break
(`session_torn`).

Only model-checked: `ChangesArrive`, `ReportsAreEvaluated`, `EventsArrive`,
`ExpiredAreEvicted` and `FlowsAreCounted`, since liveness under fairness is beyond the proof
system used, and the violated properties, which are counterexamples.

## Not modelled yet, and the plan

In this order:

1. `Attribution`: processes that fork, exec and exit against `exe_paths`, and
   how long a reused pid inherits a denial.
2. `RuleAuthoring`: file names by the millisecond, duplicate ids.

Left out for good: layout and colours of the client, wording of logs, TOML
syntax, DNS and packet headers, `xtask`, the attachment of the programs to interfaces
(a list of calls that either succeed or end the daemon), and `PROCESS_INFO`, which
nothing reads.
