------------------------------ MODULE MainLoop ------------------------------
(***************************************************************************)
(* How a flow comes by its host name, and how it is counted: capture_dns   *)
(* of dadophoros-ebpf/src/main.rs copies DNS packets into DNS_EVENTS; the  *)
(* select loop of dadophoros-daemon/src/main.rs puts their answers into    *)
(* dns_cache, looks the address of every reported flow up in it, counts    *)
(* the flow (stats.rs), and once a second evicts what expired and          *)
(* publishes the counts.                                                   *)
(*                                                                         *)
(* Time is told by what is left of each timer, in moments of a fraction of *)
(* a second, so that an entry may expire between two ticks.  Names,        *)
(* addresses and programs are numbers; their order is that of the labels.  *)
(* The wakeups of the two buffers are those of Enforcement, whose          *)
(* NoLostWakeup lets this module say only that a turn of the driver sees   *)
(* what can be read.  The rules deny flows to the hosts of a fixed set.    *)
(***************************************************************************)
EXTENDS Integers, FiniteSets, SequencesExt

CONSTANTS
    Flows,        \* records [ip, exe, comm]: what a ConnectEvent is resolved to
    Packets,      \* DNS packets [size, answers] that the tc hooks may see
    UnspecifiedIp,\* 0.0.0.0, which the daemon takes for no address
    DeniedHosts,  \* hosts some rule denies
    DnsCap,       \* records DNS_EVENTS has room for
    Grain,        \* moments of a second
    Buckets,      \* ACTIVITY_BUCKETS
    TopN,
    MaxLag,       \* bounds: ticks that may be overdue, packets, flows
    MaxPackets,
    MaxFlows

NoName == 0       \* no host name, no executable path, no address

Answers == UNION {ToSet(p.answers) : p \in Packets}
Ips == ({f.ip : f \in Flows} \cup {r.data : r \in Answers}) \ {NoName}
Hosts == {r.name : r \in Answers} \ {NoName}

ASSUME FlowsAssumption ==
    /\ Flows \subseteq [ip : Nat \ {NoName}, exe : Nat, comm : Nat \ {NoName}]
    /\ Packets \subseteq [size : {"fits", "long"},
                          answers : Seq([name : Nat, data : Nat, ttl : Nat])]

ASSUME LimitsAssumption ==
    /\ {DnsCap, Grain, Buckets, TopN, MaxLag} \subseteq Nat \ {0}
    /\ MaxPackets \in Nat /\ MaxFlows \in Nat

VARIABLES
    DNS_EVENTS,   \* records [packet, state], consumer's end first
    EVENTS,       \* reported flows, consumer's end first
    dns_ready, ev_ready,     \* tokio's readiness flags of the two buffers
    rules_rx,     \* is there a message for the reload arm
    main,         \* the daemon: "select", or draining "dns" or "events"
    dns_cache,    \* on the addresses it holds: [hostname, left]
    moment, due,  \* moments into the second; ticks due and not taken
    acc,          \* stats_acc
    published,    \* the snapshot clients read
    packets, flows,
    log,          \* history: flows evaluated, and the seconds that the ticks taken
                  \* since then stand for
    heard,        \* history: per address the last answer ingested
    promised      \* history: per address an answer readable before the last
                  \* turn of the driver, with what is left of it

\* What comes to the daemon from outside.
kernel == <<DNS_EVENTS, EVENTS, packets, flows, rules_rx>>
loop == <<dns_ready, ev_ready, main>>
clock == <<moment, due>>
stats == <<acc, published, log>>
vars == <<kernel, loop, dns_cache, clock, stats, heard, promised>>

---------------------------------------------------------------------------
(* stats.rs                                                                *)

\* host_or_ip of stats.rs, and the label of the process.
HostLabel(f, host) == IF host # NoName THEN host ELSE f.ip
ProcessLabel(f) == IF f.exe # NoName THEN f.exe ELSE f.comm

NewAccumulator == [total_events |-> 0, total_allowed |-> 0, total_denied |-> 0,
                   per_process |-> <<>>, per_host |-> <<>>,
                   activity |-> [i \in 1 .. Buckets |-> 0]]

\* *map.entry(label).or_insert(0) += 1
Counted(map, label) ==
    [l \in DOMAIN map \cup {label} |->
        (IF l \in DOMAIN map THEN map[l] ELSE 0) + (IF l = label THEN 1 ELSE 0)]

\* Variant: a flow to an address without a name is not counted by host.
RecordNamed(f, host, verdict) ==
    [acc EXCEPT !.total_events = @ + 1,
                !.total_allowed = @ + (IF verdict = "allow" THEN 1 ELSE 0),
                !.total_denied = @ + (IF verdict = "deny" THEN 1 ELSE 0),
                !.per_process = Counted(@, ProcessLabel(f)),
                !.per_host = IF host = NoName THEN @ ELSE Counted(@, host),
                !.activity[Buckets] = @ + 1]

\* Accumulator::record
Record(f, host, verdict) ==
    [acc EXCEPT !.total_events = @ + 1,
                !.total_allowed = @ + (IF verdict = "allow" THEN 1 ELSE 0),
                !.total_denied = @ + (IF verdict = "deny" THEN 1 ELSE 0),
                !.per_process = Counted(@, ProcessLabel(f)),
                !.per_host = Counted(@, HostLabel(f, host)),
                !.activity[Buckets] = @ + 1]

\* Variant: pop_front is forgotten.
RotateGrows(activity) == Append(activity, 0)

\* Accumulator::tick: push_back(0), and pop_front beyond ACTIVITY_BUCKETS.
Rotate(activity) == Tail(Append(activity, 0))

\* The order of top_n: by count, descending, then by label.
Ahead(a, b) == a.count > b.count \/ (a.count = b.count /\ a.label < b.label)

Labeled(map) == {[label |-> l, count |-> map[l]] : l \in DOMAIN map}

Atmost(n, m) == IF n < m THEN n ELSE m

\* top_n: sorted and cut, so that the entry at place i has i - 1 ahead of it.
Top(map) ==
    LET entries == Labeled(map)
        Rank(e) == Cardinality({d \in entries : Ahead(d, e)})
    IN [i \in 1 .. Atmost(Cardinality(entries), TopN) |->
          CHOOSE e \in entries : Rank(e) = i - 1]

\* Accumulator::snapshot
Snapshot(a) ==
    [total_events |-> a.total_events, total_allowed |-> a.total_allowed,
     total_denied |-> a.total_denied, top_processes |-> Top(a.per_process),
     top_hosts |-> Top(a.per_host), activity |-> a.activity]

---------------------------------------------------------------------------
(* The DNS cache                                                           *)

Nothing == [hostname |-> NoName, left |-> 0]

\* An entry of the cache for an answer that was read just now.
DnsEntry(r) ==
    [hostname |-> r.name, left |-> Grain * (IF r.ttl = 0 THEN 1 ELSE r.ttl)]

\* Message::from_bytes fails on a payload that was cut at 512 bytes.
AnswersOf(p) == IF p.size = "fits" THEN p.answers ELSE <<>>

\* Only address records count, and only those with a name; the places of those
\* for ip.
Names(r) == r.name # NoName /\ r.data # NoName
Naming(answers, ip) == {k \in DOMAIN answers : Names(answers[k]) /\ answers[k].data = ip}

\* What the last answer of a packet makes of the entry for an address.
Renewed == [p \in Packets |-> [ip \in Ips |->
               LET places == Naming(AnswersOf(p), ip)
               IN IF places = {} THEN Nothing ELSE DnsEntry(p.answers[Max(places)])]]

\* Variant: an entry that is there already is kept.
InsertOnce(cache, ip, e) ==
    IF ip \in DOMAIN cache THEN cache
    ELSE [i \in DOMAIN cache \cup {ip} |-> IF i = ip THEN e ELSE cache[i]]

\* cache.insert: the last answer for an address wins.
Insert(cache, ip, e) ==
    [i \in DOMAIN cache \cup {ip} |-> IF i = ip THEN e ELSE cache[i]]

\* ingest_dns, on the answer section of a message: the cache after k answers.
Ingest(cache, answers) ==
    LET c[k \in 0 .. Len(answers)] ==
          IF k = 0 THEN cache
          ELSE IF Names(answers[k])
               THEN Insert(c[k - 1], answers[k].data, DnsEntry(answers[k]))
               ELSE c[k - 1]
    IN c[Len(answers)]

\* lookup_host, with connect_event_ip.
LookupHost(ip) ==
    IF ip # UnspecifiedIp /\ ip \in DOMAIN dns_cache /\ dns_cache[ip].left > 0
    THEN dns_cache[ip].hostname ELSE NoName

\* Variant: nothing is evicted.
KeptAll(cache) == DOMAIN cache

\* What retain keeps at a tick.
Kept(cache) == {ip \in DOMAIN cache : cache[ip].left > 0}

\* A name, and what is left of it one moment later.
Elapsed(e) == IF e.left > 0 THEN [e EXCEPT !.left = @ - 1] ELSE e

Init ==
    /\ DNS_EVENTS = <<>> /\ EVENTS = <<>>
    /\ dns_ready = FALSE /\ ev_ready = FALSE /\ rules_rx = FALSE /\ main = "select"
    /\ dns_cache = <<>>
    /\ moment = 0 /\ due = 1       \* the first tick is due at once
    /\ acc = NewAccumulator /\ published = Snapshot(NewAccumulator)
    /\ packets = 0 /\ flows = 0
    /\ log = <<>>
    /\ heard = [ip \in Ips |-> Nothing] /\ promised = [ip \in Ips |-> 0]

---------------------------------------------------------------------------
(* The kernel                                                              *)

\* capture_dns on a packet of at least a DNS header: reserve a record.
Capture(p) ==
    /\ packets < MaxPackets /\ packets' = packets + 1
    /\ Len(DNS_EVENTS) < DnsCap
    /\ DNS_EVENTS' = Append(DNS_EVENTS, [packet |-> p, state |-> "busy"])
    /\ UNCHANGED <<EVENTS, flows, rules_rx, loop, dns_cache, clock, stats, heard,
                   promised>>

\* DNS_EVENTS is full: the packet goes its way and its answers are not known.
CaptureFails ==
    /\ Len(DNS_EVENTS) >= DnsCap
    /\ UNCHANGED vars

\* The payload has been copied, or could not be; packets that other processors
\* see are captured at the same time.
EndCapture(i, state) ==
    /\ DNS_EVENTS[i].state = "busy"
    /\ DNS_EVENTS' = [DNS_EVENTS EXCEPT ![i].state = state]
    /\ UNCHANGED <<EVENTS, packets, flows, rules_rx, loop, dns_cache, clock, stats,
                   heard, promised>>

\* A hook reports a flow (Enforcement has the steps of it).
Report(f) ==
    /\ flows < MaxFlows /\ flows' = flows + 1
    /\ EVENTS' = Append(EVENTS, f)
    /\ UNCHANGED <<DNS_EVENTS, packets, rules_rx, loop, dns_cache, clock, stats,
                   heard, promised>>

\* notify's thread, whose steps RuleReload has: a file of the rule directory was
\* changed, or opened by the last load, and there is a message (external).
Announce ==
    /\ ~rules_rx /\ rules_rx' = TRUE
    /\ UNCHANGED <<DNS_EVENTS, EVENTS, packets, flows, loop, dns_cache, clock, stats,
                   heard, promised>>

\* A moment passes; the timer of the tick is periodic and does not forget.
Pass ==
    /\ moment' = (moment + 1) % Grain
    /\ moment' = 0 => due < MaxLag
    /\ due' = IF moment' = 0 THEN due + 1 ELSE due
    /\ dns_cache' = [ip \in DOMAIN dns_cache |-> Elapsed(dns_cache[ip])]
    /\ heard' = [ip \in Ips |-> Elapsed(heard[ip])]
    /\ promised' = [ip \in Ips |-> IF promised[ip] > 0 THEN promised[ip] - 1 ELSE 0]
    /\ UNCHANGED <<kernel, loop, stats>>

---------------------------------------------------------------------------
(* The select loop                                                         *)

\* rb.next() does not stop at a discarded record, but at a busy one.
Readable(ring) == ring # <<>> /\ Head(ring).state # "busy"

\* Records with answers for ip that a drain of the buffer would come upon now.
Upcoming(ip) == {i \in DOMAIN DNS_EVENTS :
                   /\ \A j \in 1 .. i : DNS_EVENTS[j].state # "busy"
                   /\ DNS_EVENTS[i].state = "ready"
                   /\ Renewed[DNS_EVENTS[i].packet][ip] # Nothing}

\* A turn of the event driver while the task waits or yields (external).
TurnDriver ==
    /\ main = "select"
    /\ dns_ready' = (dns_ready \/ Readable(DNS_EVENTS))
    /\ ev_ready' = (ev_ready \/ EVENTS # <<>>)
    /\ <<dns_ready, ev_ready>>' # <<dns_ready, ev_ready>>
    /\ promised' = [ip \in Ips |->
          IF Upcoming(ip) = {} THEN promised[ip]
          ELSE Renewed[DNS_EVENTS[Max(Upcoming(ip))].packet][ip].left]
    /\ UNCHANGED <<kernel, main, dns_cache, clock, stats, heard>>

\* The DNS arm is polled first.
StartDns ==
    /\ main = "select" /\ dns_ready
    /\ main' = "dns"
    /\ UNCHANGED <<kernel, dns_ready, ev_ready, dns_cache, clock, stats,
                   heard, promised>>

\* The next packet of the drain, into the cache; a discarded one is passed over.
TakePacket ==
    /\ main = "dns" /\ Readable(DNS_EVENTS)
    /\ DNS_EVENTS' = Tail(DNS_EVENTS)
    /\ LET p == Head(DNS_EVENTS).packet
           ready == Head(DNS_EVENTS).state = "ready"
           new == [ip \in Ips |-> IF ready THEN Renewed[p][ip] ELSE Nothing]
       IN /\ dns_cache' = IF ready THEN Ingest(dns_cache, AnswersOf(p)) ELSE dns_cache
          /\ heard' = [ip \in Ips |-> IF new[ip] = Nothing THEN heard[ip] ELSE new[ip]]
          \* the promise does not outlive what is now left of the name
          /\ promised' = [ip \in Ips |-> IF new[ip] = Nothing THEN promised[ip]
                                        ELSE Atmost(promised[ip], new[ip].left)]
    /\ UNCHANGED <<EVENTS, packets, flows, rules_rx, loop, clock, stats>>

\* The buffer has no more; clear_ready.
EndDns ==
    /\ main = "dns" /\ ~Readable(DNS_EVENTS)
    /\ main' = "select" /\ dns_ready' = FALSE
    /\ UNCHANGED <<kernel, ev_ready, dns_cache, clock, stats, heard, promised>>

\* Variant: the select is not biased.
StartEventsAnyTime ==
    /\ main = "select" /\ ev_ready
    /\ main' = "events"
    /\ UNCHANGED <<kernel, dns_ready, ev_ready, dns_cache, clock, stats,
                   heard, promised>>

\* The events arm, if the DNS arm has nothing.
StartEvents ==
    /\ main = "select" /\ ~dns_ready /\ ev_ready
    /\ main' = "events"
    /\ UNCHANGED <<kernel, dns_ready, ev_ready, dns_cache, clock, stats,
                   heard, promised>>

\* One flow: its name, its verdict, the counts and the broadcast.
Handle ==
    /\ main = "events" /\ EVENTS # <<>>
    /\ EVENTS' = Tail(EVENTS)
    /\ LET f == Head(EVENTS)
           host == LookupHost(f.ip)
           verdict == IF host \in DeniedHosts THEN "deny" ELSE "allow"
       IN /\ acc' = Record(f, host, verdict)
          /\ log' = Append(log, [flow |-> f, host |-> host, verdict |-> verdict,
                                 age |-> 0])
    /\ UNCHANGED <<DNS_EVENTS, packets, flows, rules_rx, loop, dns_cache, clock, published,
                   heard, promised>>

EndEvents ==
    /\ main = "events" /\ EVENTS = <<>>
    /\ main' = "select" /\ ev_ready' = FALSE
    /\ UNCHANGED <<kernel, dns_ready, dns_cache, clock, stats, heard, promised>>

\* The reload arm, polled before the tick: it takes all messages that are there.
\* The load itself (RuleReload) has no part in names and counts.
Reload ==
    /\ main = "select" /\ ~dns_ready /\ ~ev_ready
    /\ rules_rx /\ rules_rx' = FALSE
    /\ UNCHANGED <<DNS_EVENTS, EVENTS, packets, flows, loop, dns_cache, clock, stats,
                   heard, promised>>

\* The log when ticks have been taken that were due n seconds apart.
Aged(n) == [i \in DOMAIN log |->
              [log[i] EXCEPT !.age = IF @ + n < Buckets THEN @ + n ELSE Buckets]]

\* Variant: a late tick takes all that are overdue, and turns the ring once.
TickSkips ==
    /\ main = "select" /\ ~dns_ready /\ ~ev_ready /\ ~rules_rx
    /\ due > 0 /\ due' = 0
    /\ dns_cache' = [ip \in Kept(dns_cache) |-> dns_cache[ip]]
    /\ acc' = [acc EXCEPT !.activity = Rotate(@)]
    /\ published' = Snapshot(acc)
    /\ log' = Aged(due - due')
    /\ UNCHANGED <<kernel, loop, moment, heard, promised>>

\* Variant: the snapshot is published only when something was evicted.
TickQuiet ==
    /\ main = "select" /\ ~dns_ready /\ ~ev_ready /\ ~rules_rx
    /\ due > 0 /\ due' = due - 1
    /\ dns_cache' = [ip \in Kept(dns_cache) |-> dns_cache[ip]]
    /\ acc' = [acc EXCEPT !.activity = Rotate(@)]
    /\ published' = IF dns_cache' # dns_cache THEN Snapshot(acc') ELSE published
    /\ log' = Aged(due - due')
    /\ UNCHANGED <<kernel, loop, moment, heard, promised>>

\* The tick, if no other arm has anything: evict, turn the ring, publish.
Tick ==
    /\ main = "select" /\ ~dns_ready /\ ~ev_ready /\ ~rules_rx
    /\ due > 0 /\ due' = due - 1
    /\ dns_cache' = [ip \in Kept(dns_cache) |-> dns_cache[ip]]
    /\ acc' = [acc EXCEPT !.activity = Rotate(@)]
    /\ published' = Snapshot(acc')
    /\ log' = Aged(due - due')
    /\ UNCHANGED <<kernel, loop, moment, heard, promised>>

Hooks == \/ \E p \in Packets : Capture(p)
         \/ CaptureFails
         \/ \E f \in Flows : Report(f)
EndCaptures == \E i \in DOMAIN DNS_EVENTS : \E s \in {"ready", "discarded"} :
                  EndCapture(i, s)
Daemon == \/ StartDns \/ TakePacket \/ EndDns
          \/ StartEvents \/ Handle \/ EndEvents \/ Reload \/ Tick

Next == Hooks \/ EndCaptures \/ Announce \/ Pass \/ TurnDriver \/ Daemon

\* Time passes, hooks run to their end, and the runtime keeps polling.  No
\* packet, no flow and no message about rules has to come.
Fairness == WF_vars(Daemon) /\ WF_vars(TurnDriver) /\ WF_vars(EndCaptures)
            /\ WF_vars(Pass)

Spec == Init /\ [][Next]_vars /\ Fairness

---------------------------------------------------------------------------
(* Properties                                                              *)

Labels == {ProcessLabel(f) : f \in Flows} \cup Ips \cup Hosts
Records == [packet : Packets, state : {"busy", "ready", "discarded"}]
Entries == [hostname : Hosts \cup {NoName}, left : Nat]
Evaluations == [flow : Flows, host : Hosts \cup {NoName}, verdict : {"allow", "deny"},
                age : 0 .. Buckets]
Counts(map) == DOMAIN map \subseteq Labels /\ \A l \in DOMAIN map : map[l] \in 1 .. flows
Listing(list) == \A i \in DOMAIN list :
                    list[i].label \in Labels /\ list[i].count \in 1 .. flows
Ring(activity) == activity \in [1 .. Buckets -> 0 .. flows]

\* Each variable stays in its range; the ring of seconds keeps its length.
BuffersOK == /\ DNS_EVENTS \in Seq(Records) /\ Len(DNS_EVENTS) <= DnsCap
             /\ EVENTS \in Seq(Flows)
             /\ packets \in 0 .. MaxPackets /\ flows \in 0 .. MaxFlows
LoopOK == /\ dns_ready \in BOOLEAN /\ ev_ready \in BOOLEAN /\ rules_rx \in BOOLEAN
          /\ main \in {"select", "dns", "events"}
          /\ moment \in 0 .. Grain - 1 /\ due \in 0 .. MaxLag
NamesOK == /\ DOMAIN dns_cache \subseteq Ips
           /\ \A ip \in DOMAIN dns_cache : dns_cache[ip] \in Entries
           /\ heard \in [Ips -> Entries] /\ promised \in [Ips -> Nat]
StatsOK == /\ log \in Seq(Evaluations)
           /\ DOMAIN acc = DOMAIN NewAccumulator /\ acc.total_allowed \in 0 .. flows
           /\ Counts(acc.per_process) /\ Counts(acc.per_host) /\ Ring(acc.activity)
           /\ Listing(published.top_processes) /\ Listing(published.top_hosts)
           /\ Ring(published.activity)
TypeOK == BuffersOK /\ LoopOK /\ NamesOK /\ StatsOK

\* SPEC.md step 3: a request "shows the hostname in the output, not just the
\* resolved IP".  A flow that is evaluated after an answer for its address was
\* captured is named, if the answer could be read before the turn of the
\* driver that woke the events arm and its TTL is not over.  (The hazard is
\* the order of the arms: an answer comes before its flow, but in a buffer of
\* its own.)
FlowsAreNamed ==
    main = "events" =>
        \A ip \in Ips \ {UnspecifiedIp} : promised[ip] > 0 => LookupHost(ip) # NoName

\* A name that is looked up is that of the last answer ingested for the
\* address, until its TTL is over and not longer: neither the eviction, which
\* comes once a second, nor its absence between two ticks shows.
NamesAreCurrent ==
    \A ip \in Ips \ {UnspecifiedIp} :
        LookupHost(ip) = IF heard[ip].left > 0 THEN heard[ip].hostname ELSE NoName

\* What a list of counts should say of the flows of the log that are in S, by
\* their labels.
HostOf == [i \in DOMAIN log |-> HostLabel(log[i].flow, log[i].host)]
ProcessOf == [i \in DOMAIN log |-> ProcessLabel(log[i].flow)]
CountOf(S, label, l) == Cardinality({i \in S : label[i] = l})
TopOf(list, S, label) ==
    LET labels == {label[i] : i \in S} IN
    /\ Len(list) = Atmost(Cardinality(labels), TopN)
    /\ \A i \in DOMAIN list :
          /\ list[i].label \in labels
          /\ list[i].count = CountOf(S, label, list[i].label)
          /\ i > 1 => Ahead(list[i - 1], list[i])
          /\ \A l \in labels \ {list[j].label : j \in DOMAIN list} :
                Ahead(list[i], [label |-> l, count |-> CountOf(S, label, l)])

Published == {i \in DOMAIN log : log[i].age > 0}

\* proto Stats: the snapshot that clients read counts exactly the flows that
\* were broadcast before the last tick, by verdict, by host and by process,
\* and its lists are the most frequent in order.
SnapshotCountsLog ==
    /\ published.total_events = Cardinality(Published)
    /\ published.total_allowed + published.total_denied = published.total_events
    /\ published.total_denied = Cardinality({i \in Published : log[i].verdict = "deny"})
    /\ TopOf(published.top_hosts, Published, HostOf)
    /\ TopOf(published.top_processes, Published, ProcessOf)

\* proto Stats: "Per-second connection counts, oldest first".  Every second has
\* its bucket, also when the loop was late and several ticks were overdue: the
\* bucket k from the end counts the flows that k - 1 seconds have passed over.
ActivityInOrder ==
    \A k \in 1 .. Buckets :
        acc.activity[Buckets - k + 1] = Cardinality({i \in DOMAIN log : log[i].age = k - 1})

\* The inductive invariant.  The counters are those of the whole log; a flow is
\* in the buffer or in the log; an entry of the cache is the last answer for its
\* address, and only what is over is missing; a promised answer is in the cache,
\* or can be read and will be before the events arm is polled.
Tally(map, S, label) ==
    /\ DOMAIN map = {label[i] : i \in S}
    /\ \A l \in DOMAIN map : map[l] = CountOf(S, label, l)
AccountsForLog ==
    /\ acc.total_events = Len(log)
    /\ acc.total_allowed + acc.total_denied = acc.total_events
    /\ acc.total_denied = Cardinality({i \in DOMAIN log : log[i].verdict = "deny"})
    /\ Tally(acc.per_host, DOMAIN log, HostOf)
    /\ Tally(acc.per_process, DOMAIN log, ProcessOf)
FlowsInOnePlace == flows = Len(EVENTS) + Len(log)
CacheIsHeard ==
    \A ip \in Ips : IF ip \in DOMAIN dns_cache THEN dns_cache[ip] = heard[ip]
                    ELSE heard[ip].left = 0
NamesKept(ip) ==
    ip \in DOMAIN dns_cache /\ dns_cache[ip].hostname # NoName
    /\ dns_cache[ip].left >= promised[ip]
PromisesHold ==
    /\ main = "events" => ~dns_ready
    /\ \A ip \in Ips : promised[ip] > 0 =>
          NamesKept(ip) \/ (Upcoming(ip) # {} /\ (dns_ready \/ main = "dns"))
IInv == /\ TypeOK /\ AccountsForLog /\ FlowsInOnePlace /\ CacheIsHeard /\ PromisesHold
        /\ SnapshotCountsLog /\ ActivityInOrder

\* The select polls the tick last, after the reload arm, which the opens of a
\* load may keep ready for good (RuleReload's ReloadsCease is violated).  What is
\* the tick's to do is done only if the reloads come to an end.
ReloadsEnd == <>[]~rules_rx

\* SPEC.md: the cache has "TTL eviction".  If the reloads end, an entry whose TTL
\* is over does not stay for good, whether or not anybody looks it up.
ExpiredAreEvicted ==
    ReloadsEnd =>
        \A ip \in Ips :
            (ip \in DOMAIN dns_cache /\ dns_cache[ip].left = 0)
                ~> (ip \notin DOMAIN dns_cache \/ dns_cache[ip].left > 0)

\* README: stats refresh about once a second.  If the reloads end, a flow that
\* was reported is in a published snapshot in the end.
FlowsAreCounted ==
    ReloadsEnd =>
        \A n \in 1 .. MaxFlows : flows >= n ~> published.total_events >= n
=============================================================================
