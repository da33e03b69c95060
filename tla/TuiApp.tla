------------------------------- MODULE TuiApp -------------------------------
(***************************************************************************)
(* What the TUI shows and does with it (dadophoros-tui/src/app.rs, and the *)
(* arms of run in main.rs): the rows of the live view, the selection that  *)
(* is an index into them, the filter, the modal that asks for a deny rule  *)
(* and marks rows before the daemon has answered, and the rules view.      *)
(*                                                                         *)
(* The session of the TUI with the daemon is IpcSession.  Here the daemon  *)
(* is what decides the verdicts of the events that come: a request for a   *)
(* rule may be refused, and a rule that was written takes effect later,    *)
(* so that events decided before it still come.  A row's place is counted  *)
(* from 1 here, and a selection of nothing is 0.                           *)
(***************************************************************************)
EXTENDS Rules

CONSTANTS
    Facts,        \* what an event tells: [pid, comm, exe, host, ip, port]
    UnspecifiedIp,\* 0.0.0.0
    Alphabet,     \* what the user types into the filter
    MAX_EVENTS,
    MaxRules,     \* bounds: entries of the rule list, length of the filter,
    MaxFilter,    \* events, requests for a rule
    MaxPushes,
    MaxAsked

Nothing == <<>>   \* no executable path, no host name
Kinds == {"Host", "Process", "Ip", "Both"}

ASSUME FactsAssumption ==
    \A f \in Facts :
        /\ DOMAIN f = {"pid", "comm", "exe", "host", "ip", "port"}
        /\ {f.comm, f.exe, f.host, f.ip} \subseteq Seq(STRING) /\ f.ip # Nothing

ASSUME BoundsAssumption ==
    /\ MAX_EVENTS \in Nat \ {0}
    /\ {MaxRules, MaxFilter, MaxPushes, MaxAsked} \subseteq Nat

VARIABLES
    events,       \* rows [facts, verdict, label, count], oldest first
    state,        \* place of the selected row
    follow, filter, filter_mode,
    modal,        \* the event that the modal is about, or Nothing
    view,
    rules,        \* the length of the rule list, and the selected place
    rules_state,
    asked,        \* deny rules that were requested
    loaded,       \* those that the daemon wrote and has in force
    picked,       \* history: what the row showed when the modal was opened
    latest,       \* history: the last event received
    gone, pushes  \* history: events on rows that were dropped; received

live == <<events, state, follow, filter, filter_mode, modal>>
listing == <<rules, rules_state>>
daemon == <<asked, loaded>>
history == <<picked, latest, gone, pushes>>
vars == <<live, listing, view, daemon, history>>

---------------------------------------------------------------------------
(* Rows                                                                    *)

\* AggKey::of
AggKey(f) == [pid |-> f.pid, comm |-> f.comm, exe |-> f.exe, port |-> f.port,
              host_or_ip |-> IF f.host # Nothing THEN f.host ELSE f.ip]

\* Those rows of now that the new list still has.
Kept(new) == {row \in ToSet(events) :
                 \E i \in DOMAIN new : AggKey(new[i].facts) = AggKey(row.facts)}

Row(f, verdict, label, count) ==
    [facts |-> f, verdict |-> verdict, label |-> label, count |-> count]

\* Variant: an event of a known row only adds to its count.
PushedCounts(f, verdict, label) ==
    LET same == {i \in DOMAIN events : AggKey(events[i].facts) = AggKey(f)} IN
    IF same # {}
    THEN [i \in DOMAIN events |-> IF i \in same THEN [events[i] EXCEPT !.count = @ + 1]
                                  ELSE events[i]]
    ELSE Append(IF Len(events) = MAX_EVENTS THEN Tail(events) ELSE events,
                Row(f, verdict, label, 1))

\* Variant: a row that gets an event moves to the end of the list.
PushedMoves(f, verdict, label) ==
    LET same == {i \in DOMAIN events : AggKey(events[i].facts) = AggKey(f)} IN
    IF same # {}
    THEN LET i == CHOOSE j \in same : TRUE
         IN Append(RemoveAt(events, i), Row(f, verdict, label, events[i].count + 1))
    ELSE Append(IF Len(events) = MAX_EVENTS THEN Tail(events) ELSE events,
                Row(f, verdict, label, 1))

\* App::push: the row with the key takes the event over, or a row is added at
\* the end and, if there are too many, the first is dropped.
Pushed(f, verdict, label) ==
    LET same == {i \in DOMAIN events : AggKey(events[i].facts) = AggKey(f)} IN
    IF same # {}
    THEN [i \in DOMAIN events |-> IF i \in same THEN Row(f, verdict, label, events[i].count + 1)
                                  ELSE events[i]]
    ELSE Append(IF Len(events) = MAX_EVENTS THEN Tail(events) ELSE events,
                Row(f, verdict, label, 1))

\* event_matches: the text of a row that the filter is looked for in.
Spaced(words) == IF words = Nothing THEN Nothing ELSE Append(words, " ")
Hay(f) == Append(f.comm, " ") \o Spaced(f.exe) \o Spaced(f.host) \o f.ip

\* filtered_indices, as a set of places.
Visible == {i \in DOMAIN events : IsInfix(filter, Hay(events[i].facts))}

---------------------------------------------------------------------------
(* Rules                                                                   *)

\* event_ip_string of the daemon: it takes 0.0.0.0 for no address.
FlowOf(f) == [exe |-> f.exe, host |-> f.host, port |-> f.port,
              ip |-> IF f.ip = UnspecifiedIp THEN Nothing ELSE f.ip]

Clause(field, op, s) == [field |-> field, op |-> op, value |-> [kind |-> "str", val |-> s]]

\* The rule that write_deny_rule writes for rule_msg(f, by).
RuleFor(f, by) ==
    [action |-> "deny", by |-> by,
     matches |->
        (IF by \in {"Process", "Both"} THEN {Clause("process_path", "exact", f.exe)} ELSE {})
        \cup (IF by \in {"Host", "Both"} THEN {Clause("dest_host", "suffix", f.host)} ELSE {})
        \cup (IF by = "Ip" THEN {Clause("dest_ip", "exact", f.ip)} ELSE {})]

\* Variant: Both marks what either of the two would.
AlikeEither(f, target, by) ==
    \/ by \in {"Host", "Both"} /\ f.host = target.host
    \/ by \in {"Process", "Both"} /\ f.exe = target.exe
    \/ by = "Ip" /\ f.ip = target.ip

\* What optimistically_deny takes for a row that the new rule will match.
Alike(f, target, by) ==
    CASE by = "Host" -> f.host = target.host
      [] by = "Process" -> f.exe = target.exe
      [] by = "Ip" -> f.ip = target.ip
      [] by = "Both" -> f.host = target.host /\ f.exe = target.exe

\* The modal offers a kind only when the event has what it needs.
Offered(f, by) ==
    /\ by \in {"Host", "Both"} => f.host # Nothing
    /\ by \in {"Process", "Both"} => f.exe # Nothing

Marked(row) ==
    [row EXCEPT !.verdict = "deny", !.label = IF @ = "none" THEN "pending" ELSE @]

Init ==
    /\ events = <<>> /\ state = 0 /\ follow = TRUE
    /\ filter = <<>> /\ filter_mode = FALSE /\ modal = Nothing
    /\ view = "Live" /\ rules = 0 /\ rules_state = 0
    /\ asked = {} /\ loaded = {}
    /\ picked = Nothing /\ latest = Nothing /\ gone = 0 /\ pushes = 0

---------------------------------------------------------------------------
(* The daemon                                                              *)

\* A rule that was requested has been written and loaded.  It may never be.
Load(r) ==
    /\ r \notin loaded /\ loaded' = loaded \cup {r}
    /\ UNCHANGED <<live, listing, view, asked, history>>

\* An event arrives that was decided by some of the rules that are in force
\* now: those that are missing were loaded after it.
GetEvent(f, decided) ==
    /\ pushes < MaxPushes /\ pushes' = pushes + 1
    /\ LET denied == \E r \in decided : RuleMatches(r, FlowOf(f))
       IN events' = Pushed(f, IF denied THEN "deny" ELSE "allow",
                           IF denied THEN "rule" ELSE "none")
    /\ gone' = IF events = <<>> \/ Head(events) \in Kept(events')
               THEN gone ELSE gone + Head(events).count
    /\ latest' = f
    /\ state' = IF follow THEN Len(events') ELSE state
    /\ UNCHANGED <<follow, filter, filter_mode, modal, listing, view, daemon, picked>>

\* Variant: the selection of the rules view is an index that is left alone.
GetRulesKeeps(n) ==
    /\ rules' = n
    /\ rules_state' = IF n = 0 THEN 0 ELSE IF rules_state = 0 THEN 1 ELSE rules_state
    /\ UNCHANGED <<live, view, daemon, history>>

\* A Rules message: set_rules.
GetRules(n) ==
    /\ rules' = n
    /\ rules_state' = IF rules_state = 0 /\ n > 0 THEN 1
                      ELSE IF rules_state > n THEN n ELSE rules_state
    /\ UNCHANGED <<live, view, daemon, history>>

---------------------------------------------------------------------------
(* Keys                                                                    *)

Clamped(n, high) == IF n < 1 THEN 1 ELSE IF n > high THEN high ELSE n

\* The modal and the filter prompt take all keys.
Free == modal = Nothing /\ ~filter_mode
LiveKeys == Free /\ view = "Live"

\* The place of row i among the rows that the filter lets through.
Place(i) == Cardinality({j \in Visible : j <= i})

\* Up, Down, PageUp, PageDown: scroll over those rows, from the last of them if
\* the selection is none of them.
Scroll(delta) ==
    /\ LiveKeys
    /\ \/ Visible = {} /\ state' = 0 /\ UNCHANGED follow
       \/ \E i \in Visible :
             LET pos == IF state \in Visible THEN Place(state) ELSE Cardinality(Visible) IN
             /\ Place(i) = Clamped(pos + delta, Cardinality(Visible))
             /\ state' = i /\ follow' = (Place(i) = Cardinality(Visible))
    /\ UNCHANGED <<events, filter, filter_mode, modal, listing, view, daemon, history>>

\* Variant: End goes to the last row, visible or not.
JumpToEndOfAll ==
    /\ LiveKeys
    /\ state' = Len(events) /\ follow' = TRUE
    /\ UNCHANGED <<events, filter, filter_mode, modal, listing, view, daemon, history>>

\* End, and G.
JumpToEnd ==
    /\ LiveKeys
    /\ state' = IF Visible = {} THEN state ELSE Max(Visible)
    /\ follow' = TRUE
    /\ UNCHANGED <<events, filter, filter_mode, modal, listing, view, daemon, history>>

\* Home.
JumpToStart ==
    /\ LiveKeys
    /\ state' = IF Visible = {} THEN state ELSE Min(Visible)
    /\ follow' = FALSE
    /\ UNCHANGED <<events, filter, filter_mode, modal, listing, view, daemon, history>>

StartFilter ==
    /\ LiveKeys
    /\ filter' = <<>> /\ filter_mode' = TRUE
    /\ UNCHANGED <<events, state, follow, modal, listing, view, daemon, history>>

\* handle_filter_input: Esc, Enter, Backspace, a character.
FilterInput ==
    /\ modal = Nothing /\ filter_mode
    /\ \/ filter' = <<>> /\ filter_mode' = FALSE
       \/ UNCHANGED filter /\ filter_mode' = FALSE
       \/ filter # <<>> /\ filter' = Front(filter) /\ UNCHANGED filter_mode
       \/ \E c \in Alphabet : /\ Len(filter) < MaxFilter
                              /\ filter' = Append(filter, c) /\ UNCHANGED filter_mode
    /\ UNCHANGED <<events, state, follow, modal, listing, view, daemon, history>>

\* d on a selected row: the modal keeps what the row shows.
OpenModal ==
    /\ LiveKeys /\ state \in DOMAIN events
    /\ modal' = events[state].facts /\ picked' = events[state].facts
    /\ UNCHANGED <<events, state, follow, filter, filter_mode, listing, view,
                   daemon, latest, gone, pushes>>

CloseModal ==
    /\ modal # Nothing /\ modal' = Nothing /\ picked' = Nothing
    /\ UNCHANGED <<events, state, follow, filter, filter_mode, listing, view,
                   daemon, latest, gone, pushes>>

\* Variant: the request is about what the selected row shows by now.
DenySelected(by) ==
    /\ modal # Nothing /\ state \in DOMAIN events /\ Offered(events[state].facts, by)
    /\ Cardinality(asked) < MaxAsked
    /\ modal' = Nothing /\ picked' = Nothing
    /\ events' = [i \in DOMAIN events |->
                    IF Alike(events[i].facts, events[state].facts, by) THEN Marked(events[i])
                    ELSE events[i]]
    /\ asked' = asked \cup {RuleFor(events[state].facts, by)}
    /\ UNCHANGED <<state, follow, filter, filter_mode, listing, view, loaded,
                   latest, gone, pushes>>

\* h, p, i, b: the rows are marked, and a CreateDenyRule is sent.
Deny(by) ==
    /\ modal # Nothing /\ Offered(modal, by)
    /\ Cardinality(asked) < MaxAsked
    /\ modal' = Nothing /\ picked' = Nothing
    /\ events' = [i \in DOMAIN events |->
                    IF Alike(events[i].facts, modal, by) THEN Marked(events[i])
                    ELSE events[i]]
    /\ asked' = asked \cup {RuleFor(modal, by)}
    /\ UNCHANGED <<state, follow, filter, filter_mode, listing, view, loaded,
                   latest, gone, pushes>>

\* Variant: Tab is looked at before the modal and the prompt.
SwitchToAlways(v) ==
    /\ view' = v
    /\ UNCHANGED <<live, listing, daemon, history>>

\* Tab and the number keys; the new view asks for what it shows (IpcSession).
SwitchTo(v) ==
    /\ Free /\ view' = v
    /\ UNCHANGED <<live, listing, daemon, history>>

\* Up and Down of the rules view.
RulesScroll(delta) ==
    /\ Free /\ view = "Rules"
    /\ rules_state' = IF rules = 0 THEN 0
                      ELSE Clamped((IF rules_state = 0 THEN 1 ELSE rules_state) + delta, rules)
    /\ UNCHANGED <<live, rules, view, daemon, history>>

Navigate == (\E delta \in {-20, -1, 1, 20} : Scroll(delta)) \/ JumpToEnd \/ JumpToStart
Keys == \/ Navigate \/ StartFilter \/ FilterInput \/ OpenModal \/ CloseModal
        \/ \E by \in Kinds : Deny(by)
        \/ \E v \in {"Live", "Rules", "Stats"} : SwitchTo(v)
        \/ \E delta \in {-1, 1} : RulesScroll(delta)
Messages == \/ \E f \in Facts, decided \in SUBSET loaded : GetEvent(f, decided)
            \/ \E n \in 0 .. MaxRules : GetRules(n)

Next == Keys \/ Messages \/ \E r \in asked : Load(r)

Spec == Init /\ [][Next]_vars

---------------------------------------------------------------------------
(* Properties                                                              *)

Rows == [facts : Facts, verdict : {"allow", "deny"},
         label : {"none", "pending", "rule"}, count : 1 .. MaxPushes]

\* Each variable stays in its range.  The selection of either list is a place
\* of it: the rows never get fewer, the rule list does.
TypeOK ==
    /\ events \in Seq(Rows) /\ Len(events) <= MAX_EVENTS /\ state \in 0 .. Len(events)
    /\ follow \in BOOLEAN /\ filter_mode \in BOOLEAN
    /\ filter \in Seq(Alphabet) /\ Len(filter) <= MaxFilter
    /\ modal \in Facts \cup {Nothing} /\ view \in {"Live", "Rules", "Stats"}
    /\ rules \in 0 .. MaxRules /\ rules_state \in 0 .. rules
    /\ asked \subseteq {RuleFor(f, by) : f \in Facts, by \in Kinds} /\ loaded \subseteq asked
    /\ picked \in Facts \cup {Nothing} /\ latest \in Facts \cup {Nothing}
    /\ gone \in 0 .. pushes /\ pushes \in 0 .. MaxPushes

\* No two rows have the same key.
KeysAreUnique ==
    \A i, j \in DOMAIN events :
        AggKey(events[i].facts) = AggKey(events[j].facts) => i = j

\* The running totals of the counts, row by row, from those of dropped rows on.
Totals == {t \in [0 .. Len(events) -> 0 .. pushes] :
              t[0] = gone /\ \A i \in DOMAIN events : t[i] = t[i - 1] + events[i].count}

\* README: the live view aggregates events.  No two rows have the same key,
\* every event received is counted by a row or went with a dropped one, and
\* what arrived last is what its row shows.
RowsAddUp ==
    /\ KeysAreUnique
    /\ \E t \in Totals : t[Len(events)] = pushes
    /\ latest # Nothing => \E i \in DOMAIN events : events[i].facts = latest

\* app.rs, optimistically_deny: "whose facts would be matched by a deny rule of
\* the requested kind".  A row that is shown as denied is one that a requested
\* rule matches, whatever events and requests came in between, and says why it
\* is denied.  (A row for 0.0.0.0 is left out: the daemon has no address for
\* it, so that the rule that was asked for never matches it.)
MarksAreSound ==
    \A i \in DOMAIN events :
        events[i].verdict = "deny" =>
            /\ events[i].label # "none"
            /\ events[i].facts.ip # UnspecifiedIp =>
                  \E r \in asked : RuleMatches(r, FlowOf(events[i].facts))

\* app.rs, ModalState: a snapshot, "so the row scrolling out from under us
\* doesn't change what the modal applies to".  A request is about what the
\* selected row showed when d was pressed.
DenyIsAboutPick ==
    [][asked' # asked => \E by \in Kinds : asked' = asked \cup {RuleFor(picked, by)}]_vars

\* The modal and the filter prompt belong to the live view: neither is open
\* behind another view, nor both at once.
PromptsInLiveView ==
    /\ modal # Nothing \/ filter_mode => view = "Live"
    /\ ~(modal # Nothing /\ filter_mode)

\* The modal is about what the row showed when d was pressed.
PickIsModal == picked = modal

\* The inductive invariant.
IInv == TypeOK /\ RowsAddUp /\ MarksAreSound /\ PromptsInLiveView /\ PickIsModal

\* app.rs:100: an arriving event does not move the selection to another row,
\* unless the list follows its end or the first row was dropped; then the
\* selection is on the row below.
SelectionStays ==
    [][(pushes' # pushes /\ ~follow /\ state # 0) =>
          LET i == IF gone' = gone THEN state ELSE state + 1
          IN \/ i > Len(events)
             \/ AggKey(events'[state'].facts) = AggKey(events[i].facts)]_vars

\* Keys that move the selection put it on a row that is shown, if there is one,
\* and the list follows its end only from the last of them.
NavigationLands ==
    [][Navigate /\ Visible # {} =>
          /\ state' \in Visible
          /\ follow' => state' = Max(Visible)]_vars
=============================================================================
