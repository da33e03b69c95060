----------------------------- MODULE IpcSession -----------------------------
(***************************************************************************)
(* One client of the daemon: handle_client of dadophoros-daemon/src/ipc.rs *)
(* and the select loop of dadophoros-tui/src/main.rs, at the two ends of a *)
(* Unix stream socket.  A message is written as two pieces, its length and *)
(* its body (write_message), and read as two pieces (read_message).        *)
(*                                                                         *)
(* Both ends read inside select!.  When another branch completes first the *)
(* read is dropped, and with it the pieces it has consumed: what is left   *)
(* of the frame is then taken for the next length.  Both ends write inside *)
(* a branch's body, where nothing drops the write and nothing is read.     *)
(*                                                                         *)
(* Events are numbered in the order they are broadcast; a rule list is the *)
(* version of the rules directory it was read from.  A body is one piece   *)
(* (bodies too big for one send are left out), and a list has a rule.      *)
(***************************************************************************)
EXTENDS Integers, Sequences

CONSTANTS
    Firsts,       \* what the client sends first; the TUI sends Subscribe
    Others,       \* what it sends besides the TUI's requests; the TUI: nothing
    Wanted,       \* events matches_filter lets through; the TUI: all
    RoomToClient, \* pieces the socket holds in either direction
    RoomToDaemon,
    LagCap,       \* capacity of the broadcast channel
    MaxEvents,    \* bounds of the numbers of events, of the user's requests
    MaxRequests,  \* and of changes to the rules directory by others
    MaxChanges

Requests == {"list", "toggle", "create", "stats"}

ASSUME ClientsAssumption ==
    /\ Firsts \subseteq Requests \cup {"subscribe", "unsubscribe"}
    /\ Others \subseteq {"subscribe", "unsubscribe"}

ASSUME RoomAssumption ==
    /\ RoomToClient \in Nat \ {0} /\ RoomToDaemon \in Nat \ {0}
    /\ LagCap \in Nat \ {0}
    /\ MaxEvents \in Nat /\ MaxRequests \in Nat /\ MaxChanges \in Nat

VARIABLES
    c2d, d2c,     \* the socket: pieces on their way
    handler,      \* handle_client: "hello", "first", "ok", "refuse", "loop", "end"
    d_out,        \* pieces the handler's running write has left
    d_held,       \* what its running read has consumed: "none", "len", "stray"
    rx,           \* the next event its broadcast receiver returns
    published,    \* events broadcast
    client,       \* "hello", "ack", "run", "edit" (in $EDITOR), "gone"
    c_out, c_held,
    view,         \* app.view
    shown,        \* app.rules: the version it shows, 0 before the first list
    rows,         \* events pushed into the Live view
    disk,         \* version of the rules directory
    requests, changes,
    owed,         \* history: requests sent and not answered, oldest first
    amiss,        \* history: an answer was not to the oldest request
    written,      \* history: the version the user's last change made
    skipped,      \* history: events before the subscription, lagged, unwanted
    torn          \* history: a read that had consumed something was dropped

wire == <<c2d, d2c>>
daemon == <<handler, d_out, d_held, rx>>
tui == <<client, c_out, c_held, view, shown, rows>>
history == <<owed, amiss, written, skipped, torn>>
vars == <<wire, daemon, published, tui, disk, requests, changes, history>>

---------------------------------------------------------------------------
(* Messages and frames                                                     *)

Request(k) == [kind |-> k, n |-> 0]
Reply(k, n) == [kind |-> k, n |-> n]
Event(e) == [kind |-> "Event", n |-> e]

Messages ==
    [kind : Requests \cup {"subscribe", "unsubscribe", "Hello", "Ok", "Error",
                           "Rules", "Stats", "Event"}, n : Nat]
Pieces == [part : {"len", "body"}, msg : Messages]

\* write_message: the length, then the body.
Frame(m) == <<[part |-> "len", msg |-> m], [part |-> "body", msg |-> m]>>

\* Bodies of fewer than four bytes: an enum tag and nothing, or one byte, more.
Short(m) == m.kind \in {"subscribe", "unsubscribe", "list", "stats", "Ok"}

\* One poll of read_message, given what earlier polls have consumed and what
\* is in the socket: it consumes a piece and waits, completes, or fails.  A body
\* that is taken for a length is at least 2^24 (its first byte is the message's
\* tag) and so beyond MAX_FRAME, or the zero of a Subscribe, and decodes to
\* nothing.  A short one leaves the length incomplete until more arrives.
Consumes(held, s) ==
    held = "none" /\ Len(s) = 1 /\ (s[1].part = "len" \/ Short(s[1].msg))
Completes(held, s) ==
    \/ held = "len" /\ s # <<>>
    \/ held = "none" /\ Len(s) > 1 /\ s[1].part = "len"
Misreads(held, s) ==
    \/ held = "stray" /\ s # <<>>
    \/ /\ held = "none" /\ s # <<>> /\ s[1].part = "body"
       /\ Short(s[1].msg) => Len(s) > 1

Held(s) == IF s[1].part = "len" THEN "len" ELSE "stray"

\* What a read that completes leaves in the socket.
Rest(held, s) == IF held = "len" THEN Tail(s) ELSE Tail(Tail(s))

Init ==
    /\ c2d = <<>> /\ d2c = <<>>
    /\ handler = "hello" /\ d_out = Frame(Reply("Hello", 0)) /\ d_held = "none"
    /\ rx = 1 /\ published = 0
    /\ client = "hello" /\ c_out = <<>> /\ c_held = "none"
    /\ view = "Live" /\ shown = 0 /\ rows = <<>>
    /\ disk = 1 /\ requests = 0 /\ changes = 0
    /\ owed = <<>> /\ amiss = FALSE /\ written = 1 /\ skipped = {}
    /\ torn = FALSE

---------------------------------------------------------------------------
(* The rest of the daemon and of the machine                               *)

\* event_tx.send in the events arm of the main loop.
Publish ==
    /\ published < MaxEvents /\ published' = published + 1
    /\ UNCHANGED <<wire, daemon, tui, disk, requests, changes, history>>

\* Other clients, editors and the administrator change the rules.
OthersChange ==
    /\ changes < MaxChanges /\ changes' = changes + 1
    /\ disk' = disk + 1
    /\ UNCHANGED <<wire, daemon, published, tui, requests, history>>

---------------------------------------------------------------------------
(* handle_client                                                           *)

\* What follows the write that is running.
AfterWrite == [hello |-> "first", ok |-> "loop", refuse |-> "end", loop |-> "loop"]

\* Variant: a write does not wait for room.
NoRoomNeeded == TRUE

\* write_all waits while the socket is full.
Room == Len(d2c) < RoomToClient

\* One piece of a write; after that of the Ok the handler subscribes, in the
\* same poll.
DaemonWrites ==
    /\ d_out # <<>> /\ client # "gone" /\ Room
    /\ d2c' = Append(d2c, Head(d_out)) /\ d_out' = Tail(d_out)
    /\ handler' = IF Len(d_out) = 1 THEN AfterWrite[handler] ELSE handler
    /\ IF handler = "ok" /\ Len(d_out) = 1
       THEN rx' = published + 1 /\ skipped' = 1 .. published
       ELSE UNCHANGED <<rx, skipped>>
    /\ UNCHANGED <<c2d, d_held, published, tui, disk, requests, changes,
                   owed, amiss, written, torn>>

\* The handler returns and drops its halves of the socket.
DaemonEnds == handler' = "end" /\ d_out' = <<>> /\ d_held' = "none" /\ c2d' = <<>>

\* It reads when it is not writing.
DaemonReads == handler \in {"first", "loop"} /\ d_out = <<>>

\* A write to a client that is gone, or its end of file: a read takes what is
\* in the socket first.
DaemonLosesClient ==
    /\ client = "gone" /\ handler # "end"
    /\ d_out # <<>> \/ c2d = <<>>
    /\ DaemonEnds
    /\ UNCHANGED <<d2c, rx, published, tui, disk, requests, changes, history>>

DaemonConsumes ==
    /\ DaemonReads /\ Consumes(d_held, c2d)
    /\ d_held' = Held(c2d) /\ c2d' = <<>>
    /\ UNCHANGED <<d2c, handler, d_out, rx, published, tui, disk, requests,
                   changes, history>>

DaemonMisreads ==
    /\ DaemonReads /\ Misreads(d_held, c2d)
    /\ DaemonEnds
    /\ UNCHANGED <<d2c, rx, published, tui, disk, requests, changes, history>>

\* A whole request k has been read.
Receives(k) ==
    DaemonReads /\ Completes(d_held, c2d) /\ c2d[1].msg = Request(k)

Answer(m) ==
    /\ c2d' = Rest(d_held, c2d) /\ d_held' = "none" /\ d_out' = Frame(m)
    /\ UNCHANGED <<d2c, rx, published, tui, requests, changes, owed, amiss,
                   skipped, torn>>

\* The first request must be a Subscribe.
FirstRequest(k) ==
    /\ handler = "first" /\ Receives(k)
    /\ IF k = "subscribe" THEN handler' = "ok" /\ Answer(Reply("Ok", 0))
                          ELSE handler' = "refuse" /\ Answer(Reply("Error", 0))
    /\ UNCHANGED <<disk, written>>

\* ListRules and GetStats: read the directory, or the published snapshot.
AnswerQuery(k) ==
    /\ handler = "loop" /\ Receives(k)
    /\ \/ k = "list" /\ Answer(Reply("Rules", disk))
       \/ k = "stats" /\ Answer(Reply("Stats", 0))
    /\ UNCHANGED <<handler, disk, written>>

\* Variant: only a change that succeeded is acknowledged.
ChangeRulesAcksOk(k) ==
    /\ handler = "loop" /\ k \in {"toggle", "create"} /\ Receives(k)
    /\ \/ disk' = disk + 1 /\ written' = disk' /\ Answer(Reply("Ok", 0))
       \/ /\ disk' \in {disk, disk + 1} /\ UNCHANGED written
          /\ c2d' = Rest(d_held, c2d) /\ d_held' = "none"
          /\ UNCHANGED <<d2c, d_out, rx, published, tui, requests, changes,
                         owed, amiss, skipped, torn>>
    /\ UNCHANGED handler

\* SetRuleEnabled and CreateDenyRule: a file is written, or the request is
\* refused or fails, perhaps after the file was opened and truncated.
ChangeRules(k) ==
    /\ handler = "loop" /\ k \in {"toggle", "create"} /\ Receives(k)
    /\ \/ disk' = disk + 1 /\ written' = disk' /\ Answer(Reply("Ok", 0))
       \/ /\ disk' \in {disk, disk + 1} /\ UNCHANGED written
          /\ Answer(Reply("Error", 0))
    /\ UNCHANGED handler

\* A second Subscribe is not answered; Unsubscribe ends the session.
SubscribeAgain ==
    /\ handler = "loop" /\ Receives("subscribe")
    /\ c2d' = Rest(d_held, c2d) /\ d_held' = "none"
    /\ UNCHANGED <<d2c, handler, d_out, rx, published, tui, disk, requests,
                   changes, history>>

Unsubscribe ==
    /\ handler = "loop" /\ Receives("unsubscribe")
    /\ DaemonEnds
    /\ UNCHANGED <<d2c, rx, published, tui, disk, requests, changes, history>>

\* The broadcast arm is taken when the read, which is polled first, waits; the
\* read is dropped.
DropsRead ==
    /\ handler = "loop" /\ d_out = <<>> /\ c2d = <<>> /\ client # "gone"
    /\ rx <= published
    /\ d_held' = "none" /\ torn' = (torn \/ d_held # "none")
    /\ UNCHANGED <<wire, handler, published, tui, disk, requests, changes,
                   owed, amiss, written>>

\* Events between this one and the last that the channel still holds.
Lags == published - rx >= LagCap

RecvEvent ==
    /\ DropsRead /\ ~Lags
    /\ rx' = rx + 1
    /\ IF rx \in Wanted THEN d_out' = Frame(Event(rx)) /\ UNCHANGED skipped
                        ELSE skipped' = skipped \cup {rx} /\ UNCHANGED d_out

\* Variant: the receiver keeps its place when it has lagged.
RecvLaggedAgain ==
    /\ DropsRead /\ Lags
    /\ UNCHANGED <<rx, d_out, skipped>>

\* The channel's oldest events are gone: go on with the oldest it has.
RecvLagged ==
    /\ DropsRead /\ Lags
    /\ rx' = published - LagCap + 1
    /\ skipped' = skipped \cup (rx .. published - LagCap)
    /\ UNCHANGED d_out

---------------------------------------------------------------------------
(* The client                                                              *)

\* The TUI leaves its loop, or fails before it, and drops its halves.
ClientLeaves ==
    /\ client' = "gone" /\ c_out' = <<>> /\ c_held' = "none" /\ d2c' = <<>>
    /\ UNCHANGED <<view, shown, rows>>

ClientWrites ==
    /\ c_out # <<>> /\ handler # "end" /\ Len(c2d) < RoomToDaemon
    /\ c2d' = Append(c2d, Head(c_out)) /\ c_out' = Tail(c_out)
    /\ UNCHANGED <<d2c, daemon, published, client, c_held, view, shown, rows,
                   disk, requests, changes, history>>

ClientReads == client \in {"hello", "ack", "run"} /\ c_out = <<>>

\* A write to a handler that has returned, or its end of file.
ClientLosesDaemon ==
    /\ handler = "end"
    /\ c_out # <<>> \/ (ClientReads /\ d2c = <<>>)
    /\ ClientLeaves
    /\ UNCHANGED <<c2d, daemon, published, disk, requests, changes, history>>

ClientConsumes ==
    /\ ClientReads /\ Consumes(c_held, d2c)
    /\ c_held' = Held(d2c) /\ d2c' = <<>>
    /\ UNCHANGED <<c2d, daemon, published, client, c_out, view, shown, rows,
                   disk, requests, changes, history>>

\* Variant: a length beyond MAX_FRAME is skipped and reading goes on.
ClientMisreadsOn ==
    /\ ClientReads /\ Misreads(c_held, d2c)
    /\ d2c' = Tail(d2c) /\ c_held' = "none"
    /\ UNCHANGED <<c2d, daemon, published, client, c_out, view, shown, rows,
                   disk, requests, changes, history>>

ClientMisreads ==
    /\ ClientReads /\ Misreads(c_held, d2c)
    /\ ClientLeaves
    /\ UNCHANGED <<c2d, daemon, published, disk, requests, changes, history>>

\* A whole message of kind k has been read in state s.
Gets(s, k) ==
    /\ client = s /\ c_out = <<>>
    /\ Completes(c_held, d2c) /\ d2c[1].msg.kind = k

\* What every message that is read leaves behind and alone.
Taken ==
    /\ d2c' = Rest(c_held, d2c) /\ c_held' = "none"
    /\ UNCHANGED <<c2d, daemon, published, view, disk, requests, changes,
                   written, skipped, torn>>

\* main: Hello, then the first request.
GetsHello ==
    /\ Gets("hello", "Hello") /\ Taken
    /\ \E r \in Firsts : c_out' = Frame(Request(r))
    /\ client' = "ack"
    /\ UNCHANGED <<shown, rows, owed, amiss>>

\* main: the loop starts after an Ok.
GetsAck ==
    /\ Gets("ack", "Ok") /\ Taken
    /\ client' = "run"
    /\ UNCHANGED <<c_out, shown, rows, owed, amiss>>

GetsRefusal ==
    /\ Gets("ack", "Error")
    /\ ClientLeaves
    /\ UNCHANGED <<c2d, daemon, published, disk, requests, changes, history>>

GetsEvent ==
    /\ Gets("run", "Event") /\ Taken
    /\ rows' = Append(rows, d2c[1].msg.n)
    /\ UNCHANGED <<client, c_out, shown, owed, amiss>>

\* What answers a request; history: does an answer of kind k fit the oldest
\* request, and which requests does it leave.
AnswersOf == [list |-> {"Rules"}, stats |-> {"Stats"},
              toggle |-> {"Ok", "Error"}, create |-> {"Ok", "Error"}]
Fits(k) ==
    amiss' = (amiss \/ owed = <<>> \/ k \notin AnswersOf[Head(owed)])
Pending == IF owed = <<>> THEN owed ELSE Tail(owed)

\* Rules, Stats and Error are answers that ask for nothing more.
GetsAnswer(k) ==
    /\ Gets("run", k) /\ Taken
    /\ shown' = IF k = "Rules" THEN d2c[1].msg.n ELSE shown
    /\ Fits(k) /\ owed' = Pending
    /\ UNCHANGED <<client, c_out, rows>>

\* Variant: the list is not asked for again.
RefreshesNot == FALSE

\* An Ok refreshes the list if the Rules view shows.
Refreshes == view = "Rules"

GetsOk ==
    /\ Gets("run", "Ok") /\ Taken
    /\ Fits("Ok")
    /\ IF Refreshes
       THEN c_out' = Frame(Request("list")) /\ owed' = Append(Pending, "list")
       ELSE UNCHANGED c_out /\ owed' = Pending
    /\ UNCHANGED <<client, shown, rows>>

\* A key or a tick completes its branch of select, and the read is dropped.
AtSelect ==
    /\ client = "run" /\ c_out = <<>>
    /\ c_held' = "none" /\ torn' = (torn \/ c_held # "none")
    /\ UNCHANGED <<wire, daemon, published, shown, rows, disk, changes, amiss,
                   written, skipped>>

Sends(r) ==
    /\ requests < MaxRequests /\ requests' = requests + 1
    /\ c_out' = Frame(Request(r))
    /\ owed' = IF r \in Requests THEN Append(owed, r) ELSE owed

\* App::switch_to: the Rules and Stats views ask for their contents.
SwitchTo(v) ==
    /\ AtSelect /\ view' = v
    /\ \/ v = "Live" /\ UNCHANGED <<c_out, requests, owed>>
       \/ v = "Rules" /\ Sends("list")
       \/ v = "Stats" /\ Sends("stats")
    /\ UNCHANGED client

\* The keys of a view, and in the Stats view every tenth tick.
Ask(r) ==
    /\ AtSelect
    /\ \/ view = "Live" /\ rows # <<>> /\ r = "create"
       \/ view = "Rules" /\ (r = "list" \/ (shown # 0 /\ r = "toggle"))
       \/ view = "Stats" /\ r = "stats"
       \/ r \in Others
    /\ Sends(r)
    /\ UNCHANGED <<client, view>>

\* A tick, or a key that asks the daemon for nothing.
Idle == AtSelect /\ c_held # "none" /\ UNCHANGED <<client, c_out, view, requests, owed>>

Quit ==
    /\ client = "run" /\ c_out = <<>>
    /\ ClientLeaves
    /\ UNCHANGED <<c2d, daemon, published, disk, requests, changes, history>>

\* edit_rule runs $EDITOR and waits for it: nothing is read or written.
StartEdit ==
    /\ AtSelect /\ view = "Rules" /\ shown # 0 /\ requests < MaxRequests
    /\ client' = "edit"
    /\ UNCHANGED <<c_out, view, requests, owed>>

\* The editor has saved the file or not; the list is asked for again.
EndEdit ==
    /\ client = "edit" /\ client' = "run"
    /\ \/ disk' = disk + 1 /\ written' = disk'
       \/ UNCHANGED <<disk, written>>
    /\ Sends("list")
    /\ UNCHANGED <<wire, daemon, published, c_held, view, shown, rows, changes,
                   amiss, skipped, torn>>

\* The terminal cannot be restored: leave.
EditFails ==
    /\ client = "edit"
    /\ disk' \in {disk, disk + 1}
    /\ ClientLeaves
    /\ UNCHANGED <<c2d, daemon, published, requests, changes, history>>

---------------------------------------------------------------------------

Daemon ==
    \/ DaemonWrites \/ DaemonConsumes \/ DaemonMisreads \/ DaemonLosesClient
    \/ \E k \in Requests \cup {"subscribe", "unsubscribe"} :
          FirstRequest(k) \/ AnswerQuery(k) \/ ChangeRules(k)
    \/ SubscribeAgain \/ Unsubscribe
    \/ RecvEvent \/ RecvLagged

\* What the client does by itself.
Client ==
    \/ ClientWrites \/ ClientConsumes \/ ClientMisreads \/ ClientLosesDaemon
    \/ GetsHello \/ GetsAck \/ GetsRefusal \/ GetsEvent \/ GetsOk
    \/ \E k \in {"Rules", "Stats", "Error"} : GetsAnswer(k)

User ==
    \/ \E v \in {"Live", "Rules", "Stats"} : SwitchTo(v)
    \/ \E r \in Requests \cup Others : Ask(r)
    \/ Idle \/ Quit \/ StartEdit \/ EndEdit \/ EditFails

Next == Publish \/ OthersChange \/ Daemon \/ Client \/ User

\* Both programs are scheduled and their tasks polled when they are ready; the
\* user need not do anything, and may stay in the editor for ever.
Fairness == WF_vars(Daemon) /\ WF_vars(Client)

Spec == Init /\ [][Next]_vars /\ Fairness

---------------------------------------------------------------------------
(* Properties                                                              *)

HeldStates == {"none", "len", "stray"}

\* Each variable stays in its range; neither socket buffer overflows.
TypeOK ==
    /\ c2d \in Seq(Pieces) /\ Len(c2d) <= RoomToDaemon
    /\ d2c \in Seq(Pieces) /\ Len(d2c) <= RoomToClient
    /\ handler \in {"hello", "first", "ok", "refuse", "loop", "end"}
    /\ d_out \in Seq(Pieces) /\ Len(d_out) <= 2 /\ d_held \in HeldStates
    /\ client \in {"hello", "ack", "run", "edit", "gone"}
    /\ c_out \in Seq(Pieces) /\ Len(c_out) <= 2 /\ c_held \in HeldStates
    /\ published \in 0 .. MaxEvents /\ rx \in 1 .. MaxEvents + 1
    /\ view \in {"Live", "Rules", "Stats"} /\ shown \in 0 .. disk
    /\ rows \in Seq(1 .. MaxEvents)
    /\ disk \in Nat /\ written \in 1 .. disk
    /\ requests \in 0 .. MaxRequests /\ changes \in 0 .. MaxChanges
    /\ owed \in Seq(Requests) /\ amiss \in BOOLEAN
    /\ skipped \in SUBSET (1 .. MaxEvents) /\ torn \in BOOLEAN

\* Both ends wait for each other and nothing is on its way.
Quiet ==
    /\ handler = "loop" /\ client = "run"
    /\ c2d = <<>> /\ d2c = <<>> /\ d_out = <<>> /\ c_out = <<>>
    /\ d_held = "none" /\ c_held = "none"

\* Messages carry no number that ties an answer to its request: while no frame
\* is torn, each answer is to the oldest request that has none, whatever events
\* come between, and when the session is at rest every request has been answered.
AnswersInOrder ==
    ~torn => ~amiss /\ (Quiet => owed = <<>>)

\* The Live view gets the events in the order they were broadcast, each once,
\* and between those it got none is missing but those the channel had dropped
\* or the filter refused: a torn event ends the session, it is not passed over.
EventsInOrder ==
    /\ \A i, j \in 1 .. Len(rows) : i < j => rows[i] < rows[j]
    /\ \A i \in 1 .. Len(rows) : \A e \in 1 .. rows[i] :
          e \in skipped \/ \E j \in 1 .. i : rows[j] = e

\* When the session is at rest the Rules view shows the user's last change,
\* whatever the user did while its acknowledgement was on its way: an Ok that
\* comes in another view asks for nothing, but then the switch does.
RulesViewFresh == Quiet /\ ~torn /\ view = "Rules" => shown >= written

\* The inductive invariant is about what is on its way to either end: the pieces
\* in the socket and those the other end has still to write.
ToClient == d2c \o d_out
ToDaemon == c2d \o c_out

Bodies(s, kinds) == {i \in DOMAIN s : s[i].part = "body" /\ s[i].msg.kind \in kinds}

\* Each length is followed by its body, and each body but the first piece comes
\* after its length: a write is only cut short when nobody reads any more.
Framed(s) ==
    \A i \in DOMAIN s :
        IF s[i].part = "len"
        THEN i < Len(s) /\ s[i + 1] = [part |-> "body", msg |-> s[i].msg]
        ELSE i > 1 => s[i - 1] = [part |-> "len", msg |-> s[i].msg]

\* Only a read that has consumed the length, or a dropped one, leaves a body first.
WholeFrames(s) == s = <<>> \/ s[1].part = "len"
Aligned(held, s, dropped) ==
    /\ Framed(s)
    /\ held = "len" => ~WholeFrames(s)
    /\ held = "stray" => dropped /\ WholeFrames(s)
    /\ held = "none" => dropped \/ WholeFrames(s)

\* Who writes at which stage.
Writing ==
    /\ handler \in {"hello", "ok", "refuse"} => d_out # <<>>
    /\ d_out # <<>> => handler \notin {"first", "end"}
    /\ handler \in {"hello", "first", "ok", "refuse"} => rx = 1
    /\ client \in {"run", "edit"} => handler \in {"loop", "end"}
    /\ client \in {"edit", "gone"} => c_out = <<>>

\* Nothing is owed before the answer to the first request, which is by itself.
AnswerKinds == {"Rules", "Stats", "Ok", "Error"}
Opening ==
    client \in {"hello", "ack"} =>
        /\ owed = <<>> /\ view = "Live" /\ Len(ToDaemon) <= 2
        /\ client = "hello" =>
              /\ handler \in {"hello", "first"} /\ ToDaemon = <<>>
              /\ Len(ToClient) <= 2 /\ Bodies(ToClient, AnswerKinds) = {}
        /\ client = "ack" /\ handler \in {"hello", "first"} => ToClient = <<>>
        /\ handler \in {"ok", "refuse"} => Len(ToClient) <= 2
        /\ handler \in {"ok", "loop"} => ToDaemon = <<>>
        /\ \A i \in Bodies(ToClient, AnswerKinds) : \A j \in 1 .. i - 1 : ToClient[j].part = "len"

\* The events on their way are in order and come after the rows, and no event the
\* receiver has passed is missing.
EventsComing ==
    LET events == Bodies(ToClient, {"Event"}) IN
    /\ skipped \subseteq 1 .. rx - 1
    /\ \A k \in DOMAIN rows : rows[k] < rx
    /\ \A i \in events : /\ ToClient[i].msg.n \in 1 .. rx - 1
                         /\ \A k \in DOMAIN rows : rows[k] < ToClient[i].msg.n
    /\ \A i, j \in events : i < j => ToClient[i].msg.n < ToClient[j].msg.n
    /\ \A e \in 1 .. rx - 1 : \/ e \in skipped \/ \E k \in DOMAIN rows : rows[k] = e
                              \/ \E i \in events : ToClient[i].msg.n = e

\* The lists on their way are ever newer.
ListsComing ==
    LET lists == Bodies(ToClient, {"Rules"}) IN
    /\ \A i \in lists : ToClient[i].msg.n \in shown .. disk
    /\ \A i, j \in lists : i < j => ToClient[i].msg.n <= ToClient[j].msg.n

\* The answers on their way in s are to the oldest of the requests in o, each in its
\* place p; those on their way in t are the others, in their places q: none is lost
\* while the handler goes on.
Answered(s, o, p) ==
    LET answers == Bodies(s, AnswerKinds) IN
    /\ \A i \in answers : s[i].msg.kind \in AnswersOf[o[p[i]]]
    /\ \A i, j \in answers : i < j => p[i] < p[j]
    /\ \A i \in answers : \A k \in 1 .. p[i] : \E j \in answers : p[j] = k
AskedAfter(s, t, o, p, q) ==
    LET answers == Bodies(s, AnswerKinds)
        asked == Bodies(t, Requests)
    IN /\ \A i \in asked : t[i].msg.kind = o[q[i]]
       /\ \A i, j \in asked : i < j => q[i] < q[j]
       /\ \A i \in answers, j \in asked : p[i] < q[j]
       /\ \A k \in 1 .. Len(o) : \/ \E i \in answers : p[i] = k
                                 \/ \E j \in asked : q[j] = k
Orderly(s, t, o, going) ==
    \E p \in [Bodies(s, AnswerKinds) -> 1 .. Len(o)] :
        /\ Answered(s, o, p)
        /\ going => \E q \in [Bodies(t, Requests) -> 1 .. Len(o)] : AskedAfter(s, t, o, p, q)
AnswersComing == Orderly(ToClient, ToDaemon, owed, handler = "loop")

\* The Rules view shows the user's last change, or what will make it is coming.
ChangeComing ==
    handler = "loop" /\ view = "Rules" =>
        \/ shown >= written \/ Bodies(ToDaemon, {"list"}) # {} \/ Bodies(ToClient, {"Ok"}) # {}
        \/ \E i \in Bodies(ToClient, {"Rules"}) : ToClient[i].msg.n >= written

IInv ==
    /\ TypeOK /\ Writing /\ Opening /\ EventsInOrder
    /\ client # "gone" => Aligned(c_held, ToClient, torn) /\ EventsComing /\ ListsComing
    /\ handler # "end" => Aligned(d_held, ToDaemon, torn)
    /\ ~torn => ~amiss
    /\ ~torn /\ client \in {"run", "edit"} => AnswersComing /\ ChangeComing

\* dadophoros-tui/src/main.rs: after an Ok, "refresh the rule list so the Rules
\* view reflects the new on-disk truth".
RulesViewFollowsDisk == Quiet /\ view = "Rules" => shown >= written

\* Each end waits for the other to make room, and so does not read.
MutualBlock ==
    /\ handler = "loop" /\ d_out # <<>> /\ Len(d2c) = RoomToClient
    /\ client = "run" /\ c_out # <<>> /\ Len(c2d) = RoomToDaemon

\* An event broadcast to a subscribed client reaches its Live view, or the
\* channel drops it, or the session ends, unless the user stays in the editor
\* or both ends block on a full socket.
EventsArrive ==
    \A e \in 1 .. MaxEvents :
        handler = "loop" /\ rx <= e /\ e <= published
            ~> \/ e \in skipped \/ \E i \in 1 .. Len(rows) : rows[i] = e
               \/ client = "gone" \/ MutualBlock \/ [](client = "edit")
=============================================================================
