------------------------------- MODULE Rules -------------------------------
(***************************************************************************)
(* The rule language of dadophoros-daemon/src/rules.rs: what a file of the *)
(* rules directory contributes to the active list, how the list is         *)
(* ordered, and which rule decides a flow.                                 *)
(*                                                                         *)
(* A string (an executable path, a host name, an address) is a sequence of *)
(* tokens, so that prefix, suffix and substring tests are those of the     *)
(* code; <<>> is the empty string, which the code also uses for a value it *)
(* does not have.  A match value carries its TOML kind with it.  A file is *)
(* named by its stem; its extension is told by the set of .toml files.     *)
(***************************************************************************)
EXTENDS Integers, Sequences, SequencesExt

Absent == [present |-> FALSE]    \* what a name holds when there is no file
NoId == "no id"                  \* the id field is not given
NoVerdict == [action |-> "allow", rule_id |-> "no rule"]

---------------------------------------------------------------------------
(* Matching                                                                *)

\* v occurs in s.
IsInfix(v, s) == \E i \in 1 .. Len(s) + 1 : IsPrefix(v, SubSeq(s, i, Len(s)))

\* Operator and value kind must agree: any other pair never matches.
MatchString(op, value, s) ==
    \/ /\ value.kind = "str"
       /\ \/ op = "exact" /\ s = value.val
          \/ op = "prefix" /\ IsPrefix(value.val, s)
          \/ op = "suffix" /\ IsSuffix(value.val, s)
          \/ op = "contains" /\ IsInfix(value.val, s)
    \/ value.kind = "str_list" /\ op = "in" /\ s \in value.val

\* The same for numbers.
MatchPort(op, value, port) ==
    \/ value.kind = "num" /\ op = "exact" /\ port = value.val
    \/ value.kind = "num_list" /\ op = "in" /\ port \in value.val

\* A flow is [exe, host, ip, port]; a field the daemon could not fill is <<>>.
MatchesOne(m, flow) ==
    \/ m.field = "process_path" /\ MatchString(m.op, m.value, flow.exe)
    \/ m.field = "dest_host" /\ MatchString(m.op, m.value, flow.host)
    \/ m.field = "dest_ip" /\ MatchString(m.op, m.value, flow.ip)
    \/ m.field = "dest_port" /\ MatchPort(m.op, m.value, flow.port)

\* Every clause of the rule holds; a rule without clauses matches every flow.
RuleMatches(r, flow) == \A m \in r.matches : MatchesOne(m, flow)

\* The places of the list at which a rule matches.
Hits(rules, flow) == {i \in 1 .. Len(rules) : RuleMatches(rules[i], flow)}

\* Variant: the last match decides, as when each match overwrites the verdict.
EvaluateLast(rules, flow) ==
    IF Hits(rules, flow) = {}
    THEN NoVerdict
    ELSE LET last == CHOOSE i \in Hits(rules, flow) :
                         \A j \in Hits(rules, flow) : j <= i
         IN [action |-> rules[last].action, rule_id |-> rules[last].id]

\* The first rule of the list that matches decides; none means allow.
Evaluate(rules, flow) ==
    IF Hits(rules, flow) = {}
    THEN NoVerdict
    ELSE LET first == CHOOSE i \in Hits(rules, flow) :
                          \A j \in Hits(rules, flow) : i <= j
         IN [action |-> rules[first].action, rule_id |-> rules[first].id]

---------------------------------------------------------------------------
(* Files and the loaded list                                               *)

\* A file that parses to a rule which is switched on.  What does not parse
\* (a half-written file among them) contributes nothing.
Contributes(c) == c # Absent /\ c.parses /\ c.enabled

\* A rule without an id goes by the stem of its file.
EffectiveId(f, c) == IF c.id = NoId THEN f ELSE c.id

\* The list entry of file f with contents c, and the file it came from.
Entry(f, c) ==
    [file |-> f, id |-> EffectiveId(f, c), priority |-> c.priority,
     action |-> c.action, matches |-> c.matches]

\* Variant: the list is left in the order in which it was read.
SortsNever(rules, r, k) == k = Len(rules) + 1

\* Place k of the list is where a stable sort by priority puts an entry that
\* was read after those already in it: behind every entry of the same or a
\* lower number.  A sorted list has exactly one such place.
SortsAt(rules, r, k) ==
    /\ k \in 1 .. Len(rules) + 1
    /\ \A i \in 1 .. k - 1 : rules[i].priority <= r.priority
    /\ \A i \in k .. Len(rules) : r.priority < rules[i].priority
=============================================================================
