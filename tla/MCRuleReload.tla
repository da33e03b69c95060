---------------------------- MODULE MCRuleReload ----------------------------
(* Small instances of RuleReload: two rule files, one of them the name the  *)
(* daemon gives to a rule it writes, and contents that differ in priority,  *)
(* in action and in whether they parse and are enabled.                     *)
EXTENDS RuleReload

CONSTANTS mine, auto    \* file names

Str(s) == [kind |-> "str", val |-> s]
Clause(f, o, v) == [field |-> f, op |-> o, value |-> v]
AdsHost == Clause("dest_host", "suffix", Str(<<"ads">>))
Https == Clause("dest_port", "in", [kind |-> "num_list", val |-> {443}])
Curl == Clause("process_path", "exact", Str(<<"bin", "curl">>))

Rule(p, a, ms) == [parses |-> TRUE, enabled |-> TRUE, priority |-> p,
                   id |-> NoId, action |-> a, matches |-> ms]
Off(c) == [c EXCEPT !.enabled = FALSE]

DenyAds == Rule(100, "deny", {AdsHost})
AllowCurl == Rule(50, "allow", {Curl, Https})
Broken == [Rule(100, "allow", {}) EXCEPT !.parses = FALSE]

BothWays(S) == S \cup {Off(c) : c \in S}

\* Rules of two priorities and both actions, and a file that does not parse.
MCContents == BothWays({DenyAds, AllowCurl, Broken})
\* For runs about the path of a change only.
MCFewContents == BothWays({DenyAds})

MCFlows ==
    [exe : {<<>>, <<"bin", "curl">>}, host : {<<>>, <<"x", "ads">>},
     ip : {<<"ip">>}, port : {80, 443}]

Toml == {mine, auto}
Auto == {auto}
Exists == {TRUE}
Missing == {FALSE}
EitherWay == BOOLEAN
=============================================================================
