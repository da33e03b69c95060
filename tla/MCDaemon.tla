------------------------------ MODULE MCDaemon ------------------------------
(* A small instance of Daemon: one rule file, of the name the daemon gives  *)
(* to a rule it writes, and one program that calls one destination.         *)
EXTENDS Daemon, MCRuleReload

CONSTANTS t1, p1, curl, none, ads

OneThread == {t1}
OnePid == {p1}
Its == [t \in OneThread |-> p1]
NoDst == {}

\* A rule to deny, on and off, and a file that does not parse.
DaemonContents == BothWays({DenyAds, Broken})

\* What is sent to ads goes to a host that DenyAds matches.
MCFlowOf == [p \in Pairs |->
    [exe |-> IF p[1] = curl THEN <<"bin", "curl">> ELSE <<>>,
     host |-> <<"x", "ads">>, ip |-> <<"ip">>, port |-> 443]]
FlowsOf == {MCFlowOf[p] : p \in Pairs}
=============================================================================
