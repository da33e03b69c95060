---------------------------- MODULE MCEnforcement ----------------------------
(* Small instances of Enforcement.                                          *)
EXTENDS Enforcement, TLC

CONSTANTS t1, t2, p1, p2, curl, none, ads, web, local

TwoThreads == {t1, t2}
TwoPids == {p1, p2}
OneEach == (t1 :> p1) @@ (t2 :> p2)
Together == (t1 :> p1) @@ (t2 :> p1)
Loopback == {local}

Everyone == Programs \cup {NoProgram}
DenyNothing == {}
DenyAds == Everyone \X {ads}
MCRuleSets == {DenyNothing, DenyAds}
=============================================================================
