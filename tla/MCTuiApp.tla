------------------------------ MODULE MCTuiApp ------------------------------
(* A small instance of TuiApp.                                              *)
EXTENDS TuiApp

Fact(pid, comm, exe, host, ip) ==
    [pid |-> pid, comm |-> <<comm>>, exe |-> exe, host |-> host, ip |-> ip,
     port |-> 443]

\* github.com has two addresses, one of them is also that of api.github.com; a
\* thread of curl with a name of its own calls the first.  A program whose path
\* is not known connects to 0.0.0.0.
MCUnspecifiedIp == <<"0.0.0.0">>
Github == <<"github.com">>
MCFacts == {Fact(1, "worker", <<"curl">>, Github, <<"4">>),
            Fact(1, "worker", <<"curl">>, Github, <<"5">>),
            Fact(2, "curl", <<"curl">>, <<"api.">> \o Github, <<"5">>),
            Fact(2, "nc", <<>>, <<>>, MCUnspecifiedIp)}
MCAlphabet == {"api.", "worker"}
=============================================================================
