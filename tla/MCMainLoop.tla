----------------------------- MODULE MCMainLoop -----------------------------
(* A small instance of MainLoop.                                            *)
EXTENDS MainLoop

A(name, data, ttl) == [name |-> name, data |-> data, ttl |-> ttl]
Packet(size, answers) == [size |-> size, answers |-> answers]

\* Hosts 1 and 2 at address 5, host 2 also at 0.0.0.0, which is 9.
One == Packet("fits", <<A(1, 5, 0)>>)
Two == Packet("fits", <<A(2, NoName, 1), A(2, 5, 1), A(2, 9, 1)>>)
Long == Packet("long", <<A(1, 5, 2)>>)

MCPackets == {One, Two, Long}
Curl == [ip |-> 5, exe |-> 7, comm |-> 8]
MCFlows == {Curl}
=============================================================================
