---------------------------- MODULE MCIpcSession ----------------------------
(* Small instances of IpcSession.                                          *)
EXTENDS IpcSession

SubscribeFirst == {"subscribe"}
AnythingFirst == {"subscribe", "list"}
NoOthers == {}
BothOthers == {"subscribe", "unsubscribe"}
EveryEvent == 1 .. MaxEvents
OddEvents == {e \in 1 .. MaxEvents : e % 2 = 1}
=============================================================================
