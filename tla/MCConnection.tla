---------------------------- MODULE MCConnection ----------------------------
(* What the clients of a run send. *)
EXTENDS Connection

MCScripts == {<<"cmd", "cmd", "cmd", "cmd">>, <<"cmd", "cmd", "quit", "cmd">>, <<"cmd", "bad">>}
=============================================================================
