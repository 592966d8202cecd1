----------------------------- MODULE MCServerList -----------------------------
(* Small instances of ServerList for TLC. *)
EXTENDS ServerList

\* One search finds every server, the other none.
AllOrNone == [all |-> Servers, none |-> {}]

\* A server is started and stopped or crashes.
PowerMoves == {<<"OFFLINE", "RUNNING">>, <<"RUNNING", "CRASHED">>, <<"RUNNING", "OFFLINE">>}

=============================================================================
