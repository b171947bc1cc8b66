------------------------------- MODULE MCServer -------------------------------
(* Scripts of calls for Server: what the threads of a program do with it.  *)
EXTENDS Server

Owners == {"owner", "other"}

\* One thread owns the server, another one may stop it at any time; or the owner
\* is in a blocking listen until the other one stops it.
OwnerScripts ==
  { [owner |-> <<"listen", "stop", "join">>, other |-> <<"stop">>],
    [owner |-> <<"listen_blocking">>, other |-> <<"stop">>] }

\* The calls of test_tcp_server.cpp:60-67 and test_http2_session.cpp:31-38.
Testers == {"server", "main"}
TestScripts == { [server |-> <<"listen_blocking">>, main |-> <<"stop", "join">>] }
=============================================================================
