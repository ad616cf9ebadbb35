------------------------------ MODULE MCTelnet ------------------------------
(* Both writers at the two kinds of connection, and a terminal at the      *)
(* console; room for one command, for some, and for everything.            *)
EXTENDS Telnet
MCPairs == {<<"modem", "console">>, <<"console", "modem">>, <<"modem", "modem">>,
            <<"terminal", "console">>}
=============================================================================
