------------------------------ MODULE MCNetwork ------------------------------
(* One modem, the console, or the clock, over two PCBs.                    *)
EXTENDS Network
MCPhones == <<"m1">>
MCCasts == {{"m1"}, {"con"}, {"ntp"}}
MCLines == {<<"V", "A">>, <<"D">>, <<"H">>, <<"O">>, <<"H", "D">>, <<"p1", "S0">>,
            <<"L0", "Z", "?">>}
MCSettings == {[port |-> "none", auto |-> 0], [port |-> "p1", auto |-> 0]}
=============================================================================
