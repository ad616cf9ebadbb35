----------------------------- MODULE MCLaunch -----------------------------
(* Two small images for TLC: a packed one, whose second record straddles   *)
(* the registers, and a classic one whose vector comes before its code.    *)
(* For the temporal runs one record each is enough.                        *)
EXTENDS Launch, TLC

CONSTANTS a, b

MCImage == (a :> <<{"xram"}, {"ram", "vec"}>>) @@ (b :> <<{"vec"}, {"ram"}>>)
MCTiny == (a :> <<{"ram", "vec"}>>) @@ (b :> <<{"vec"}>>)

(* Two programs; or one, and everything else the monitor does with memory; *)
(* for the temporal runs that without any.                                 *)
MCScenes == {[programs |-> {a, b}, commands |-> {}],
             [programs |-> {a}, commands |-> {"dump", "hex", "binary", "upload"}]}
MCTinyScenes == {[programs |-> {a, b}, commands |-> {}],
                 [programs |-> {}, commands |-> {"dump", "hex", "binary", "upload"}]}
=============================================================================
