------------------------------- MODULE MCPertd2 -------------------------------
(* Writers and the commands they send, for the pertd2 configurations.      *)
EXTENDS Pertd2

CONSTANTS w1, w2, w3

(* A one-line command, and the commands with arguments.                    *)
Cmd(kw) == [cmd |-> kw, arg |-> <<>>, eod |-> <<>>, text |-> <<>>]
LineN(kw, tmo, text) == [cmd |-> kw, arg |-> tmo, eod |-> <<"=">>, text |-> text]
Delay(kw, n) == [cmd |-> kw, arg |-> n, eod |-> <<>>, text |-> <<>>]

(* Writer 1 sets row 0 to "abc d", longer than the display, with a one   *)
(* second timeout, then slows the loop to 2 s.                            *)
W1Sends ==
    <<Cmd("backlight mgt on"),
      LineN("line1", <<"1">>, <<<<"a", "b", "c">>, <<"d">>>>),
      Delay("delay time", <<"2", "0", "0", "0", "0", "0", "0">>)>>

(* Writer 2 sets row 1 with a bad timeout, sends a line that is no        *)
(* command, works the backlight and the character delay, and stops.       *)
W2Sends ==
    <<LineN("line2", <<"x">>, <<<<"e">>>>),
      Cmd("junk"),
      Cmd("backlight off"), Delay("char delay", <<"5">>), Cmd("backlight on"),
      Cmd("backlight mgt off"), Cmd("stop")>>

(* Writer 3 replaces row 0 with a line that fits, and no timeout.         *)
W3Sends == <<LineN("line1", <<"0">>, <<<<"f">>, <<"g">>>>)>>

MC_Sends == (w1 :> W1Sends) @@ (w2 :> W2Sends) @@ (w3 :> W3Sends)

MC_SendsOne == w1 :> W1Sends
====
