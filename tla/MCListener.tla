----------------------------- MODULE MCListener -----------------------------
(* Model-checking instances of Listener.                                   *)
EXTENDS Listener, TLC

MCNumber == ("1" :> 1) @@ ("2" :> 2) @@ ("-1" :> -1) @@ ("-5" :> -5)
              @@ ("101" :> 101) @@ ("65586" :> 65586)

\* Two sounds with the first played at the start; one with an autoplay number
\* that is out of range.
ConfigA == <<"A", "NL">>
ConfigB == <<"B", "NL">>
MCConfigOf ==
    (ConfigA :> [sounds |-> <<"s1", "s2">>, autoplay |-> "1"]) @@
    (ConfigB :> [sounds |-> <<"s1">>, autoplay |-> "2"])

Lines(a, b, c) == <<a, "NL">> \o b \o <<"END", "NL">> \o c
PlayMessage(n, mode) == Lines("TCP_PLAY", <<n, "NL", mode, "NL">>, <<>>)
SetCfg(n, text) == Lines("TCP_SET_CFG", <<n, "NL">> \o text, <<>>)

MCMessages ==
    { PlayMessage("1", "ONCE"), PlayMessage("1", "IN_LOOP"),
      PlayMessage("2", "ONCE"), PlayMessage("-1", "ONCE"),
      PlayMessage("1", "x"),
      Lines("TCP_STOP", <<>>, <<>>), Lines("TCP_STATUS", <<>>, <<>>),
      Lines("TCP_GET_CFG", <<>>, <<>>), Lines("TCP_RESET", <<>>, <<>>),
      Lines("TCP_SET_TIME", <<"x", "NL">>, <<>>),
      Lines("TCP_SET_VOLUME", <<"101", "NL">>, <<>>),
      Lines("TCP_SET_VOLUME", <<"65586", "NL">>, <<>>),
      SetCfg("2", <<"B", "CR">>), SetCfg("101", <<"B", "CR">>),
      SetCfg("-1", <<>>), SetCfg("-5", <<>>),
      <<"TCP_SET_CFG", "NL", "2", "NL", "B">>,
      <<"x", "NL", "x", "NL", "x", "NL", "x", "NL">> \o
          Lines("x", <<>>, <<"END">>) }
=============================================================================
