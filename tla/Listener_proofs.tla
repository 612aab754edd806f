-------------------------- MODULE Listener_proofs --------------------------
(***************************************************************************)
(* Proofs about Listener for any messages, configurations and sounds: the  *)
(* sockets, the reboot and the state a reply shows, whatever Parse makes of *)
(* a message; and, with what MsgParser_proofs says of Parse, the command   *)
(* that is run, the configuration that is stored and what can throw.       *)
(***************************************************************************)
EXTENDS Listener, MsgParser_proofs

-----------------------------------------------------------------------------
(* The player.                                                             *)

\* A player between two calls is playing or stopped: nobody pauses it.
PlayerOK(p) == \E F, V : p \in [state : {"Stop", "Play"}, file : F,
                               mode : P!Modes \cup {None}, volume : V]

LEMMA StopStops ==
    ASSUME NEW p, PlayerOK(p)
    PROVE  PlayerOK(P!Stopped(p)) /\ P!Stopped(p).state = "Stop"
<1>1. PICK F, V : p \in [state : {"Stop", "Play"}, file : F,
                         mode : P!Modes \cup {None}, volume : V]
  BY DEF PlayerOK
<1>2. /\ P!Stopped(p) \in [state : {"Stop", "Play"}, file : F \cup {None},
                           mode : P!Modes \cup {None}, volume : V]
      /\ P!Stopped(p).state = "Stop"
  BY <1>1 DEF P!Stopped
<1> QED BY <1>2, Zenon DEF PlayerOK

LEMMA NewPlayerStopped == PlayerOK(P!NewPlayer) /\ P!NewPlayer.state = "Stop"
<1>1. P!NewPlayer \in [state : {"Stop", "Play"}, file : {None},
                       mode : P!Modes \cup {None}, volume : {100}]
  BY DEF P!NewPlayer
<1>2. PlayerOK(P!NewPlayer)  BY <1>1, Zenon DEF PlayerOK
<1> QED BY <1>2 DEF P!NewPlayer

LEMMA PlayAnswers ==
    ASSUME NEW p, PlayerOK(p), NEW f, NEW m, NEW fs,
           NEW o, o = P!Play(p, f, m, fs)
    PROVE  /\ PlayerOK(o.player)
           /\ o.reply = "SUCCESS" =>
                o.player.state = "Play" /\ o.player.mode = m /\ m \in P!Modes
           /\ o.reply # "SUCCESS" => o.player.state = "Stop"
           /\ o.reply \in {"SUCCESS", "FILE_NOT_FOUND", "WRONG_PLAY_MODE"}
<1>1. PICK F, V : p \in [state : {"Stop", "Play"}, file : F,
                         mode : P!Modes \cup {None}, volume : V]
  BY DEF PlayerOK
<1>2. p.state # "Pause"  BY <1>1
<1>3. CASE m \notin P!Modes
  <2>1. o.player = P!Stopped(p) /\ o.reply = "WRONG_PLAY_MODE"
    BY <1>2, <1>3 DEF P!Play, P!Outcome
  <2> QED BY <2>1, StopStops
<1>4. CASE m \in P!Modes /\ f \notin fs
  <2>1. o.player = P!Stopped(p) /\ o.reply = "FILE_NOT_FOUND"
    BY <1>2, <1>4 DEF P!Play, P!Outcome
  <2> QED BY <2>1, StopStops
<1>5. CASE m \in P!Modes /\ f \in fs
  <2>1. o.player = P!Playing(p, f, m) /\ o.reply = "SUCCESS"
    BY <1>2, <1>5 DEF P!Play, P!Outcome
  <2>2. /\ P!Playing(p, f, m) \in [state : {"Stop", "Play"}, file : F \cup {f},
                                  mode : P!Modes \cup {None}, volume : V]
        /\ P!Playing(p, f, m).state = "Play" /\ P!Playing(p, f, m).mode = m
    BY <1>1, <1>5 DEF P!Playing
  <2>3. PlayerOK(P!Playing(p, f, m))  BY <2>2, Zenon DEF PlayerOK
  <2> QED BY <1>5, <2>1, <2>2, <2>3
<1> QED BY <1>3, <1>4, <1>5

LEMMA VolumeAnswers ==
    ASSUME NEW p, PlayerOK(p), NEW v, NEW o, o = P!SetVolume(p, v)
    PROVE  PlayerOK(o.player) /\ o.reply \in {"SUCCESS", "FAILED"}
<1>1. PICK F, V : p \in [state : {"Stop", "Play"}, file : F,
                         mode : P!Modes \cup {None}, volume : V]
  BY DEF PlayerOK
<1>2. CASE v <= 100
  <2>1. o.player = [p EXCEPT !.volume = v] /\ o.reply = "SUCCESS"
    BY <1>2 DEF P!SetVolume, P!Outcome
  <2>2. o.player \in [state : {"Stop", "Play"}, file : F,
                      mode : P!Modes \cup {None}, volume : V \cup {v}]
    BY <1>1, <2>1
  <2>3. PlayerOK(o.player)  BY <2>2, Zenon DEF PlayerOK
  <2> QED BY <2>1, <2>3
<1>3. CASE ~(v <= 100)  BY <1>3 DEF P!SetVolume, P!Outcome
<1> QED BY <1>2, <1>3

\* What the player's state is called.
LEMMA StateNames ==
    ASSUME NEW p, PlayerOK(p)
    PROVE  /\ p.state = "Stop" => P!StateOf(p) = "STOPED"
           /\ p.state = "Play" /\ p.mode = "ONCE" => P!StateOf(p) = "PLAY_ONCE"
           /\ p.state = "Play" /\ p.mode = "IN_LOOP" => P!StateOf(p) = "PLAY_IN_LOOP"
  BY DEF PlayerOK, P!StateOf

-----------------------------------------------------------------------------
(* The inductive invariant.                                                *)

\* A socket is held from accept to Send.
Socket == phase \notin {"read", "serve", "send"} => client = "none"

\* A handler runs for autoplay or for a message.
Busy == handler # "idle" => phase \in {"autoplay", "serve"}

Commands == command \in TcpCommands \cup {TCP_CMD_NUM}

\* From the handler of TCP_RESET on there is only the way out.
WayOut ==
    reboot =>
        /\ stop /\ player.state = "Stop" /\ command = "TCP_RESET"
        /\ handler = "idle"
        /\ \/ phase \in {"send", "test", "exit", "destroy", "end"}
           \/ phase = "autoplay" /\ reply # None

\* A handler that has called the player, and the player since.
Telling ==
    handler = "tell" =>
        /\ command = "TCP_STOP" => player.state = "Stop"
        /\ error = "PLAY_MODE_ERROR" => player.state = "Stop"
        /\ command = "TCP_PLAY" /\ error = "OK" =>
             \/ player.state = "Stop"
             \/ /\ player.state = "Play" /\ player.mode \in P!Modes
                /\ player.mode = PlayModeOf(Text(2))

IInv == /\ Socket /\ Busy /\ PlayerOK(player) /\ Commands
        /\ WayOut /\ Telling /\ ReplyShowsOutcome


LEMMA SocketStep ==
    ASSUME IInv, [Next]_vars  PROVE Socket'
<1>1. CASE Watchdog
  BY <1>1
  DEF IInv, Watchdog, Socket, At, Go, commVars, parserVars, settings, flags,
      serverVars, vars
<1>2. CASE ParseConfig
  BY <1>2 DEF IInv, ParseConfig, Socket, At, Go, parserVars, flags, serverVars
<1>3. CASE ConfigurationFailed
  BY <1>3
  DEF IInv, ConfigurationFailed, Socket, At, Go, commVars, parserVars,
      settings, flags, serverVars
<1>4. CASE Connect
  BY <1>4
  DEF IInv, Connect, Socket, At, Go, commVars, parserVars, settings, flags
<1>5. CASE Autoplay
  BY <1>5
  DEF IInv, Autoplay, Socket, At, Go, commVars, parserVars, settings, flags,
      serverVars
<1>6. CASE AutoplayDone
  BY <1>6 DEF IInv, AutoplayDone, Socket, At, Go, settings, flags, serverVars
<1>7. CASE LoopTest
  BY <1>7
  DEF IInv, LoopTest, Socket, At, Go, parserVars, settings, flags, serverVars
<1>8. CASE Accept
  BY <1>8
  DEF IInv, Accept, Socket, At, Go, commVars, parserVars, settings, flags
<1>9. CASE AcceptFails
  BY <1>9
  DEF IInv, AcceptFails, Socket, At, Go, commVars, parserVars, settings, flags
<1>10. CASE Read
  BY <1>10 DEF IInv, Read, Socket, At, Go, settings, flags
<1>11. CASE ReadFails
  BY <1>11
  DEF IInv, ReadFails, Socket, At, Go, commVars, parserVars, settings, flags
<1>12. CASE Send
  BY <1>12 DEF IInv, Send, Socket, At, Go, settings, flags
<1>13. CASE Disconnect
  BY <1>13
  DEF IInv, Disconnect, Socket, At, Go, commVars, parserVars, settings, flags
<1>14. CASE Boot
  BY <1>14 DEF IInv, Boot, Socket, At, Go, parserVars, flags, serverVars
<1>15. CASE Gone
  BY <1>15 DEF IInv, Gone, Socket, Go, Reset
<1>16. CASE ClientConnects
  BY <1>16
  DEF IInv, ClientConnects, Socket, commVars, parserVars, settings, flags
<1>17. CASE ClientLeaves
  BY <1>17
  DEF IInv, ClientLeaves, Socket, commVars, parserVars, settings, flags
<1>18. CASE Signal
  BY <1>18 DEF IInv, Signal, Socket, parserVars, settings, serverVars
<1>19. CASE Kill
  BY <1>19 DEF IInv, Kill, Socket, parserVars, settings, flags, serverVars
<1>20. CASE RamFileLost
  BY <1>20 DEF IInv, RamFileLost, Socket, parserVars, flags, serverVars
<1>21. CASE Playback
  BY <1>21 DEF IInv, Playback, Socket, parserVars, settings, flags, serverVars
<1>22. CASE Handle
  <2>1. CASE HandleUnknown
    BY <1>22, <2>1
    DEF IInv, Handle, HandleUnknown, Socket, Go, parserVars, settings, flags,
        serverVars
  <2>2. CASE HandleSetTime
    BY <1>22, <2>2
    DEF IInv, Handle, HandleSetTime, Socket, Go, parserVars, settings, flags,
        serverVars
  <2>3. CASE HandlePlay
    BY <1>22, <2>3
    DEF IInv, Handle, HandlePlay, Socket, Go, parserVars, settings, flags,
        serverVars
  <2>4. CASE HandleStop
    BY <1>22, <2>4
    DEF IInv, Handle, HandleStop, Socket, Go, parserVars, settings, flags,
        serverVars
  <2>5. CASE HandleVolume
    BY <1>22, <2>5
    DEF IInv, Handle, HandleVolume, Socket, Go, parserVars, settings, flags,
        serverVars
  <2>6. CASE HandleStatus
    BY <1>22, <2>6
    DEF IInv, Handle, HandleStatus, Socket, Go, parserVars, settings, flags,
        serverVars
  <2>7. CASE TellState
    BY <1>22, <2>7
    DEF IInv, Handle, TellState, Socket, Go, parserVars, settings, flags,
        serverVars
  <2>8. CASE HandleSetCfg
    BY <1>22, <2>8
    DEF IInv, Handle, HandleSetCfg, Socket, Go, parserVars, flags, serverVars
  <2>9. CASE WriteCfg
    BY <1>22, <2>9
    DEF IInv, Handle, WriteCfg, Socket, Go, parserVars, flags, serverVars
  <2>10. CASE HandleGetCfg
    BY <1>22, <2>10
    DEF IInv, Handle, HandleGetCfg, Socket, Go, parserVars, settings, flags,
        serverVars
  <2>11. CASE HandleReset
    BY <1>22, <2>11
    DEF IInv, Handle, HandleReset, Socket, Go, parserVars, settings,
        serverVars
  <2> QED BY <1>22, <2>1, <2>2, <2>3, <2>4, <2>5, <2>6, <2>7, <2>8, <2>9,
        <2>10, <2>11 DEF Handle, Handler
<1>24. CASE DestroyPlayer
  BY <1>24
  DEF IInv, DestroyPlayer, Socket, At, Go, parserVars, settings, flags,
      serverVars
<1>25. CASE End
  BY <1>25 DEF IInv, End, Socket, At, Go, Reset
<1>26. CASE PlayerHangs
  BY <1>26
  DEF IInv, PlayerHangs, Socket, At, Go, parserVars, settings, flags,
      serverVars
<1>23. CASE UNCHANGED vars
  BY <1>23
  DEF IInv, Socket, commVars, parserVars, settings, flags, serverVars, vars
<1> QED BY <1>1, <1>2, <1>3, <1>4, <1>5, <1>6, <1>7, <1>8, <1>9, <1>10,
      <1>11, <1>12, <1>13, <1>14, <1>15, <1>16, <1>17, <1>18, <1>19, <1>20,
      <1>21, <1>22, <1>23, <1>24, <1>25, <1>26
      DEF Next, Process, Starts, Serves, Ends, Outside

LEMMA BusyStep ==
    ASSUME IInv, [Next]_vars  PROVE Busy'
<1>1. CASE Watchdog
  BY <1>1
  DEF IInv, Watchdog, Busy, At, Go, commVars, parserVars, settings, flags,
      serverVars, vars
<1>2. CASE ParseConfig
  BY <1>2 DEF IInv, ParseConfig, Busy, At, Go, parserVars, flags, serverVars
<1>3. CASE ConfigurationFailed
  BY <1>3
  DEF IInv, ConfigurationFailed, Busy, At, Go, commVars, parserVars, settings,
      flags, serverVars
<1>4. CASE Connect
  BY <1>4
  DEF IInv, Connect, Busy, At, Go, commVars, parserVars, settings, flags
<1>5. CASE Autoplay
  BY <1>5
  DEF IInv, Autoplay, Busy, At, Go, HandleCommand, commVars, parserVars,
      settings, flags, serverVars
<1>6. CASE AutoplayDone
  BY <1>6 DEF IInv, AutoplayDone, Busy, At, Go, settings, flags, serverVars
<1>7. CASE LoopTest
  BY <1>7
  DEF IInv, LoopTest, Busy, At, Go, parserVars, settings, flags, serverVars
<1>8. CASE Accept
  BY <1>8
  DEF IInv, Accept, Busy, At, Go, commVars, parserVars, settings, flags
<1>9. CASE AcceptFails
  BY <1>9
  DEF IInv, AcceptFails, Busy, At, Go, commVars, parserVars, settings, flags
<1>10. CASE Read
  BY <1>10 DEF IInv, Read, Busy, At, Go, HandleCommand, settings, flags
<1>11. CASE ReadFails
  BY <1>11
  DEF IInv, ReadFails, Busy, At, Go, commVars, parserVars, settings, flags
<1>12. CASE Send
  BY <1>12 DEF IInv, Send, Busy, At, Go, settings, flags
<1>13. CASE Disconnect
  BY <1>13
  DEF IInv, Disconnect, Busy, At, Go, commVars, parserVars, settings, flags
<1>14. CASE Boot
  BY <1>14 DEF IInv, Boot, Busy, At, Go, parserVars, flags, serverVars
<1>15. CASE Gone
  BY <1>15 DEF IInv, Gone, Busy, Go, Reset
<1>16. CASE ClientConnects
  BY <1>16
  DEF IInv, ClientConnects, Busy, Running, commVars, parserVars, settings,
      flags
<1>17. CASE ClientLeaves
  BY <1>17
  DEF IInv, ClientLeaves, Busy, Running, commVars, parserVars, settings, flags
<1>18. CASE Signal
  BY <1>18 DEF IInv, Signal, Busy, Running, parserVars, settings, serverVars
<1>19. CASE Kill
  BY <1>19
  DEF IInv, Kill, Busy, Running, parserVars, settings, flags, serverVars
<1>20. CASE RamFileLost
  BY <1>20 DEF IInv, RamFileLost, Busy, parserVars, flags, serverVars
<1>21. CASE Playback
  BY <1>21
  DEF IInv, Playback, Busy, PlaybackEnds, parserVars, settings, flags,
      serverVars
<1>22. CASE Handle
  <2>1. CASE HandleUnknown
    BY <1>22, <2>1
    DEF IInv, Handle, HandleUnknown, Busy, Go, Dispatched, Done, parserVars,
        settings, flags, serverVars
  <2>2. CASE HandleSetTime
    BY <1>22, <2>2
    DEF IInv, Handle, HandleSetTime, Busy, Go, Dispatched, Done, parserVars,
        settings, flags, serverVars
  <2>3. CASE HandlePlay
    BY <1>22, <2>3
    DEF IInv, Handle, HandlePlay, Busy, Go, Dispatched, Tell, parserVars,
        settings, flags, serverVars
  <2>4. CASE HandleStop
    BY <1>22, <2>4
    DEF IInv, Handle, HandleStop, Busy, Go, Dispatched, Tell, parserVars,
        settings, flags, serverVars
  <2>5. CASE HandleVolume
    BY <1>22, <2>5
    DEF IInv, Handle, HandleVolume, Busy, Go, Dispatched, Tell, parserVars,
        settings, flags, serverVars
  <2>6. CASE HandleStatus
    BY <1>22, <2>6
    DEF IInv, Handle, HandleStatus, Busy, Go, Dispatched, Tell, parserVars,
        settings, flags, serverVars
  <2>7. CASE TellState
    BY <1>22, <2>7
    DEF IInv, Handle, TellState, Busy, Go, Done, parserVars, settings, flags,
        serverVars
  <2>8. CASE HandleSetCfg
    BY <1>22, <2>8
    DEF IInv, Handle, HandleSetCfg, Busy, Go, Dispatched, Done, parserVars,
        flags, serverVars
  <2>9. CASE WriteCfg
    BY <1>22, <2>9
    DEF IInv, Handle, WriteCfg, Busy, Go, Done, parserVars, flags, serverVars
  <2>10. CASE HandleGetCfg
    BY <1>22, <2>10
    DEF IInv, Handle, HandleGetCfg, Busy, Go, Dispatched, Done, parserVars,
        settings, flags, serverVars
  <2>11. CASE HandleReset
    BY <1>22, <2>11
    DEF IInv, Handle, HandleReset, Busy, Go, Dispatched, Done, parserVars,
        settings, serverVars
  <2> QED BY <1>22, <2>1, <2>2, <2>3, <2>4, <2>5, <2>6, <2>7, <2>8, <2>9,
        <2>10, <2>11 DEF Handle, Handler
<1>24. CASE DestroyPlayer
  BY <1>24
  DEF IInv, DestroyPlayer, Busy, At, Go, parserVars, settings, flags,
      serverVars
<1>25. CASE End
  BY <1>25 DEF IInv, End, Busy, At, Go, Reset
<1>26. CASE PlayerHangs
  BY <1>26
  DEF IInv, PlayerHangs, Busy, At, Go, parserVars, settings, flags, serverVars
<1>23. CASE UNCHANGED vars
  BY <1>23
  DEF IInv, Busy, commVars, parserVars, settings, flags, serverVars, vars
<1> QED BY <1>1, <1>2, <1>3, <1>4, <1>5, <1>6, <1>7, <1>8, <1>9, <1>10,
      <1>11, <1>12, <1>13, <1>14, <1>15, <1>16, <1>17, <1>18, <1>19, <1>20,
      <1>21, <1>22, <1>23, <1>24, <1>25, <1>26
      DEF Next, Process, Starts, Serves, Ends, Outside

LEMMA PlayerStep ==
    ASSUME IInv, [Next]_vars  PROVE PlayerOK(player)'
<1>1. CASE Watchdog
  BY <1>1
  DEF IInv, Watchdog, commVars, parserVars, settings, flags, serverVars, vars
<1>2. CASE ParseConfig
  BY <1>2 DEF IInv, ParseConfig, parserVars, flags, serverVars
<1>3. CASE ConfigurationFailed
  BY <1>3
  DEF IInv, ConfigurationFailed, commVars, parserVars, settings, flags,
      serverVars
<1>4. CASE Connect
  BY <1>4 DEF IInv, Connect, commVars, parserVars, settings, flags
<1>5. CASE Autoplay
  BY <1>5
  DEF IInv, Autoplay, HandleCommand, commVars, parserVars, settings, flags,
      serverVars
<1>6. CASE AutoplayDone
  BY <1>6 DEF IInv, AutoplayDone, settings, flags, serverVars
<1>7. CASE LoopTest
  BY <1>7 DEF IInv, LoopTest, parserVars, settings, flags, serverVars
<1>8. CASE Accept
  BY <1>8 DEF IInv, Accept, commVars, parserVars, settings, flags
<1>9. CASE AcceptFails
  BY <1>9 DEF IInv, AcceptFails, commVars, parserVars, settings, flags
<1>10. CASE Read
  BY <1>10 DEF IInv, Read, HandleCommand, settings, flags
<1>11. CASE ReadFails
  BY <1>11 DEF IInv, ReadFails, commVars, parserVars, settings, flags
<1>12. CASE Send
  BY <1>12 DEF IInv, Send, settings, flags
<1>13. CASE Disconnect
  BY <1>13 DEF IInv, Disconnect, commVars, parserVars, settings, flags
<1>14. CASE Boot
  BY <1>14 DEF IInv, Boot, parserVars, flags, serverVars
<1>15. CASE Gone
  BY <1>15, NewPlayerStopped DEF IInv, Gone, Reset
<1>16. CASE ClientConnects
  BY <1>16 DEF IInv, ClientConnects, commVars, parserVars, settings, flags
<1>17. CASE ClientLeaves
  BY <1>17 DEF IInv, ClientLeaves, commVars, parserVars, settings, flags
<1>18. CASE Signal
  BY <1>18 DEF IInv, Signal, parserVars, settings, serverVars
<1>19. CASE Kill
  BY <1>19 DEF IInv, Kill, parserVars, settings, flags, serverVars
<1>20. CASE RamFileLost
  BY <1>20 DEF IInv, RamFileLost, parserVars, flags, serverVars
<1>21. CASE Playback
  BY <1>21, StopStops DEF IInv, Playback, PlaybackEnds, P!Stop, P!Outcome
<1>22. CASE Handle
  <2>1. CASE HandleUnknown
    BY <1>22, <2>1
    DEF IInv, Handle, HandleUnknown, parserVars, settings, flags, serverVars
  <2>2. CASE HandleSetTime
    BY <1>22, <2>2
    DEF IInv, Handle, HandleSetTime, parserVars, settings, flags, serverVars
  <2>3. CASE HandlePlay
    <3>1. CASE UNCHANGED player  BY <3>1 DEF IInv
    <3>2. CASE ~UNCHANGED player
      <4>1. PICK f, m : player' = P!Play(player, f, m, ramFiles).player
        BY <1>22, <2>3, <3>2 DEF HandlePlay
      <4> QED BY <4>1, PlayAnswers DEF IInv
    <3> QED BY <3>1, <3>2
  <2>4. CASE HandleStop
    BY <1>22, <2>4, StopStops DEF IInv, Handle, HandleStop, P!Stop, P!Outcome
  <2>5. CASE HandleVolume
    BY <1>22, <2>5, VolumeAnswers DEF IInv, HandleVolume
  <2>6. CASE HandleStatus
    BY <1>22, <2>6
    DEF IInv, Handle, HandleStatus, parserVars, settings, flags, serverVars
  <2>7. CASE TellState
    BY <1>22, <2>7
    DEF IInv, Handle, TellState, parserVars, settings, flags, serverVars
  <2>8. CASE HandleSetCfg
    BY <1>22, <2>8
    DEF IInv, Handle, HandleSetCfg, parserVars, flags, serverVars
  <2>9. CASE WriteCfg
    BY <1>22, <2>9 DEF IInv, Handle, WriteCfg, parserVars, flags, serverVars
  <2>10. CASE HandleGetCfg
    BY <1>22, <2>10
    DEF IInv, Handle, HandleGetCfg, parserVars, settings, flags, serverVars
  <2>11. CASE HandleReset
    BY <1>22, <2>11, StopStops DEF IInv, Handle, HandleReset, P!Stop, P!Outcome
  <2> QED BY <1>22, <2>1, <2>2, <2>3, <2>4, <2>5, <2>6, <2>7, <2>8, <2>9,
        <2>10, <2>11 DEF Handle, Handler
<1>24. CASE DestroyPlayer
  BY <1>24, StopStops
  DEF IInv, DestroyPlayer, parserVars, settings, flags, serverVars, P!Stop,
      P!Outcome
<1>25. CASE End
  BY <1>25, NewPlayerStopped DEF IInv, End, Reset
<1>26. CASE PlayerHangs
  BY <1>26 DEF IInv, PlayerHangs, parserVars, settings, flags, serverVars
<1>23. CASE UNCHANGED vars
  BY <1>23 DEF IInv, commVars, parserVars, settings, flags, serverVars, vars
<1> QED BY <1>1, <1>2, <1>3, <1>4, <1>5, <1>6, <1>7, <1>8, <1>9, <1>10,
      <1>11, <1>12, <1>13, <1>14, <1>15, <1>16, <1>17, <1>18, <1>19, <1>20,
      <1>21, <1>22, <1>23, <1>24, <1>25, <1>26
      DEF Next, Process, Starts, Serves, Ends, Outside

LEMMA CommandTyped ==
    ASSUME NEW p, NEW before \in TcpCommands \cup {TCP_CMD_NUM}
    PROVE  CommandAfter(p, before) \in TcpCommands \cup {TCP_CMD_NUM}
<1>1. CASE \E c \in TcpCommands : p.nodes[1] = <<c>>
  BY <1>1 DEF CommandAfter, Verified
<1>2. CASE ~\E c \in TcpCommands : p.nodes[1] = <<c>>
  BY <1>2 DEF CommandAfter, Verified
<1> QED BY <1>1, <1>2

LEMMA CommandStep ==
    ASSUME IInv, [Next]_vars  PROVE Commands'
<1>1. CASE Watchdog
  BY <1>1
  DEF IInv, Watchdog, Commands, commVars, parserVars, settings, flags,
      serverVars, vars
<1>2. CASE ParseConfig
  BY <1>2 DEF IInv, ParseConfig, Commands, parserVars, flags, serverVars
<1>3. CASE ConfigurationFailed
  BY <1>3
  DEF IInv, ConfigurationFailed, Commands, commVars, parserVars, settings,
      flags, serverVars
<1>4. CASE Connect
  BY <1>4 DEF IInv, Connect, Commands, commVars, parserVars, settings, flags
<1>5. CASE Autoplay
  BY <1>5, CommandTyped
  DEF IInv, Autoplay, Commands, HandleCommand, commVars, parserVars, settings,
      flags, serverVars
<1>6. CASE AutoplayDone
  BY <1>6 DEF IInv, AutoplayDone, Commands, settings, flags, serverVars
<1>7. CASE LoopTest
  BY <1>7
  DEF IInv, LoopTest, Commands, parserVars, settings, flags, serverVars
<1>8. CASE Accept
  BY <1>8 DEF IInv, Accept, Commands, commVars, parserVars, settings, flags
<1>9. CASE AcceptFails
  BY <1>9
  DEF IInv, AcceptFails, Commands, commVars, parserVars, settings, flags
<1>10. CASE Read
  BY <1>10, CommandTyped
  DEF IInv, Read, Commands, HandleCommand, settings, flags
<1>11. CASE ReadFails
  BY <1>11
  DEF IInv, ReadFails, Commands, commVars, parserVars, settings, flags
<1>12. CASE Send
  BY <1>12 DEF IInv, Send, Commands, settings, flags
<1>13. CASE Disconnect
  BY <1>13
  DEF IInv, Disconnect, Commands, commVars, parserVars, settings, flags
<1>14. CASE Boot
  BY <1>14 DEF IInv, Boot, Commands, parserVars, flags, serverVars
<1>15. CASE Gone
  BY <1>15 DEF IInv, Gone, Commands, Reset
<1>16. CASE ClientConnects
  BY <1>16
  DEF IInv, ClientConnects, Commands, commVars, parserVars, settings, flags
<1>17. CASE ClientLeaves
  BY <1>17
  DEF IInv, ClientLeaves, Commands, commVars, parserVars, settings, flags
<1>18. CASE Signal
  BY <1>18 DEF IInv, Signal, Commands, parserVars, settings, serverVars
<1>19. CASE Kill
  BY <1>19 DEF IInv, Kill, Commands, parserVars, settings, flags, serverVars
<1>20. CASE RamFileLost
  BY <1>20 DEF IInv, RamFileLost, Commands, parserVars, flags, serverVars
<1>21. CASE Playback
  BY <1>21
  DEF IInv, Playback, Commands, PlaybackEnds, parserVars, settings, flags,
      serverVars
<1>22. CASE Handle
  <2>1. CASE HandleUnknown
    BY <1>22, <2>1
    DEF IInv, Handle, HandleUnknown, Commands, parserVars, settings, flags,
        serverVars
  <2>2. CASE HandleSetTime
    BY <1>22, <2>2
    DEF IInv, Handle, HandleSetTime, Commands, parserVars, settings, flags,
        serverVars
  <2>3. CASE HandlePlay
    BY <1>22, <2>3
    DEF IInv, Handle, HandlePlay, Commands, parserVars, settings, flags,
        serverVars
  <2>4. CASE HandleStop
    BY <1>22, <2>4
    DEF IInv, Handle, HandleStop, Commands, parserVars, settings, flags,
        serverVars
  <2>5. CASE HandleVolume
    BY <1>22, <2>5
    DEF IInv, Handle, HandleVolume, Commands, parserVars, settings, flags,
        serverVars
  <2>6. CASE HandleStatus
    BY <1>22, <2>6
    DEF IInv, Handle, HandleStatus, Commands, parserVars, settings, flags,
        serverVars
  <2>7. CASE TellState
    BY <1>22, <2>7
    DEF IInv, Handle, TellState, Commands, parserVars, settings, flags,
        serverVars
  <2>8. CASE HandleSetCfg
    BY <1>22, <2>8
    DEF IInv, Handle, HandleSetCfg, Commands, parserVars, flags, serverVars
  <2>9. CASE WriteCfg
    BY <1>22, <2>9
    DEF IInv, Handle, WriteCfg, Commands, parserVars, flags, serverVars
  <2>10. CASE HandleGetCfg
    BY <1>22, <2>10
    DEF IInv, Handle, HandleGetCfg, Commands, parserVars, settings, flags,
        serverVars
  <2>11. CASE HandleReset
    BY <1>22, <2>11
    DEF IInv, Handle, HandleReset, Commands, parserVars, settings, serverVars
  <2> QED BY <1>22, <2>1, <2>2, <2>3, <2>4, <2>5, <2>6, <2>7, <2>8, <2>9,
        <2>10, <2>11 DEF Handle, Handler
<1>24. CASE DestroyPlayer
  BY <1>24
  DEF IInv, DestroyPlayer, Commands, parserVars, settings, flags, serverVars
<1>25. CASE End
  BY <1>25 DEF IInv, End, Commands, Reset
<1>26. CASE PlayerHangs
  BY <1>26
  DEF IInv, PlayerHangs, Commands, parserVars, settings, flags, serverVars
<1>23. CASE UNCHANGED vars
  BY <1>23
  DEF IInv, Commands, commVars, parserVars, settings, flags, serverVars, vars
<1> QED BY <1>1, <1>2, <1>3, <1>4, <1>5, <1>6, <1>7, <1>8, <1>9, <1>10,
      <1>11, <1>12, <1>13, <1>14, <1>15, <1>16, <1>17, <1>18, <1>19, <1>20,
      <1>21, <1>22, <1>23, <1>24, <1>25, <1>26
      DEF Next, Process, Starts, Serves, Ends, Outside

LEMMA WayOutStep ==
    ASSUME IInv, [Next]_vars  PROVE WayOut'
<1>1. CASE Watchdog
  BY <1>1
  DEF IInv, Watchdog, WayOut, Busy, At, Go, commVars, parserVars, settings,
      flags, serverVars, vars
<1>2. CASE ParseConfig
  BY <1>2
  DEF IInv, ParseConfig, WayOut, Busy, At, Go, parserVars, flags, serverVars
<1>3. CASE ConfigurationFailed
  BY <1>3
  DEF IInv, ConfigurationFailed, WayOut, Busy, At, Go, commVars, parserVars,
      settings, flags, serverVars
<1>4. CASE Connect
  BY <1>4
  DEF IInv, Connect, WayOut, Busy, At, Go, commVars, parserVars, settings,
      flags
<1>5. CASE Autoplay
  BY <1>5
  DEF IInv, Autoplay, WayOut, Busy, At, Go, HandleCommand, commVars,
      parserVars, settings, flags, serverVars
<1>6. CASE AutoplayDone
  BY <1>6
  DEF IInv, AutoplayDone, WayOut, Busy, At, Go, Forget, settings, flags,
      serverVars
<1>7. CASE LoopTest
  BY <1>7
  DEF IInv, LoopTest, WayOut, Busy, At, Go, parserVars, settings, flags,
      serverVars
<1>8. CASE Accept
  BY <1>8
  DEF IInv, Accept, WayOut, Busy, At, Go, commVars, parserVars, settings,
      flags
<1>9. CASE AcceptFails
  BY <1>9
  DEF IInv, AcceptFails, WayOut, Busy, At, Go, commVars, parserVars, settings,
      flags
<1>10. CASE Read
  BY <1>10
  DEF IInv, Read, WayOut, Busy, At, Go, HandleCommand, settings, flags
<1>11. CASE ReadFails
  BY <1>11
  DEF IInv, ReadFails, WayOut, Busy, At, Go, commVars, parserVars, settings,
      flags
<1>12. CASE Send
  BY <1>12 DEF IInv, Send, WayOut, Busy, At, Go, Forget, settings, flags
<1>13. CASE Disconnect
  BY <1>13
  DEF IInv, Disconnect, WayOut, Busy, At, Go, commVars, parserVars, settings,
      flags
<1>14. CASE Boot
  BY <1>14 DEF IInv, Boot, WayOut, Busy, At, Go, parserVars, flags, serverVars
<1>15. CASE Gone
  BY <1>15, NewPlayerStopped DEF IInv, Gone, WayOut, Busy, Go, Reset
<1>16. CASE ClientConnects
  BY <1>16
  DEF IInv, ClientConnects, WayOut, Busy, Running, commVars, parserVars,
      settings, flags
<1>17. CASE ClientLeaves
  BY <1>17
  DEF IInv, ClientLeaves, WayOut, Busy, Running, commVars, parserVars,
      settings, flags
<1>18. CASE Signal
  BY <1>18
  DEF IInv, Signal, WayOut, Busy, Running, parserVars, settings, serverVars
<1>19. CASE Kill
  BY <1>19
  DEF IInv, Kill, WayOut, Busy, Running, parserVars, settings, flags,
      serverVars
<1>20. CASE RamFileLost
  BY <1>20 DEF IInv, RamFileLost, WayOut, Busy, parserVars, flags, serverVars
<1>21. CASE Playback
  BY <1>21, StopStops
  DEF IInv, Playback, WayOut, Busy, PlaybackEnds, parserVars, settings, flags,
      serverVars
<1>22. CASE Handle
  <2>1. CASE HandleUnknown
    BY <1>22, <2>1
    DEF IInv, Handle, HandleUnknown, WayOut, Busy, Go, Dispatched, parserVars,
        settings, flags, serverVars
  <2>2. CASE HandleSetTime
    BY <1>22, <2>2
    DEF IInv, Handle, HandleSetTime, WayOut, Busy, Go, Dispatched, parserVars,
        settings, flags, serverVars
  <2>3. CASE HandlePlay
    BY <1>22, <2>3
    DEF IInv, Handle, HandlePlay, WayOut, Busy, Go, Dispatched, parserVars,
        settings, flags, serverVars
  <2>4. CASE HandleStop
    BY <1>22, <2>4, StopStops
    DEF IInv, Handle, HandleStop, WayOut, Busy, Go, Dispatched, parserVars,
        settings, flags, serverVars
  <2>5. CASE HandleVolume
    BY <1>22, <2>5
    DEF IInv, Handle, HandleVolume, WayOut, Busy, Go, Dispatched, parserVars,
        settings, flags, serverVars
  <2>6. CASE HandleStatus
    BY <1>22, <2>6
    DEF IInv, Handle, HandleStatus, WayOut, Busy, Go, Dispatched, parserVars,
        settings, flags, serverVars
  <2>7. CASE TellState
    BY <1>22, <2>7
    DEF IInv, Handle, TellState, WayOut, Busy, Go, parserVars, settings,
        flags, serverVars
  <2>8. CASE HandleSetCfg
    BY <1>22, <2>8
    DEF IInv, Handle, HandleSetCfg, WayOut, Busy, Go, Dispatched, parserVars,
        flags, serverVars
  <2>9. CASE WriteCfg
    BY <1>22, <2>9
    DEF IInv, Handle, WriteCfg, WayOut, Busy, Go, parserVars, flags,
        serverVars
  <2>10. CASE HandleGetCfg
    BY <1>22, <2>10
    DEF IInv, Handle, HandleGetCfg, WayOut, Busy, Go, Dispatched, parserVars,
        settings, flags, serverVars
  <2>11. CASE HandleReset
    <3>1. player'.state = "Stop"
      BY <1>22, <2>11, StopStops DEF IInv, HandleReset, P!Stop, P!Outcome
    <3>2. /\ stop' = TRUE /\ handler' = "idle" /\ handler # "idle"
          /\ command' = "TCP_RESET" /\ reply' = Reply("TCP_RESET", "OK", None)
      BY <1>22, <2>11 DEF HandleReset, Dispatched, Done, parserVars
    <3>3. phase' = "send" \/ phase' = "autoplay"
      BY <1>22, <2>11, <3>2 DEF IInv, Busy, Handle, Go
    <3>4. reply' # None  BY <3>2, NoneAssumption DEF Reply, TcpCommands, NodesOf
    <3> QED BY <3>1, <3>2, <3>3, <3>4 DEF WayOut
  <2> QED BY <1>22, <2>1, <2>2, <2>3, <2>4, <2>5, <2>6, <2>7, <2>8, <2>9,
        <2>10, <2>11 DEF Handle, Handler
<1>24. CASE DestroyPlayer
  BY <1>24, StopStops
  DEF IInv, DestroyPlayer, WayOut, Busy, At, Go, parserVars, settings, flags,
      serverVars, P!Stop, P!Outcome
<1>25. CASE End
  BY <1>25, NewPlayerStopped DEF IInv, End, WayOut, Busy, At, Go, Reset
<1>26. CASE PlayerHangs
  BY <1>26
  DEF IInv, PlayerHangs, WayOut, Busy, At, Go, parserVars, settings, flags,
      serverVars
<1>23. CASE UNCHANGED vars
  BY <1>23
  DEF IInv, WayOut, Busy, commVars, parserVars, settings, flags, serverVars,
      vars
<1> QED BY <1>1, <1>2, <1>3, <1>4, <1>5, <1>6, <1>7, <1>8, <1>9, <1>10,
      <1>11, <1>12, <1>13, <1>14, <1>15, <1>16, <1>17, <1>18, <1>19, <1>20,
      <1>21, <1>22, <1>23, <1>24, <1>25, <1>26
      DEF Next, Process, Starts, Serves, Ends, Outside

LEMMA TellingStep ==
    ASSUME IInv, [Next]_vars  PROVE Telling'
<1>1. CASE Watchdog
  BY <1>1
  DEF IInv, Watchdog, Telling, Busy, At, Go, Text, commVars, parserVars,
      settings, flags, serverVars, vars
<1>2. CASE ParseConfig
  BY <1>2
  DEF IInv, ParseConfig, Telling, Busy, At, Go, Text, parserVars, flags,
      serverVars
<1>3. CASE ConfigurationFailed
  BY <1>3
  DEF IInv, ConfigurationFailed, Telling, Busy, At, Go, Text, commVars,
      parserVars, settings, flags, serverVars
<1>4. CASE Connect
  BY <1>4
  DEF IInv, Connect, Telling, Busy, At, Go, Text, commVars, parserVars,
      settings, flags
<1>5. CASE Autoplay
  BY <1>5
  DEF IInv, Autoplay, Telling, Busy, At, Go, HandleCommand, Text, commVars,
      parserVars, settings, flags, serverVars
<1>6. CASE AutoplayDone
  BY <1>6
  DEF IInv, AutoplayDone, Telling, Busy, At, Go, Forget, Text, settings,
      flags, serverVars
<1>7. CASE LoopTest
  BY <1>7
  DEF IInv, LoopTest, Telling, Busy, At, Go, Text, parserVars, settings,
      flags, serverVars
<1>8. CASE Accept
  BY <1>8
  DEF IInv, Accept, Telling, Busy, At, Go, Text, commVars, parserVars,
      settings, flags
<1>9. CASE AcceptFails
  BY <1>9
  DEF IInv, AcceptFails, Telling, Busy, At, Go, Text, commVars, parserVars,
      settings, flags
<1>10. CASE Read
  BY <1>10
  DEF IInv, Read, Telling, Busy, At, Go, HandleCommand, Text, settings, flags
<1>11. CASE ReadFails
  BY <1>11
  DEF IInv, ReadFails, Telling, Busy, At, Go, Text, commVars, parserVars,
      settings, flags
<1>12. CASE Send
  BY <1>12
  DEF IInv, Send, Telling, Busy, At, Go, Forget, Text, settings, flags
<1>13. CASE Disconnect
  BY <1>13
  DEF IInv, Disconnect, Telling, Busy, At, Go, Text, commVars, parserVars,
      settings, flags
<1>14. CASE Boot
  BY <1>14
  DEF IInv, Boot, Telling, Busy, At, Go, Text, parserVars, flags, serverVars
<1>15. CASE Gone
  BY <1>15 DEF IInv, Gone, Telling, Busy, Go, Reset, Text
<1>16. CASE ClientConnects
  BY <1>16
  DEF IInv, ClientConnects, Telling, Busy, Text, Running, commVars,
      parserVars, settings, flags
<1>17. CASE ClientLeaves
  BY <1>17
  DEF IInv, ClientLeaves, Telling, Busy, Text, Running, commVars, parserVars,
      settings, flags
<1>18. CASE Signal
  BY <1>18
  DEF IInv, Signal, Telling, Busy, Text, Running, parserVars, settings,
      serverVars
<1>19. CASE Kill
  BY <1>19
  DEF IInv, Kill, Telling, Busy, Text, Running, parserVars, settings, flags,
      serverVars
<1>20. CASE RamFileLost
  BY <1>20
  DEF IInv, RamFileLost, Telling, Busy, Text, parserVars, flags, serverVars
<1>21. CASE Playback
  BY <1>21, StopStops
  DEF IInv, Playback, Telling, PlaybackEnds, P!Stop, P!Outcome, Text,
      parserVars
<1>22. CASE Handle
  <2>1. CASE HandleUnknown
    BY <1>22, <2>1
    DEF IInv, Handle, HandleUnknown, Telling, Busy, Go, Dispatched, Done,
        Text, parserVars, settings, flags, serverVars
  <2>2. CASE HandleSetTime
    BY <1>22, <2>2
    DEF IInv, Handle, HandleSetTime, Telling, Busy, Go, Dispatched, Done,
        Text, parserVars, settings, flags, serverVars
  <2>3. CASE HandlePlay
    <3>1. command = "TCP_PLAY" /\ UNCHANGED <<command, parsed>>
      BY <1>22, <2>3 DEF HandlePlay, Dispatched, parserVars
    <3>2. CASE Tell("NO_FILE")  BY <3>1, <3>2 DEF Tell, Telling
    <3>3. CASE \E f : LET o == P!Play(player, f, PlayModeOf(Text(2)), ramFiles)
                     IN  player' = o.player /\ Tell(Mp3PlayerStatusToError(o.reply))
      <4>1. PICK f : LET o == P!Play(player, f, PlayModeOf(Text(2)), ramFiles)
                     IN  player' = o.player /\ Tell(Mp3PlayerStatusToError(o.reply))
        BY <3>3
      <4> DEFINE o == P!Play(player, f, PlayModeOf(Text(2)), ramFiles)
      <4>2. /\ o.reply = "SUCCESS" =>
                  /\ o.player.state = "Play" /\ o.player.mode \in P!Modes
                  /\ o.player.mode = PlayModeOf(Text(2))
            /\ o.reply # "SUCCESS" => o.player.state = "Stop"
        BY PlayAnswers DEF IInv
      <4>3. player' = o.player /\ error' = Mp3PlayerStatusToError(o.reply)
        BY <4>1 DEF Tell
      <4>4. Text(2)' = Text(2)  BY <3>1 DEF Text
      <4> HIDE DEF o
      <4>5. error' = "OK" <=> o.reply = "SUCCESS"
        BY <4>3 DEF Mp3PlayerStatusToError
      <4>6. error' = "PLAY_MODE_ERROR" => o.reply # "SUCCESS"
        BY <4>3 DEF Mp3PlayerStatusToError
      <4>7. command' = "TCP_PLAY"  BY <3>1
      <4>8. CASE o.reply = "SUCCESS"
        <5>1. /\ player'.state = "Play" /\ player'.mode \in P!Modes
              /\ player'.mode = PlayModeOf(Text(2)')
          BY <4>2, <4>3, <4>4, <4>8
        <5> QED BY <4>6, <4>7, <4>8, <5>1 DEF Telling
      <4>9. CASE o.reply # "SUCCESS"
        <5>1. player'.state = "Stop"  BY <4>2, <4>3, <4>9
        <5> QED BY <4>7, <5>1 DEF Telling
      <4> QED BY <4>8, <4>9
    <3>4. CASE UNCHANGED handler  BY <1>22, <2>3, <3>4 DEF HandlePlay, Dispatched, Telling
    <3> QED BY <1>22, <2>3, <3>2, <3>3, <3>4 DEF HandlePlay
  <2>4. CASE HandleStop
    BY <1>22, <2>4, StopStops
    DEF IInv, Handle, HandleStop, Dispatched, Tell, Telling, P!Stop, P!Outcome
  <2>5. CASE HandleVolume
    <3>1. command' = "TCP_SET_VOLUME"
      BY <1>22, <2>5 DEF HandleVolume, Dispatched, parserVars
    <3>2. PICK v : error' = Mp3PlayerStatusToError(P!SetVolume(player, v).reply)
      BY <1>22, <2>5 DEF HandleVolume, Tell
    <3>3. P!SetVolume(player, v).reply \in {"SUCCESS", "FAILED"}
      BY VolumeAnswers DEF IInv
    <3>4. error' # "PLAY_MODE_ERROR"  BY <3>2, <3>3 DEF Mp3PlayerStatusToError
    <3> QED BY <3>1, <3>4 DEF Telling
  <2>6. CASE HandleStatus
    BY <1>22, <2>6
    DEF IInv, Handle, HandleStatus, Telling, Busy, Go, Dispatched, Tell, Text,
        parserVars, settings, flags, serverVars
  <2>7. CASE TellState
    BY <1>22, <2>7
    DEF IInv, Handle, TellState, Telling, Busy, Go, Done, Text, parserVars,
        settings, flags, serverVars
  <2>8. CASE HandleSetCfg
    BY <1>22, <2>8
    DEF IInv, Handle, HandleSetCfg, Telling, Busy, Go, Dispatched, Done, Text,
        parserVars, flags, serverVars
  <2>9. CASE WriteCfg
    BY <1>22, <2>9
    DEF IInv, Handle, WriteCfg, Telling, Busy, Go, Done, Text, parserVars,
        flags, serverVars
  <2>10. CASE HandleGetCfg
    BY <1>22, <2>10
    DEF IInv, Handle, HandleGetCfg, Telling, Busy, Go, Dispatched, Done, Text,
        parserVars, settings, flags, serverVars
  <2>11. CASE HandleReset
    BY <1>22, <2>11
    DEF IInv, Handle, HandleReset, Telling, Busy, Go, Dispatched, Done, Text,
        parserVars, settings, serverVars
  <2> QED BY <1>22, <2>1, <2>2, <2>3, <2>4, <2>5, <2>6, <2>7, <2>8, <2>9,
        <2>10, <2>11 DEF Handle, Handler
<1>24. CASE DestroyPlayer
  BY <1>24, StopStops
  DEF IInv, DestroyPlayer, Telling, Busy, At, Go, Text, parserVars, settings,
      flags, serverVars, P!Stop, P!Outcome
<1>25. CASE End
  BY <1>25 DEF IInv, End, Telling, Busy, At, Go, Text, Reset
<1>26. CASE PlayerHangs
  BY <1>26
  DEF IInv, PlayerHangs, Telling, Busy, At, Go, Text, parserVars, settings,
      flags, serverVars
<1>23. CASE UNCHANGED vars
  BY <1>23
  DEF IInv, Telling, Busy, Text, commVars, parserVars, settings, flags,
      serverVars, vars
<1> QED BY <1>1, <1>2, <1>3, <1>4, <1>5, <1>6, <1>7, <1>8, <1>9, <1>10,
      <1>11, <1>12, <1>13, <1>14, <1>15, <1>16, <1>17, <1>18, <1>19, <1>20,
      <1>21, <1>22, <1>23, <1>24, <1>25, <1>26
      DEF Next, Process, Starts, Serves, Ends, Outside

LEMMA OutcomeStep ==
    ASSUME IInv, [Next]_vars  PROVE ReplyShowsOutcome'
<1>1. CASE Watchdog
  BY <1>1
  DEF IInv, Watchdog, ReplyShowsOutcome, Answering, Busy, At, Go, Text,
      commVars, parserVars, settings, flags, serverVars, vars
<1>2. CASE ParseConfig
  BY <1>2
  DEF IInv, ParseConfig, ReplyShowsOutcome, Answering, Busy, At, Go, Text,
      parserVars, flags, serverVars
<1>3. CASE ConfigurationFailed
  BY <1>3
  DEF IInv, ConfigurationFailed, ReplyShowsOutcome, Answering, Busy, At, Go,
      Text, commVars, parserVars, settings, flags, serverVars
<1>4. CASE Connect
  BY <1>4
  DEF IInv, Connect, ReplyShowsOutcome, Answering, Busy, At, Go, Text,
      commVars, parserVars, settings, flags
<1>5. CASE Autoplay
  BY <1>5
  DEF IInv, Autoplay, ReplyShowsOutcome, Answering, Busy, At, Go,
      HandleCommand, Text, commVars, parserVars, settings, flags, serverVars
<1>6. CASE AutoplayDone
  BY <1>6
  DEF IInv, AutoplayDone, ReplyShowsOutcome, Answering, Busy, At, Go, Forget,
      Text, settings, flags, serverVars
<1>7. CASE LoopTest
  BY <1>7
  DEF IInv, LoopTest, ReplyShowsOutcome, Answering, Busy, At, Go, Reply, Text,
      parserVars, settings, flags, serverVars
<1>8. CASE Accept
  BY <1>8
  DEF IInv, Accept, ReplyShowsOutcome, Answering, Busy, At, Go, Text,
      commVars, parserVars, settings, flags
<1>9. CASE AcceptFails
  BY <1>9
  DEF IInv, AcceptFails, ReplyShowsOutcome, Answering, Busy, At, Go, Text,
      commVars, parserVars, settings, flags
<1>10. CASE Read
  BY <1>10
  DEF IInv, Read, ReplyShowsOutcome, Answering, Busy, At, Go, HandleCommand,
      Text, settings, flags
<1>11. CASE ReadFails
  BY <1>11
  DEF IInv, ReadFails, ReplyShowsOutcome, Answering, Busy, At, Go, Text,
      commVars, parserVars, settings, flags
<1>12. CASE Send
  BY <1>12
  DEF IInv, Send, ReplyShowsOutcome, Answering, Busy, At, Go, Forget, Text,
      settings, flags
<1>13. CASE Disconnect
  BY <1>13
  DEF IInv, Disconnect, ReplyShowsOutcome, Answering, Busy, At, Go, Text,
      commVars, parserVars, settings, flags
<1>14. CASE Boot
  BY <1>14
  DEF IInv, Boot, ReplyShowsOutcome, Answering, Busy, At, Go, Text,
      parserVars, flags, serverVars
<1>15. CASE Gone
  BY <1>15 DEF IInv, Gone, ReplyShowsOutcome, Answering, Busy, Go, Reset, Text
<1>16. CASE ClientConnects
  BY <1>16
  DEF IInv, ClientConnects, ReplyShowsOutcome, Answering, Busy, Text, Running,
      commVars, parserVars, settings, flags
<1>17. CASE ClientLeaves
  BY <1>17
  DEF IInv, ClientLeaves, ReplyShowsOutcome, Answering, Busy, Text, Running,
      commVars, parserVars, settings, flags
<1>18. CASE Signal
  BY <1>18
  DEF IInv, Signal, ReplyShowsOutcome, Answering, Busy, Text, Running,
      parserVars, settings, serverVars
<1>19. CASE Kill
  BY <1>19
  DEF IInv, Kill, ReplyShowsOutcome, Answering, Busy, Text, Running,
      parserVars, settings, flags, serverVars
<1>20. CASE RamFileLost
  BY <1>20
  DEF IInv, RamFileLost, ReplyShowsOutcome, Answering, Busy, Text, parserVars,
      flags, serverVars
<1>21. CASE Playback
  BY <1>21
  DEF IInv, Playback, ReplyShowsOutcome, Answering, Busy, PlaybackEnds, Text,
      parserVars, settings, flags, serverVars
<1>22. CASE Handle
  <2>1. CASE HandleUnknown
    BY <1>22, <2>1
    DEF IInv, Handle, HandleUnknown, ReplyShowsOutcome, Answering, Busy, Go,
        Dispatched, Done, Reply, Text, parserVars, settings, flags, serverVars
  <2>2. CASE HandleSetTime
    BY <1>22, <2>2
    DEF IInv, Handle, HandleSetTime, ReplyShowsOutcome, Answering, Busy, Go,
        Dispatched, Done, Reply, Text, parserVars, settings, flags, serverVars
  <2>3. CASE HandlePlay
    BY <1>22, <2>3
    DEF IInv, Handle, HandlePlay, ReplyShowsOutcome, Answering, Busy, Go,
        Dispatched, Tell, Text, parserVars, settings, flags, serverVars
  <2>4. CASE HandleStop
    BY <1>22, <2>4
    DEF IInv, Handle, HandleStop, ReplyShowsOutcome, Answering, Busy, Go,
        Dispatched, Tell, Text, parserVars, settings, flags, serverVars
  <2>5. CASE HandleVolume
    BY <1>22, <2>5
    DEF IInv, Handle, HandleVolume, ReplyShowsOutcome, Answering, Busy, Go,
        Dispatched, Tell, Text, parserVars, settings, flags, serverVars
  <2>6. CASE HandleStatus
    BY <1>22, <2>6
    DEF IInv, Handle, HandleStatus, ReplyShowsOutcome, Answering, Busy, Go,
        Dispatched, Tell, Text, parserVars, settings, flags, serverVars
  <2>7. CASE TellState
    <3>1. /\ reply'.command = command /\ reply'.error = error
          /\ reply'.state = P!StateOf(player) /\ handler = "tell"
          /\ UNCHANGED <<parsed, command, player>>
      BY <1>22, <2>7 DEF TellState, Done, Reply, parserVars
    <3>2. Text(2)' = Text(2)  BY <3>1 DEF Text
    <3>3. player.state = "Stop" => reply'.state = "STOPED"
      BY <3>1, StateNames DEF IInv
    <3>4. CASE player.state = "Stop"
      BY <3>1, <3>3, <3>4 DEF ReplyShowsOutcome
    <3>5. CASE player.state # "Stop"
      <4>1. /\ command # "TCP_STOP" /\ error # "PLAY_MODE_ERROR"
            /\ command = "TCP_PLAY" /\ error = "OK" =>
                 /\ player.state = "Play" /\ player.mode \in P!Modes
                 /\ player.mode = PlayModeOf(Text(2))
        BY <3>1, <3>5 DEF IInv, Telling
      <4>2. ASSUME command = "TCP_PLAY", error = "OK"
            PROVE  \/ Text(2) = <<"ONCE">> /\ reply'.state = "PLAY_ONCE"
                   \/ Text(2) = <<"IN_LOOP">> /\ reply'.state = "PLAY_IN_LOOP"
        <5>1. player.mode = "ONCE" => reply'.state = "PLAY_ONCE"
          BY <3>1, <4>1, <4>2, StateNames DEF IInv
        <5>2. player.mode = "IN_LOOP" => reply'.state = "PLAY_IN_LOOP"
          BY <3>1, <4>1, <4>2, StateNames DEF IInv
        <5>3. player.mode = "ONCE" => Text(2) = <<"ONCE">>
          BY <4>1, <4>2 DEF PlayModeOf
        <5>4. player.mode = "IN_LOOP" => Text(2) = <<"IN_LOOP">>
          BY <4>1, <4>2 DEF PlayModeOf
        <5>5. player.mode = "ONCE" \/ player.mode = "IN_LOOP"
          BY <4>1, <4>2 DEF P!Modes
        <5> QED BY <5>1, <5>2, <5>3, <5>4, <5>5
      <4> QED BY <3>1, <3>2, <4>1, <4>2 DEF ReplyShowsOutcome
    <3> QED BY <3>4, <3>5
  <2>8. CASE HandleSetCfg
    BY <1>22, <2>8
    DEF IInv, Handle, HandleSetCfg, ReplyShowsOutcome, Answering, Busy, Go,
        Dispatched, Done, Reply, Text, parserVars, flags, serverVars
  <2>9. CASE WriteCfg
    BY <1>22, <2>9
    DEF IInv, Handle, WriteCfg, ReplyShowsOutcome, Answering, Busy, Go, Done,
        Reply, Text, parserVars, flags, serverVars
  <2>10. CASE HandleGetCfg
    BY <1>22, <2>10
    DEF IInv, Handle, HandleGetCfg, ReplyShowsOutcome, Answering, Busy, Go,
        Dispatched, Done, Text, parserVars, settings, flags, serverVars
  <2>11. CASE HandleReset
    BY <1>22, <2>11
    DEF IInv, Handle, HandleReset, ReplyShowsOutcome, Answering, Busy, Go,
        Dispatched, Done, Reply, Text, parserVars, settings, serverVars
  <2> QED BY <1>22, <2>1, <2>2, <2>3, <2>4, <2>5, <2>6, <2>7, <2>8, <2>9,
        <2>10, <2>11 DEF Handle, Handler
<1>24. CASE DestroyPlayer
  BY <1>24
  DEF IInv, DestroyPlayer, ReplyShowsOutcome, Answering, Busy, At, Go, Text,
      parserVars, settings, flags, serverVars
<1>25. CASE End
  BY <1>25
  DEF IInv, End, ReplyShowsOutcome, Answering, Busy, At, Go, Text, Reset
<1>26. CASE PlayerHangs
  BY <1>26
  DEF IInv, PlayerHangs, ReplyShowsOutcome, Answering, Busy, At, Go, Text,
      parserVars, settings, flags, serverVars
<1>23. CASE UNCHANGED vars
  BY <1>23
  DEF IInv, ReplyShowsOutcome, Answering, Busy, Text, commVars, parserVars,
      settings, flags, serverVars, vars
<1> QED BY <1>1, <1>2, <1>3, <1>4, <1>5, <1>6, <1>7, <1>8, <1>9, <1>10,
      <1>11, <1>12, <1>13, <1>14, <1>15, <1>16, <1>17, <1>18, <1>19, <1>20,
      <1>21, <1>22, <1>23, <1>24, <1>25, <1>26
      DEF Next, Process, Starts, Serves, Ends, Outside

LEMMA Start == Init => IInv
  BY NewPlayerStopped DEF Init, IInv, Socket, Busy, Commands, WayOut, Telling,
     ReplyShowsOutcome, Answering

-----------------------------------------------------------------------------

\* The strengthened invariant of the program is inductive.
THEOREM Inductive == Spec => []IInv
<1>1. IInv /\ [Next]_vars => IInv'
  BY SocketStep, BusyStep, PlayerStep, CommandStep, WayOutStep, TellingStep,
     OutcomeStep DEF IInv
<1> QED BY Start, <1>1, PTL DEF Spec

\* Every way around the server loop closes its client's socket.
THEOREM SocketsClosed == Spec => []NoSocketLeaked
<1>1. IInv => NoSocketLeaked  BY DEF IInv, Socket, NoSocketLeaked
<1> QED BY Inductive, <1>1, PTL

\* After TCP_RESET the player is silent and no other command runs.
THEOREM RebootLast == Spec => []RebootIsLast
<1>1. IInv => RebootIsLast  BY DEF IInv, WayOut, RebootIsLast
<1> QED BY Inductive, <1>1, PTL

\* A reply shows a state that its command can have led to.
THEOREM RepliesTrue == Spec => []ReplyShowsOutcome
<1>1. IInv => ReplyShowsOutcome  BY DEF IInv
<1> QED BY Inductive, <1>1, PTL

-----------------------------------------------------------------------------
(* What was parsed, stored and typed.                                      *)

\* Where the values come from that TypeOK says nothing deeper of.
Placed ==
    /\ phase \in {"down", "config", "connect", "autoplay", "test", "accept",
                  "read", "serve", "send", "exit", "destroy", "end", "boot"}
    /\ handler \in {"idle", "dispatch", "write", "tell"}
    /\ died \in {"none", "out_of_range", "overrun", "pipe", "killed", "hung"}
    /\ error \in {None, "OK", "NO_FILE", "PLAY_MODE_ERROR", "WRONG_VOLUME"}
    /\ ramFiles \subseteq Stored
    /\ {listening, stop, reboot} \subseteq BOOLEAN
    /\ client \in {"none", "open", "left"}
    /\ backlog \in 0..MaxBacklog /\ kills \in 0..MaxKills

\* The words, the ones main writes itself listed: no prover knows that a word
\* is in STRING.
Texts == STRING \cup {"0", "NL", "NUL", "?", "TCP_PLAY", "ONCE", "END"}

\* What the parser makes of a message, whatever it reads outside the buffer.
Reading(m, p) == \E stray \in Texts : p = Parse(m, stray)

\* The configuration is the default, or one that was parsed.
Configuration ==
    /\ config \in [sounds : Seq(Texts \cup {NoFile}), autoplay : Texts]
    /\ \/ config.sounds = <<>>
       \/ \E s \in DOMAIN ConfigOf : config.autoplay = ConfigOf[s].autoplay

Volume == player.volume \in 0..100

Nodes == Len(parsed.nodes) <= MSG_MAX_NODES

\* From Read to Send the nodes are those of the message that was read.
Origin ==
    phase \in {"serve", "send"} /\ died = "none" =>
        /\ message \in Messages \cup {<<>>}
        /\ parsed \in Parsed[message] /\ ~parsed.overrun

Current ==
    phase = "serve" /\ died = "none" /\ handler # "idle" =>
        command = Verified(parsed.nodes) \/ parsed.tooMany

\* At the start only the configured sound is played.
AsConfigured ==
    phase = "autoplay" /\ died = "none" /\ handler # "idle" =>
        /\ command = "TCP_PLAY"
        /\ Autoplays(config.autoplay) /\ Text(1) = <<config.autoplay>>

Writing ==
    /\ handler = "write" => command = "TCP_SET_CFG"
    /\ handler = "tell" => command # "TCP_SET_CFG"

\* What was written of a configuration that was answered OK is in the file until
\* the reply is sent.
Kept ==
    /\ Answering /\ ~parsed.tooMany
    /\ Verified(parsed.nodes) = "TCP_SET_CFG" /\ reply.error = "OK"
    => configFile \in Beginnings(Text(2))

JInv == /\ Placed /\ Configuration /\ Volume /\ Nodes /\ Origin /\ Current
        /\ AsConfigured /\ Writing /\ Kept /\ OnlyCommandsThrow

\* Which steps touch what.
LEMMA Frames ==
    ASSUME [Next]_vars
    PROVE  /\ UNCHANGED config \/ ParseConfig \/ End \/ Gone
           /\ \/ UNCHANGED player \/ Handle \/ Playback \/ DestroyPlayer
              \/ End \/ Gone
           /\ \/ UNCHANGED parsed \/ Autoplay \/ AutoplayDone \/ Read \/ Send
              \/ End \/ Gone
           /\ UNCHANGED command \/ Autoplay \/ Read \/ End \/ Gone
           /\ UNCHANGED message \/ AutoplayDone \/ Read \/ Send \/ End \/ Gone
           /\ UNCHANGED handler \/ Autoplay \/ Read \/ Handle \/ End \/ Gone
           /\ UNCHANGED configFile \/ Handle
           /\ UNCHANGED reply \/ LoopTest \/ Handle \/ End \/ Gone
           /\ phase' = "serve" => phase = "serve" \/ Read
           /\ phase' = "send" => phase = "send" \/ (Handle /\ phase = "serve")
           /\ phase' = "autoplay" => phase = "autoplay" \/ Connect
           /\ died' = "none" => died = "none" \/ Gone
           /\ died' = "out_of_range" => died = "out_of_range" \/ Handle
<1>1. CASE Watchdog
  BY <1>1
  DEF Watchdog, At, Go, commVars, parserVars, settings, flags, serverVars, vars
<1>2. CASE ParseConfig
  BY <1>2
  DEF ParseConfig, At, Go, parserVars, flags, serverVars
<1>3. CASE ConfigurationFailed
  BY <1>3
  DEF ConfigurationFailed, At, Go, commVars, parserVars, settings, flags,
      serverVars
<1>4. CASE Connect
  BY <1>4
  DEF Connect, At, Go, commVars, parserVars, settings, flags
<1>5. CASE Autoplay
  BY <1>5
  DEF Autoplay, At, HandleCommand, settings, flags, Go, commVars, parserVars,
      serverVars
<1>6. CASE AutoplayDone
  BY <1>6
  DEF AutoplayDone, At, Go, Forget, settings, flags, serverVars
<1>7. CASE LoopTest
  BY <1>7
  DEF LoopTest, At, Go, parserVars, settings, flags, serverVars
<1>8. CASE Accept
  BY <1>8
  DEF Accept, At, Go, commVars, parserVars, settings, flags
<1>9. CASE AcceptFails
  BY <1>9
  DEF AcceptFails, At, Go, commVars, parserVars, settings, flags
<1>10. CASE Read
  BY <1>10
  DEF Read, At, HandleCommand, settings, flags, Go
<1>11. CASE ReadFails
  BY <1>11
  DEF ReadFails, At, Go, commVars, parserVars, settings, flags
<1>12. CASE Send
  BY <1>12
  DEF Send, At, Go, Forget, settings, flags
<1>13. CASE Disconnect
  BY <1>13 DEF Disconnect, At, Go, commVars, parserVars, settings, flags
<1>14. CASE Boot
  BY <1>14
  DEF Boot, At, Go, parserVars, flags, serverVars
<1>15. CASE Gone
  BY <1>15
  DEF Gone, Go, Reset
<1>16. CASE ClientConnects
  BY <1>16
  DEF ClientConnects, Running, commVars, parserVars, settings, flags
<1>17. CASE ClientLeaves
  BY <1>17
  DEF ClientLeaves, Running, commVars, parserVars, settings, flags
<1>18. CASE Signal
  BY <1>18
  DEF Signal, Running, parserVars, settings, serverVars
<1>19. CASE Kill
  BY <1>19
  DEF Kill, Running, parserVars, settings, flags, serverVars
<1>20. CASE RamFileLost
  BY <1>20
  DEF RamFileLost, parserVars, flags, serverVars
<1>21. CASE Playback
  BY <1>21
  DEF Playback, PlaybackEnds, parserVars, settings, flags, serverVars
<1>22. CASE Handle
  <2>1. CASE HandleUnknown
    BY <1>22, <2>1
    DEF Handle, Go, serverVars, HandleUnknown, Dispatched, Done, parserVars,
        settings, flags
  <2>2. CASE HandleSetTime
    BY <1>22, <2>2
    DEF Handle, Go, serverVars, HandleSetTime, Dispatched, Done, parserVars,
        settings, flags
  <2>3. CASE HandlePlay
    BY <1>22, <2>3
    DEF Handle, Go, serverVars, HandlePlay, Dispatched, Tell, parserVars,
        settings, flags
  <2>4. CASE HandleStop
    BY <1>22, <2>4
    DEF Handle, Go, serverVars, HandleStop, Dispatched, Tell, parserVars,
        settings, flags
  <2>5. CASE HandleVolume
    BY <1>22, <2>5
    DEF Handle, Go, serverVars, HandleVolume, Dispatched, Tell, parserVars,
        settings, flags
  <2>6. CASE HandleStatus
    BY <1>22, <2>6
    DEF Handle, Go, serverVars, HandleStatus, Dispatched, Tell, parserVars,
        settings, flags
  <2>7. CASE TellState
    BY <1>22, <2>7
    DEF Handle, Go, serverVars, TellState, Done, parserVars, settings, flags
  <2>8. CASE HandleSetCfg
    BY <1>22, <2>8
    DEF Handle, Go, serverVars, HandleSetCfg, Dispatched, Done, parserVars,
        flags
  <2>9. CASE WriteCfg
    BY <1>22, <2>9
    DEF Handle, Go, serverVars, WriteCfg, Done, parserVars, flags
  <2>10. CASE HandleGetCfg
    BY <1>22, <2>10
    DEF Handle, Go, serverVars, HandleGetCfg, Dispatched, Done, parserVars,
        settings, flags
  <2>11. CASE HandleReset
    BY <1>22, <2>11
    DEF Handle, Go, serverVars, HandleReset, Dispatched, Done, parserVars,
        settings
  <2> QED BY <1>22, <2>1, <2>2, <2>3, <2>4, <2>5, <2>6, <2>7, <2>8, <2>9,
      <2>10, <2>11 DEF Handle, Handler
<1>24. CASE DestroyPlayer
  BY <1>24 DEF DestroyPlayer, At, Go, parserVars, settings, flags, serverVars
<1>25. CASE End
  BY <1>25 DEF End, At, Go, Reset
<1>26. CASE PlayerHangs
  BY <1>26 DEF PlayerHangs, At, Go, parserVars, settings, flags, serverVars
<1>23. CASE UNCHANGED vars
  BY <1>23
  DEF vars, commVars, parserVars, settings, flags, serverVars
<1> QED BY <1>1, <1>2, <1>3, <1>4, <1>5, <1>6, <1>7, <1>8, <1>9, <1>10, <1>11,
    <1>12, <1>13, <1>14, <1>15, <1>16, <1>17, <1>18, <1>19, <1>20, <1>21,
    <1>22, <1>23, <1>24, <1>25, <1>26
      DEF Next, Process, Starts, Serves, Ends, Outside

LEMMA ConfigurationStep ==
    ASSUME JInv, [Next]_vars  PROVE Configuration'
<1>1. CASE ParseConfig
  <2> DEFINE c == ConfigOf[configFile]
             heard == [i \in DOMAIN c.sounds |-> SoundOf(c.sounds[i])]
  <2>1. configFile \in DOMAIN ConfigOf /\ config' = [c EXCEPT !.sounds = heard]
    BY <1>1 DEF ParseConfig, Parses
  <2>2. c \in [sounds : Seq(STRING), autoplay : STRING]
    BY <2>1, ListenerAssumption, Zenon
  <2>a. STRING \subseteq Texts
    BY DEF Texts
  <2>3. heard \in Seq(Texts \cup {NoFile})
    <3>1. c.sounds \in Seq(STRING) /\ DOMAIN c.sounds = 1..Len(c.sounds)
          /\ Len(c.sounds) \in Nat
      BY <2>2
    <3>2. \A i \in 1..Len(c.sounds) : SoundOf(c.sounds[i]) \in Texts \cup {NoFile}
      <4> TAKE i \in 1..Len(c.sounds)
      <4>1. c.sounds[i] \in STRING
        BY <3>1
      <4> QED BY <2>a, <4>1 DEF SoundOf
    <3>3. heard \in [1..Len(c.sounds) -> Texts \cup {NoFile}]
      BY <3>1, <3>2
    <3> HIDE DEF heard
    <3> QED BY <3>1, <3>3, FunctionIsSeq
  <2> HIDE DEF heard, c
  <2>4. config'.autoplay = c.autoplay
        /\ config' \in [sounds : Seq(Texts \cup {NoFile}), autoplay : Texts]
    BY <2>1, <2>2, <2>3, <2>a
  <2> QED BY <2>1, <2>4 DEF Configuration, c
<1>2. CASE End \/ Gone
  <2>1. config' = DefaultConfig
    BY <1>2 DEF End, Gone, Reset
  <2>2. DefaultConfig \in [sounds : Seq(Texts \cup {NoFile}), autoplay : Texts]
    <3>1. \A T : <<>> \in Seq(T)
      BY EmptySeq
    <3>2. "0" \in Texts
      BY DEF Texts
    <3> QED BY <3>1, <3>2 DEF DefaultConfig
  <2>3. DefaultConfig.sounds = <<>>
    BY DEF DefaultConfig
  <2> QED BY <2>1, <2>2, <2>3, Zenon DEF Configuration
<1>3. CASE UNCHANGED config
  BY <1>3 DEF JInv, Configuration
<1> QED BY <1>1, <1>2, <1>3, Frames

LEMMA MarksAreTexts == "NL" \in Texts /\ "NUL" \in Texts /\ Strays \subseteq Texts
  BY DEF Texts, Strays

LEMMA EachIsReading ==
    ASSUME NEW m \in Inputs, NEW p \in Parsed[m]  PROVE Reading(m, p)
<1>1. Parsed[m] = {Parse(m, stray) : stray \in Strays}
  BY DEF Parsed
<1> QED BY <1>1, MarksAreTexts, Zenon DEF Reading

\* What MsgParser_proofs says of a message, of every reading of it.
LEMMA ReadAsMeant ==
    ASSUME NEW m \in Seq(Texts), NEW p, Reading(m, p)
    PROVE  /\ ~p.tooMany /\ ~p.overrun => Verified(p.nodes) = Meant(m)
           /\ p.tooMany \/ p.overrun => Meant(m) = TCP_CMD_NUM
           /\ p.tooMany => GivesUp(m)
           /\ GivesUp(m) => p.tooMany
           /\ Len(p.nodes) <= MSG_MAX_NODES
<1>1. PICK stray \in Texts : p = Parse(m, stray)
  BY DEF Reading
<1>2. LET q == Parse(m, stray)
      IN  /\ ~q.tooMany /\ ~q.overrun => Verified(q.nodes) = Meant(m)
          /\ q.tooMany \/ q.overrun => Meant(m) = TCP_CMD_NUM
          /\ q.astray /\ Len(m) <= BufferSize => Meant(m) = TCP_CMD_NUM
  BY MarksAreTexts, ParsesWhatIsMeantForAll, Zenon
<1>3. /\ Parse(m, stray).tooMany => GivesUp(m)
      /\ GivesUp(m) => Parse(m, stray).tooMany
  BY MarksAreTexts, TooManyIsGivenUp, Zenon
<1>4. Len(Parse(m, stray).nodes) <= MSG_MAX_NODES
  BY MarksAreTexts, NodesBounded, Zenon
<1> QED BY <1>1, <1>2, <1>3, <1>4

LEMMA InputParsed ==
    ASSUME NEW m \in Messages \cup {<<>>}
    PROVE  m \in Seq(Texts) /\ \A p \in Parsed[m] : Reading(m, p)
<1>1. m \in Seq(Texts)
  <2>1. CASE m = <<>>
    <3>1. <<>> \in Seq(Texts)
      OBVIOUS
    <3> QED BY <2>1, <3>1
  <2>2. CASE m \in Messages
    <3>1. m \in Seq(STRING)
      BY <2>2, ListenerAssumption, Zenon
    <3>2. \A i \in 1..Len(m) : m[i] \in Texts
      BY <3>1 DEF Texts
    <3>3. m = [i \in 1..Len(m) |-> m[i]] /\ Len(m) \in Nat
      BY <3>1
    <3>4. m \in [1..Len(m) -> Texts]
      BY <3>2, <3>3, Zenon
    <3> QED BY <3>3, <3>4, FunctionIsSeq, Zenon
  <2> QED BY <2>1, <2>2
<1>2. m \in Inputs
  BY DEF Inputs
<1> QED BY <1>1, <1>2, EachIsReading

\* The message of the configured autoplay is a TCP_PLAY of that number.
LEMMA AutoplayParsed ==
    ASSUME Configuration, Autoplays(config.autoplay),
           NEW m, m = AutoplayMessage(config.autoplay)
    PROVE  /\ m \in Seq(Texts)
           /\ \A p \in Parsed[m] :
                /\ Reading(m, p) /\ ~p.tooMany /\ ~p.overrun
                /\ Verified(p.nodes) = "TCP_PLAY"
                /\ NodeAt(p.nodes, 1) = <<config.autoplay>>
<1> DEFINE w == config.autoplay
<1>1. w \in Texts
  BY DEF Configuration
<1>2. w # "NL"
  <2>1. Atoi(<<w>>) # 0
    BY DEF Autoplays
  <2>2. <<w>>[1] = w
    OBVIOUS
  <2> QED BY <2>1, <2>2, NumberAssumption DEF Atoi
<1>3. m = <<"TCP_PLAY", "NL", w, "NL", "ONCE", "NL", "END", "NL">>
  BY DEF AutoplayMessage
<1>4. m \in Inputs
  <2>1. config.sounds # <<>>
    <3>1. Len(config.sounds) > 0 \/ Len(config.sounds) \notin Nat
      BY AtoiType DEF Autoplays
    <3>2. Len(<<>>) = 0
      OBVIOUS
    <3> QED BY <3>1, <3>2
  <2>2. \E s \in DOMAIN ConfigOf : w = ConfigOf[s].autoplay
    BY <2>1 DEF Configuration
  <2> QED BY <2>2, Zenon DEF Inputs
<1>5. \A p \in Parsed[m] : Reading(m, p)
  BY <1>4, EachIsReading
<1> HIDE DEF w
<1>6. /\ m \in Seq(Texts) /\ Len(m) = 8
      /\ m[1] = "TCP_PLAY" /\ m[2] = "NL" /\ m[3] = w /\ m[4] = "NL"
      /\ m[5] = "ONCE" /\ m[6] = "NL" /\ m[7] = "END" /\ m[8] = "NL"
  <2>1. /\ Len(m) = 8 /\ DOMAIN m = 1..8
        /\ m[1] = "TCP_PLAY" /\ m[2] = "NL" /\ m[3] = w /\ m[4] = "NL"
        /\ m[5] = "ONCE" /\ m[6] = "NL" /\ m[7] = "END" /\ m[8] = "NL"
    BY <1>3
  <2>2. m = [i \in 1..8 |-> m[i]]
    BY <1>3
  <2>3. \A i \in 1..8 : m[i] \in Texts
    <3>1. 1..8 = {1, 2, 3, 4, 5, 6, 7, 8}
      OBVIOUS
    <3>2. {"TCP_PLAY", "NL", w, "ONCE", "END"} \subseteq Texts
      BY <1>1 DEF Texts
    <3>3. \A i \in 1..8 : m[i] \in {"TCP_PLAY", "NL", w, "ONCE", "END"}
      BY <2>1, <3>1
    <3> QED BY <3>2, <3>3
  <2>4. m \in [1..8 -> Texts]
    BY <2>2, <2>3, Zenon
  <2>5. m \in Seq(Texts)
    BY <2>4, 8 \in Nat, FunctionIsSeq, Zenon
  <2> QED BY <2>1, <2>5
<1>7. LineEnds(m) = {2, 4, 6, 8}
  <2>1. 1..Len(m) = {1, 2, 3, 4, 5, 6, 7, 8}
    BY <1>6
  <2>2. m[1] # "NL" /\ m[3] # "NL" /\ m[5] # "NL" /\ m[7] # "NL"
    BY <1>2, <1>6
  <2> QED BY <1>6, <2>1, <2>2 DEF LineEnds
<1>8. Cardinality(LineEnds(m)) = 4
  <2> DEFINE e == [i \in 0..4 |-> 2 * i]
  <2>1. {e[i] : i \in 1..4} = {2, 4, 6, 8}
    <3>1. 1..4 = {1, 2, 3, 4} /\ 1..4 \subseteq 0..4
      OBVIOUS
    <3>2. e[1] = 2 /\ e[2] = 4 /\ e[3] = 6 /\ e[4] = 8
      OBVIOUS
    <3> HIDE DEF e
    <3> QED BY <3>1, <3>2
  <2>2. e \in [0..4 -> Nat] /\ \A i \in 1..4 : e[i - 1] < e[i]
    OBVIOUS
  <2> HIDE DEF e
  <2> QED BY <1>7, <2>1, <2>2, 4 \in Nat, CountEnds
<1>9. IsCommand(m, "TCP_PLAY")
  <2>1. "TCP_PLAY" \in TcpCommands \ {"TCP_SET_CFG"} /\ NodesOf["TCP_PLAY"] = 4
    BY DEF TcpCommands, NodesOf
  <2>2. /\ 8 \in LineEnds(m) /\ 8 > 2 /\ m[8 - 1] = "END" /\ m[8 - 2] = "NL"
        /\ \A j \in LineEnds(m) : j <= 8
    BY <1>6, <1>7
  <2> QED BY <1>6, <1>8, <2>1, <2>2, Zenon DEF IsCommand
<1>10. Meant(m) = "TCP_PLAY"
  <2>1. ~IsSetCfg(m)
    BY <1>6 DEF IsSetCfg
  <2>2. "TCP_PLAY" \in TcpCommands
    BY DEF TcpCommands, NodesOf
  <2> QED BY <1>6, <1>9, <2>1, <2>2, Zenon DEF Meant
<1>11. ASSUME NEW p \in Parsed[m]
       PROVE  ~p.tooMany /\ ~p.overrun /\ Verified(p.nodes) = "TCP_PLAY"
  <2>1. "TCP_PLAY" # TCP_CMD_NUM
    BY DEF TCP_CMD_NUM
  <2>2. /\ ~p.tooMany /\ ~p.overrun => Verified(p.nodes) = Meant(m)
        /\ p.tooMany \/ p.overrun => Meant(m) = TCP_CMD_NUM
    <3>1. Reading(m, p)
      BY <1>5
    <3> QED BY <1>6, <3>1, ReadAsMeant
  <2> QED BY <1>10, <2>1, <2>2
<1>12. ASSUME NEW p \in Parsed[m]  PROVE NodeAt(p.nodes, 1) = <<w>>
  <2>1. 4 \in 3..Len(m) /\ m[4] = "NL" /\ NoEnd(m, 2, 4)
    BY <1>2, <1>6 DEF NoEnd
  <2>2. "TCP_PLAY" \in TcpCommands
    BY DEF TcpCommands, NodesOf
  <2>3. PICK stray \in Texts : p = Parse(m, stray)
    BY <1>5 DEF Reading
  <2>4. NodeAt(Parse(m, stray).nodes, 1) = Between(m, 2, 4)
    BY <1>6, <1>9, <2>1, <2>2, MarksAreTexts, SecondLine
  <2>5. Between(m, 2, 2 + 2) = <<w>>
    <3>1. m[2 + 1] = w /\ 2 \in Nat
      BY <1>6
    <3> QED BY <3>1, WordOfLine, Zenon
  <2> QED BY <2>3, <2>4, <2>5
<1> QED BY <1>5, <1>6, <1>11, <1>12 DEF w

LEMMA NodesStep ==
    ASSUME JInv, [Next]_vars  PROVE Nodes'
<1>1. Nodes /\ Configuration
  BY DEF JInv
<1>2. Len(Begin.nodes) <= MSG_MAX_NODES
  BY DEF Begin, MSG_MAX_NODES
<1>3. CASE Autoplay
  <2> DEFINE m == AutoplayMessage(config.autoplay)
  <2>1. CASE Autoplays(config.autoplay)
    <3>1. m \in Seq(Texts) /\ \A p \in Parsed[m] : Reading(m, p)
      BY <1>1, <2>1, AutoplayParsed
    <3>2. parsed' \in Parsed[m]
      BY <1>3, <2>1 DEF Autoplay, HandleCommand
    <3>3. Len(parsed'.nodes) <= MSG_MAX_NODES
      BY <3>1, <3>2, ReadAsMeant
    <3> QED BY <3>3 DEF Nodes
  <2>2. CASE ~Autoplays(config.autoplay)
    BY <1>1, <1>3, <2>2 DEF Autoplay, commVars, parserVars, Nodes
  <2> QED BY <2>1, <2>2
<1>4. CASE Read
  <2>1. PICK m \in Messages \cup {<<>>} : parsed' \in Parsed[m]
    BY <1>4 DEF Read, HandleCommand
  <2>2. m \in Seq(Texts) /\ Reading(m, parsed')
    BY <2>1, InputParsed
  <2>3. Len(parsed'.nodes) <= MSG_MAX_NODES
    BY <2>2, ReadAsMeant
  <2> QED BY <2>3 DEF Nodes
<1>5. CASE AutoplayDone \/ Send \/ End \/ Gone
  <2>1. parsed' = Begin
    BY <1>5 DEF AutoplayDone, Send, Forget, End, Gone, Reset
  <2> QED BY <1>2, <2>1 DEF Nodes
<1>6. CASE UNCHANGED parsed
  BY <1>1, <1>6 DEF Nodes
<1> QED BY <1>3, <1>4, <1>5, <1>6, Frames


LEMMA VolumeStep ==
    ASSUME IInv, JInv, [Next]_vars  PROVE Volume'
<1>1. player.volume \in 0..100 /\ PlayerOK(player)
  BY DEF IInv, JInv, Volume
<1>2. PICK F, V : player \in [state : {"Stop", "Play"}, file : F,
                             mode : P!Modes \cup {None}, volume : V]
  BY <1>1 DEF PlayerOK
<1>3. P!Stopped(player).volume = player.volume
  BY <1>2 DEF P!Stopped
<1>4. CASE End \/ Gone
  BY <1>4 DEF End, Gone, Reset, P!NewPlayer, Volume
<1>5. CASE Playback \/ DestroyPlayer
  <2>1. player' = P!Stopped(player)
    BY <1>5 DEF Playback, PlaybackEnds, DestroyPlayer, P!Stop, P!Outcome
  <2> QED BY <1>1, <1>3, <2>1 DEF Volume
<1>6. CASE UNCHANGED player
  BY <1>1, <1>6 DEF Volume
<1>7. CASE Handle
  <2>1. CASE HandlePlay
    <3>1. CASE UNCHANGED player  BY <1>1, <3>1 DEF Volume
    <3>2. ASSUME NEW f, NEW m, player' = P!Play(player, f, m, ramFiles).player
          PROVE  player'.volume = player.volume
      <4>1. player.state # "Pause"
        BY <1>2
      <4>2. player' \in {P!Stopped(player), P!Playing(player, f, m)}
        BY <3>2, <4>1 DEF P!Play, P!Outcome
      <4>3. P!Playing(player, f, m).volume = player.volume
        BY <1>2 DEF P!Playing
      <4> QED BY <1>3, <4>2, <4>3
    <3>3. \/ UNCHANGED player
          \/ \E f, m : player' = P!Play(player, f, m, ramFiles).player
      BY <2>1 DEF HandlePlay
    <3> QED BY <1>1, <3>1, <3>2, <3>3 DEF Volume
  <2>2. CASE HandleStop \/ HandleReset
    <3>1. player' = P!Stopped(player)
      BY <2>2 DEF HandleStop, HandleReset, P!Stop, P!Outcome
    <3> QED BY <1>1, <1>3, <3>1 DEF Volume
  <2>3. CASE HandleVolume
    <3> DEFINE v == Atoi(Text(1)) % 2^16
    <3>1. v \in Nat
      <4>1. Atoi(Text(1)) \in Int
        BY AtoiType
      <4>2. 2^16 = 65536
        OBVIOUS
      <4> QED BY <4>1, <4>2
    <3>2. player' = P!SetVolume(player, v).player
      BY <2>3 DEF HandleVolume
    <3> HIDE DEF v
    <3>3. CASE v <= 100
      <4>1. player' = [player EXCEPT !.volume = v]
        BY <3>2, <3>3 DEF P!SetVolume, P!Outcome
      <4>2. player'.volume = v
        BY <1>2, <4>1
      <4> QED BY <3>1, <3>3, <4>2 DEF Volume
    <3>4. CASE ~(v <= 100)
      BY <1>1, <3>2, <3>4 DEF P!SetVolume, P!Outcome, Volume
    <3> QED BY <3>3, <3>4
  <2>4. CASE HandleUnknown \/ HandleSetTime \/ HandleStatus \/ TellState
               \/ HandleSetCfg \/ WriteCfg \/ HandleGetCfg
    <3>1. UNCHANGED player
      BY <2>4 DEF HandleUnknown, HandleSetTime, HandleStatus, TellState,
         HandleSetCfg, WriteCfg, HandleGetCfg
    <3> QED BY <1>6, <3>1
  <2> QED BY <1>7, <2>1, <2>2, <2>3, <2>4 DEF Handle, Handler
<1> QED BY <1>4, <1>5, <1>6, <1>7, Frames

LEMMA PlacedStep ==
    ASSUME JInv, [Next]_vars  PROVE Placed'
<1>0. Placed /\ MaxBacklog \in Nat /\ MaxKills \in Nat
  BY ListenerAssumption DEF JInv
<1>a. ASSUME Reset PROVE /\ handler' = "idle" /\ died' = "none" /\ error' = None
                         /\ stop' \in BOOLEAN /\ reboot' \in BOOLEAN
                         /\ listening' \in BOOLEAN
                         /\ client' = "none" /\ backlog' \in 0..MaxBacklog
  <2>1. /\ handler' = "idle" /\ died' = "none" /\ error' = None /\ stop' = FALSE
        /\ reboot' = FALSE /\ listening' = FALSE /\ client' = "none" /\ backlog' = 0
    BY <1>a, Zenon DEF Reset
  <2>2. 0 \in 0..MaxBacklog
    BY <1>0
  <2> QED BY <2>1, <2>2
<1>1. CASE Watchdog
  BY <1>1, <1>0
  DEF Placed, Watchdog, At, Go, commVars, parserVars, settings, flags,
      serverVars, vars
<1>2. CASE ParseConfig
  BY <1>2, <1>0
  DEF Placed, ParseConfig, At, Go, parserVars, flags, serverVars
<1>3. CASE ConfigurationFailed
  BY <1>3, <1>0
  DEF Placed, ConfigurationFailed, At, Go, commVars, parserVars, settings,
      flags, serverVars
<1>4. CASE Connect
  BY <1>4, <1>0
  DEF Placed, Connect, At, Go, commVars, parserVars, settings, flags
<1>5. CASE Autoplay
  BY <1>5, <1>0
  DEF Placed, Autoplay, At, HandleCommand, settings, flags, Go, commVars,
      parserVars, serverVars
<1>6. CASE AutoplayDone
  BY <1>6, <1>0
  DEF Placed, AutoplayDone, At, Go, Forget, settings, flags, serverVars
<1>7. CASE LoopTest
  BY <1>7, <1>0
  DEF Placed, LoopTest, At, Go, parserVars, settings, flags, serverVars
<1>8. CASE Accept
  BY <1>8, <1>0
  DEF Placed, Accept, At, Go, commVars, parserVars, settings, flags
<1>9. CASE AcceptFails
  BY <1>9, <1>0
  DEF Placed, AcceptFails, At, Go, commVars, parserVars, settings, flags
<1>10. CASE Read
  BY <1>10, <1>0
  DEF Placed, Read, At, HandleCommand, settings, flags, Go
<1>11. CASE ReadFails
  BY <1>11, <1>0
  DEF Placed, ReadFails, At, Go, commVars, parserVars, settings, flags
<1>12. CASE Send
  BY <1>12, <1>0
  DEF Placed, Send, At, Go, Forget, settings, flags
<1>13. CASE Disconnect
  <2>1. 0 \in 0..MaxBacklog
    BY <1>0
  <2> QED BY <1>13, <1>0, <2>1
      DEF Placed, Disconnect, At, Go, commVars, parserVars, settings, flags
<1>14. CASE Boot
  BY <1>14, <1>0
  DEF Placed, Boot, At, Go, parserVars, flags, serverVars
<1>15. CASE Gone
  BY <1>15, <1>a, <1>0
  DEF Placed, Gone, Go
<1>16. CASE ClientConnects
  BY <1>16, <1>0
  DEF Placed, ClientConnects, Running, commVars, parserVars, settings, flags
<1>17. CASE ClientLeaves
  BY <1>17, <1>0
  DEF Placed, ClientLeaves, Running, commVars, parserVars, settings, flags
<1>18. CASE Signal
  BY <1>18, <1>0
  DEF Placed, Signal, Running, parserVars, settings, serverVars
<1>19. CASE Kill
  BY <1>19, <1>0
  DEF Placed, Kill, Running, parserVars, settings, flags, serverVars
<1>20. CASE RamFileLost
  BY <1>20, <1>0
  DEF Placed, RamFileLost, parserVars, flags, serverVars
<1>21. CASE Playback
  BY <1>21, <1>0
  DEF Placed, Playback, PlaybackEnds, parserVars, settings, flags, serverVars
<1>22. CASE Handle
  <2>1. CASE HandleUnknown
    BY <1>22, <2>1, <1>0
    DEF Placed, Handle, Go, serverVars, HandleUnknown, Dispatched, Done,
        parserVars, settings, flags
  <2>2. CASE HandleSetTime
    BY <1>22, <2>2, <1>0
    DEF Placed, Handle, Go, serverVars, HandleSetTime, Dispatched, Done,
        parserVars, settings, flags
  <2>3. CASE HandlePlay
    BY <1>22, <2>3, <1>0
    DEF Placed, Handle, Go, serverVars, HandlePlay, Dispatched, Tell,
        parserVars, settings, flags, Mp3PlayerStatusToError
  <2>4. CASE HandleStop
    BY <1>22, <2>4, <1>0
    DEF Placed, Handle, Go, serverVars, HandleStop, Dispatched, Tell,
        parserVars, settings, flags
  <2>5. CASE HandleVolume
    BY <1>22, <2>5, <1>0
    DEF Placed, Handle, Go, serverVars, HandleVolume, Dispatched, Tell,
        parserVars, settings, flags, Mp3PlayerStatusToError
  <2>6. CASE HandleStatus
    BY <1>22, <2>6, <1>0
    DEF Placed, Handle, Go, serverVars, HandleStatus, Dispatched, Tell,
        parserVars, settings, flags
  <2>7. CASE TellState
    BY <1>22, <2>7, <1>0
    DEF Placed, Handle, Go, serverVars, TellState, Done, parserVars, settings,
        flags
  <2>8. CASE HandleSetCfg
    BY <1>22, <2>8, <1>0
    DEF Placed, Handle, Go, serverVars, HandleSetCfg, Dispatched, Done,
        parserVars, flags
  <2>9. CASE WriteCfg
    BY <1>22, <2>9, <1>0
    DEF Placed, Handle, Go, serverVars, WriteCfg, Done, parserVars, flags
  <2>10. CASE HandleGetCfg
    BY <1>22, <2>10, <1>0
    DEF Placed, Handle, Go, serverVars, HandleGetCfg, Dispatched, Done,
        parserVars, settings, flags
  <2>11. CASE HandleReset
    BY <1>22, <2>11, <1>0
    DEF Placed, Handle, Go, serverVars, HandleReset, Dispatched, Done,
        parserVars, settings
  <2> QED BY <1>22, <2>1, <2>2, <2>3, <2>4, <2>5, <2>6, <2>7, <2>8, <2>9,
      <2>10, <2>11 DEF Handle, Handler
<1>24. CASE DestroyPlayer
  BY <1>24, <1>0
  DEF Placed, DestroyPlayer, At, Go, parserVars, settings, flags, serverVars
<1>25. CASE End
  BY <1>25, <1>a, <1>0 DEF Placed, End, At, Go
<1>26. CASE PlayerHangs
  BY <1>26, <1>0
  DEF Placed, PlayerHangs, At, Go, parserVars, settings, flags, serverVars
<1>23. CASE UNCHANGED vars
  BY <1>23, <1>0
  DEF Placed, vars, commVars, parserVars, settings, flags, serverVars
<1> QED BY <1>1, <1>2, <1>3, <1>4, <1>5, <1>6, <1>7, <1>8, <1>9, <1>10, <1>11,
    <1>12, <1>13, <1>14, <1>15, <1>16, <1>17, <1>18, <1>19, <1>20, <1>21,
    <1>22, <1>23, <1>24, <1>25, <1>26
      DEF Next, Process, Starts, Serves, Ends, Outside


\* What the last read has left: the message, its nodes and its command.
LEMMA ParsingStep ==
    ASSUME IInv, JInv, [Next]_vars  PROVE Origin' /\ Current' /\ AsConfigured'
<1>0. Busy /\ Origin /\ Current /\ AsConfigured /\ Configuration
  BY DEF IInv, JInv
<1>1. CASE Read
  <2>m. PICK m \in Messages \cup {<<>>} :
          message' = m /\ \E p \in Parsed[m] : HandleCommand(p)
    BY <1>1 DEF Read
  <2>1. PICK p \in Parsed[m] : message' = m /\ HandleCommand(p)
    BY <2>m
  <2>2. phase' = "serve"
    BY <1>1 DEF Read, Go
  <2>4. /\ parsed' = p
        /\ \/ died' = "overrun"
           \/ ~p.overrun /\ command' = CommandAfter(p, command)
    BY <2>1 DEF HandleCommand
  <2>5. Origin'
    BY <2>1, <2>4 DEF Origin
  <2>6. Current'
    BY <2>4 DEF Current, CommandAfter
  <2> QED BY <2>2, <2>5, <2>6 DEF AsConfigured
<1>2. CASE AutoplayDone
  BY <1>2 DEF AutoplayDone, Go, Origin, Current, AsConfigured
<1>3. CASE Send
  <2>1. phase' = "test" \/ died' = "pipe"
    BY <1>3 DEF Send, Go
  <2> QED BY <2>1 DEF Origin, Current, AsConfigured
<1>4. CASE End \/ Gone
  <2>1. phase' \in {"boot", "down"}
    BY <1>4 DEF End, Gone, Go
  <2> QED BY <2>1 DEF Origin, Current, AsConfigured
<1>5. CASE Autoplay
  <2>1. phase' \in {"autoplay", "test"} /\ UNCHANGED config
    BY <1>5 DEF Autoplay, At, Go, HandleCommand, settings, commVars
  <2>2. Origin' /\ Current'
    BY <2>1 DEF Origin, Current
  <2>3. CASE Autoplays(config.autoplay)
    <3> DEFINE m == AutoplayMessage(config.autoplay)
    <3>1. \A p \in Parsed[m] :
            /\ ~p.tooMany /\ Verified(p.nodes) = "TCP_PLAY"
            /\ NodeAt(p.nodes, 1) = <<config.autoplay>>
      BY <1>0, <2>3, AutoplayParsed
    <3> HIDE DEF m
    <3>2. PICK p \in Parsed[m] : HandleCommand(p)
      BY <1>5, <2>3 DEF Autoplay, m
    <3>3. parsed' = p /\ (died' = "overrun" \/ command' = "TCP_PLAY")
      BY <3>1, <3>2 DEF HandleCommand, CommandAfter
    <3>4. Text(1)' = <<config.autoplay>>
      BY <3>1, <3>3 DEF Text, NodeAt
    <3> QED BY <2>1, <2>2, <2>3, <3>3, <3>4 DEF AsConfigured, Autoplays
  <2>4. CASE ~Autoplays(config.autoplay)
    <3>1. phase' = "test"
      BY <1>5, <2>4 DEF Autoplay, Go
    <3> QED BY <2>2, <3>1 DEF AsConfigured
  <2> QED BY <2>3, <2>4
<1>6. CASE Connect
  <2>1. phase' = "autoplay" /\ handler' = handler /\ phase = "connect"
    BY <1>6 DEF Connect, At, Go, commVars
  <2>2. handler = "idle"
    BY <1>0, <2>1 DEF Busy
  <2> QED BY <2>1, <2>2 DEF Origin, Current, AsConfigured
<1>7. CASE ParseConfig
  BY <1>7 DEF ParseConfig, Go, Origin, Current, AsConfigured
<1>8. ASSUME UNCHANGED <<parsed, command, message, config>>,
             phase' = "serve" => phase = "serve",
             phase' = "send" => phase \in {"serve", "send"},
             phase' = "autoplay" => phase = "autoplay",
             died' = "none" => died = "none",
             UNCHANGED handler \/ Handle
      PROVE  Origin' /\ Current' /\ AsConfigured'
  <2>1. handler' # "idle" => handler # "idle"
    <3>1. Handle => handler # "idle"
      BY DEF Handle, Handler, HandleUnknown, HandleSetTime, HandlePlay, HandleStop,
         HandleVolume, HandleStatus, TellState, HandleSetCfg, WriteCfg,
         HandleGetCfg, HandleReset, Dispatched
    <3> QED BY <1>8, <3>1
  <2>2. Origin'
    BY <1>0, <1>8 DEF Origin
  <2>3. Current'
    BY <1>0, <1>8, <2>1 DEF Current
  <2>4. Text(1)' = Text(1) /\ Autoplays(config.autoplay)' = Autoplays(config.autoplay)
    BY <1>8 DEF Text, Autoplays, NodeAt
  <2>5. AsConfigured'
    BY <1>0, <1>8, <2>1, <2>4 DEF AsConfigured
  <2> QED BY <2>2, <2>3, <2>5
<1> QED BY <1>1, <1>2, <1>3, <1>4, <1>5, <1>6, <1>7, <1>8, Frames

\* What a handler has written is there when it is answered.
LEMMA StoringStep ==
    ASSUME IInv, JInv, [Next]_vars  PROVE Writing' /\ Kept'
<1>0. Busy /\ Origin /\ Current /\ AsConfigured /\ Writing /\ Kept
  BY DEF IInv, JInv
<1>1. CASE Handle
  <2>1. /\ UNCHANGED parserVars /\ died = "none"
        /\ phase' = IF phase = "serve" /\ handler' = "idle" THEN "send" ELSE phase
    <3>1. UNCHANGED parserVars
      BY <1>1 DEF Handle, Handler, HandleUnknown, HandleSetTime, HandlePlay,
         HandleStop, HandleVolume, HandleStatus, TellState, HandleSetCfg, WriteCfg,
         HandleGetCfg, HandleReset
    <3> QED BY <1>1, <3>1 DEF Handle, Go
  <2>2. UNCHANGED <<parsed, command>> /\ Text(2)' = Text(2)
    BY <2>1 DEF parserVars, Text, NodeAt
  <2>a. ASSUME handler # "idle", command # "TCP_SET_CFG",
               phase' = "send", ~parsed.tooMany
        PROVE  Verified(parsed.nodes) # "TCP_SET_CFG"
    <3>1. phase = "serve"
      BY <1>0, <2>1, <2>a DEF Busy
    <3> QED BY <1>0, <2>1, <2>a, <3>1 DEF Current
  <2>3. CASE WriteCfg
    <3>1. /\ command = "TCP_SET_CFG" /\ handler' = "idle" /\ handler = "write"
          /\ configFile' \in Beginnings(Text(2))
      BY <1>0, <2>3 DEF WriteCfg, Writing, Done
    <3> QED BY <2>2, <3>1 DEF Writing, Kept
  <2>4. CASE HandleSetCfg
    <3>1. /\ command = "TCP_SET_CFG"
          /\ handler' = "write" \/ (handler' = "idle" /\ reply'.error = "NO_FILE")
      <4>1. \/ handler' = "write"
            \/ Done(Reply(command, "NO_FILE", None))
        BY <2>4, Zenon DEF HandleSetCfg
      <4>2. Done(Reply(command, "NO_FILE", None))
              => handler' = "idle" /\ reply'.error = "NO_FILE"
        BY DEF Done, Reply
      <4>3. command = "TCP_SET_CFG"
        BY <2>4 DEF HandleSetCfg, Dispatched
      <4> QED BY <4>1, <4>2, <4>3
    <3>2. Writing'
      BY <2>2, <3>1 DEF Writing
    <3>3. handler' = "write" => phase' # "send"
      BY <1>0, <2>1, <2>4 DEF Busy, HandleSetCfg, Dispatched
    <3> QED BY <3>1, <3>2, <3>3 DEF Kept, Answering
  <2>5. CASE TellState
    <3>1. command # "TCP_SET_CFG" /\ handler' = "idle" /\ handler # "idle"
      BY <1>0, <2>5 DEF TellState, Writing, Done
    <3>2. Writing'
      BY <2>2, <3>1 DEF Writing
    <3>3. Kept'
      <4> SUFFICES ASSUME phase' = "send", ~parsed.tooMany,
                          Verified(parsed.nodes) = "TCP_SET_CFG"
                   PROVE  FALSE
        BY <2>2 DEF Kept, Answering
      <4> QED BY <2>a, <3>1
    <3> QED BY <3>2, <3>3
  <2>6. CASE HandlePlay \/ HandleStop \/ HandleVolume \/ HandleStatus
    <3>1. /\ handler' = "tell" \/ (handler' = "dispatch" /\ handler = "dispatch")
          /\ command # "TCP_SET_CFG" /\ handler = "dispatch"
      BY <2>6 DEF HandlePlay, HandleStop, HandleVolume, HandleStatus, Tell, Dispatched
    <3>2. phase' # "send"
      BY <1>0, <2>1, <3>1 DEF Busy
    <3> QED BY <2>2, <3>1, <3>2 DEF Writing, Kept, Answering
  <2>7. CASE HandleUnknown \/ HandleSetTime \/ HandleGetCfg \/ HandleReset
    <3>1. /\ handler' = "idle" /\ handler # "idle"
          /\ command # "TCP_SET_CFG"
      BY <2>7 DEF HandleUnknown, HandleSetTime, HandleGetCfg, HandleReset, Done,
         Dispatched, TCP_CMD_NUM
    <3>2. Writing'
      BY <2>2, <3>1 DEF Writing
    <3>3. Kept'
      <4> SUFFICES ASSUME phase' = "send", ~parsed.tooMany,
                          Verified(parsed.nodes) = "TCP_SET_CFG"
                   PROVE  FALSE
        BY <2>2 DEF Kept, Answering
      <4> QED BY <2>a, <3>1
    <3> QED BY <3>2, <3>3
  <2> QED BY <1>1, <2>3, <2>4, <2>5, <2>6, <2>7 DEF Handle, Handler
<1>2. CASE End \/ Gone
  <2>1. handler' = "idle" /\ phase' \in {"boot", "down"}
    BY <1>2 DEF End, Gone, Reset, Go
  <2> QED BY <2>1 DEF Writing, Kept, Answering
<1>3. CASE Autoplay
  <2>1. phase' \in {"autoplay", "test"}
    BY <1>3 DEF Autoplay, At, Go
  <2>2. handler' = "dispatch" \/ UNCHANGED <<handler, command>>
    BY <1>3 DEF Autoplay, HandleCommand, commVars, parserVars
  <2> QED BY <1>0, <2>1, <2>2 DEF Writing, Kept, Answering
<1>4. CASE Read
  <2>1. phase' = "serve" /\ handler' = "dispatch"
    BY <1>4 DEF Read, Go, HandleCommand
  <2> QED BY <2>1 DEF Writing, Kept, Answering
<1>5. CASE AutoplayDone \/ LoopTest
  <2>1. phase' \in {"test", "exit", "accept"} /\ UNCHANGED <<handler, command>>
    BY <1>5 DEF AutoplayDone, LoopTest, Go, parserVars
  <2> QED BY <1>0, <2>1 DEF Writing, Kept, Answering
<1>6. CASE Send
  <2>1. phase' = "test" \/ died' = "pipe"
    BY <1>6 DEF Send, Go
  <2>2. UNCHANGED <<handler, command>>
    BY <1>6 DEF Send
  <2> QED BY <1>0, <2>1, <2>2 DEF Writing, Kept, Answering
<1>7. ASSUME UNCHANGED <<parsed, command, handler, configFile, reply>>,
             phase' = "send" => phase = "send", died' = "none" => died = "none"
      PROVE  Writing' /\ Kept'
  <2>1. Text(2)' = Text(2)
    BY <1>7 DEF Text, NodeAt
  <2> QED BY <1>0, <1>7, <2>1 DEF Writing, Kept, Answering
<1> QED BY <1>1, <1>2, <1>3, <1>4, <1>5, <1>6, <1>7, Frames

LEMMA ThrowStep ==
    ASSUME IInv, JInv, [Next]_vars  PROVE OnlyCommandsThrow'
<1>0. OnlyCommandsThrow /\ Busy /\ AsConfigured /\ Configuration /\ Writing
  BY DEF IInv, JInv
<1>1. CASE died' = "out_of_range" /\ Handle /\ died # "out_of_range"
  <2>1. HandlePlay
    BY <1>1 DEF Handle, Handler, HandleUnknown, HandleSetTime, HandleStop,
       HandleVolume, HandleStatus, TellState, HandleSetCfg, WriteCfg, HandleGetCfg,
       HandleReset
  <2>2. /\ handler = "dispatch" /\ command = "TCP_PLAY"
        /\ Atoi(Text(1)) \notin DOMAIN config.sounds
        /\ handler' = handler /\ UNCHANGED <<parsed, command, config>>
    BY <1>1, <2>1 DEF HandlePlay, Dispatched, parserVars, settings, Tell
  <2>3. phase' = phase /\ died = "none" /\ phase \in {"autoplay", "serve"}
    BY <1>0, <1>1, <2>2 DEF Handle, Go, Busy
  <2>4. Text(1)' = Text(1)
    BY <2>2 DEF Text, NodeAt
  <2>5. DOMAIN config.sounds = 1..Len(config.sounds)
    BY <1>0 DEF Configuration
  <2>6. phase = "serve"
    <3> SUFFICES ASSUME phase = "autoplay" PROVE FALSE
      BY <2>3
    <3>1. Autoplays(config.autoplay) /\ Text(1) = <<config.autoplay>>
      BY <1>0, <2>2, <2>3 DEF AsConfigured
    <3>2. Atoi(Text(1)) \in 1..Len(config.sounds)
      BY <3>1 DEF Autoplays
    <3> QED BY <2>2, <2>5, <3>2
  <2> QED BY <2>2, <2>3, <2>4, <2>5, <2>6 DEF OnlyCommandsThrow
<1>2. CASE died = "out_of_range" /\ died' = "out_of_range"
  <2>1. UNCHANGED <<phase, command, parsed, config>>
    BY <1>2 DEF Next, Process, Starts, Serves, Ends, Outside, vars, commVars,
       parserVars, settings, Watchdog, ParseConfig, ConfigurationFailed, Connect,
       Autoplay, AutoplayDone, LoopTest, Accept, AcceptFails, Read, ReadFails,
       Handle, Send, Disconnect, DestroyPlayer, End, Boot, Gone, Reset,
       ClientConnects, ClientLeaves, Signal, Kill, RamFileLost, Playback,
       PlayerHangs, At, Running
  <2>2. Text(1)' = Text(1)
    BY <2>1 DEF Text, NodeAt
  <2> QED BY <1>0, <1>2, <2>1, <2>2 DEF OnlyCommandsThrow
<1>3. CASE died' # "out_of_range"
  BY <1>3 DEF OnlyCommandsThrow
<1> QED BY <1>1, <1>2, <1>3, Frames

LEMMA JStart == Init => JInv
<1> SUFFICES ASSUME Init PROVE JInv
  OBVIOUS
<1>1. /\ phase = "down" /\ handler = "idle" /\ died = "none" /\ error = None
      /\ ramFiles = {} /\ listening = FALSE /\ stop = FALSE /\ reboot = FALSE
      /\ client = "none" /\ backlog = 0 /\ kills = 0 /\ player = P!NewPlayer
      /\ config = DefaultConfig /\ parsed = Begin
  BY Zenon DEF Init
<1>2. Placed
  <2>1. 0 \in 0..MaxBacklog /\ 0 \in 0..MaxKills
    BY ListenerAssumption
  <2>2. stop \in BOOLEAN /\ reboot \in BOOLEAN /\ listening \in BOOLEAN
    BY <1>1
  <2> QED BY <1>1, <2>1, <2>2 DEF Placed
<1>3. Configuration
  <2>1. DefaultConfig \in [sounds : Seq(Texts \cup {NoFile}), autoplay : Texts]
        /\ DefaultConfig.sounds = <<>>
    <3>1. \A T : <<>> \in Seq(T)
      BY EmptySeq
    <3>2. "0" \in Texts
      BY DEF Texts
    <3> QED BY <3>1, <3>2 DEF DefaultConfig
  <2> QED BY <1>1, <2>1, Zenon DEF Configuration
<1>4. Volume /\ Nodes
  BY <1>1 DEF Volume, Nodes, P!NewPlayer, Begin, MSG_MAX_NODES
<1>5. Origin /\ Current /\ AsConfigured /\ Writing /\ Kept /\ OnlyCommandsThrow
  BY <1>1 DEF Origin, Current, AsConfigured, Writing, Kept, OnlyCommandsThrow, Answering
<1> QED BY <1>2, <1>3, <1>4, <1>5 DEF JInv

-----------------------------------------------------------------------------
(* What the nodes of a message mean.                                       *)

\* A message that was read, and what its command and configuration are.
LEMMA ReadMessage ==
    ASSUME Origin, phase \in {"serve", "send"}, died = "none"
    PROVE  /\ message \in Seq(Texts) /\ Reading(message, parsed)
           /\ ~parsed.tooMany => Verified(parsed.nodes) = Meant(message)
           /\ parsed.tooMany => Meant(message) = TCP_CMD_NUM
           /\ parsed.tooMany => GivesUp(message)
<1>1. /\ message \in Messages \cup {<<>>}
      /\ parsed \in Parsed[message] /\ ~parsed.overrun
  BY DEF Origin
<1>2. message \in Seq(Texts) /\ Reading(message, parsed)
  BY <1>1, InputParsed
<1> QED BY <1>1, <1>2, ReadAsMeant

\* An empty file is a beginning of every text.
LEMMA EmptyBeginning ==
    ASSUME NEW n \in Int, NEW t, t = [i \in 1..n |-> t[i]]
    PROVE  <<>> \in Beginnings(t)
<1>1. t \in Seq({t[i] : i \in 1..n}) /\ Len(t) \in Nat
  <2> DEFINE T == {t[i] : i \in 1..n}
  <2>1. CASE n \in Nat
    <3>1. t \in [1..n -> T]
      OBVIOUS
    <3> HIDE DEF T
    <3> QED BY <2>1, <3>1, FunctionIsSeq
  <2>2. CASE n \notin Nat
    <3>1. 1..n = {} /\ 1..0 = {}
      BY <2>2
    <3>2. t \in [1..0 -> T]
      BY <3>1
    <3> HIDE DEF T
    <3> QED BY <3>2, 0 \in Nat, FunctionIsSeq
  <2> QED BY <2>1, <2>2
<1>2. SubSeq(t, 1, 0) = <<>>
  BY <1>1
<1>3. 0 \in 0..Len(t)
  <2>1. \A l \in Nat : 0 \in 0..l
    OBVIOUS
  <2> QED BY <1>1, <2>1, Zenon
<1> QED BY <1>2, <1>3 DEF Beginnings

EndsUpTo(m, e) == {i \in LineEnds(m) : i <= e}

\* The text a TCP_SET_CFG message holds, by its line ends, is its third node.
LEMMA ConfigSentRead ==
    ASSUME message \in Seq(Texts), Meant(message) = "TCP_SET_CFG",
           Reading(message, parsed)
    PROVE  Text(2) = ConfigSent /\ <<>> \in Beginnings(ConfigSent)
<1> DEFINE m == message
<1>0. PICK stray \in Texts : parsed = Parse(m, stray)
  BY DEF Reading
<1>1. /\ m[1] = "TCP_SET_CFG" /\ m[2] = "NL"
      /\ \E b : /\ SetCfgUpTo(m, b)
                /\ NodeAt(Parse(m, stray).nodes, 2) =
                     [i \in 1..Atoi(Between(m, 2, b)) |-> Word(m[b + i])]
  BY MarksAreTexts, ConfigRead, Zenon
<1>2. PICK b : /\ SetCfgUpTo(m, b)
               /\ NodeAt(Parse(m, stray).nodes, 2) =
                    [i \in 1..Atoi(Between(m, 2, b)) |-> Word(m[b + i])]
  BY <1>1
<1>3. b \in 3..Len(m) /\ m[b] = "NL" /\ NoEnd(m, 2, b) /\ Len(m) \in Nat
  <2>1. b \in 3..Len(m) /\ m[b] = "NL" /\ NoEnd(m, 2, b)
    BY <1>2, Zenon DEF SetCfgUpTo
  <2> QED BY <2>1
<1> HIDE DEF m
<1>4. 2 \in LineEnds(m) /\ b \in LineEnds(m) /\ 1 \notin LineEnds(m)
  BY <1>1, <1>3 DEF LineEnds
<1>5. \A j \in LineEnds(m) : j \in Nat /\ (j = 2 \/ j >= b)
  <2> TAKE j \in LineEnds(m)
  <2>1. j \in 1..Len(m) /\ m[j] = "NL" /\ j # 1
    BY <1>4 DEF LineEnds
  <2>2. ~(j \in 2 + 1..b - 1)
    BY <1>3, <2>1 DEF NoEnd
  <2> QED BY <1>3, <2>1, <2>2
<1>6. EndsUpTo(m, b) = {2, b} /\ EndsUpTo(m, 2) = {2} /\ 2 # b
  <2>1. b \in Nat /\ b > 2
    BY <1>3
  <2>2. \A j \in LineEnds(m) : j <= b <=> j \in {2, b}
    BY <1>5, <2>1
  <2>3. \A j \in LineEnds(m) : j <= 2 <=> j = 2
    BY <1>5, <2>1
  <2>4. EndsUpTo(m, b) = {2, b}
    BY <1>4, <2>2 DEF EndsUpTo
  <2>5. EndsUpTo(m, 2) = {2}
    BY <1>4, <2>3 DEF EndsUpTo
  <2> QED BY <2>1, <2>4, <2>5
<1>u. /\ \A e : EndsUpTo(m, e) \subseteq LineEnds(m)
      /\ \A e : \A i \in LineEnds(m) : i <= e => i \in EndsUpTo(m, e)
  BY DEF EndsUpTo
<1>7. Cardinality({2, b}) = 2 /\ Cardinality({2}) = 1
  <2>1. IsFiniteSet({2}) /\ Cardinality({2}) = 1
    BY FS_Singleton
  <2>2. {2, b} = {2} \cup {b} /\ b \notin {2}
    BY <1>6
  <2>3. Cardinality({2} \cup {b}) = 1 + 1
    BY <2>1, <2>2, FS_AddElement
  <2>4. Cardinality({2, b}) = 1 + 1
    BY <2>2, <2>3, Zenon
  <2>5. 1 + 1 = 2
    OBVIOUS
  <2> QED BY <2>1, <2>4, <2>5, Zenon
<1>8. ASSUME NEW e \in LineEnds(m), Cardinality(EndsUpTo(m, e)) = 2
      PROVE  e = b
  <2>1. e \in Nat /\ (e = 2 \/ e >= b)
    BY <1>5
  <2>2. e # 2
    <3> SUFFICES ASSUME e = 2 PROVE FALSE
      OBVIOUS
    <3>1. Cardinality(EndsUpTo(m, 2)) = 2
      BY <1>8
    <3>2. Cardinality({2}) = 2
      BY <1>6, <3>1, Zenon
    <3> QED BY <1>7, <3>2
  <2>3. ASSUME e > b PROVE FALSE
    <3>1. {2, b} \cup {e} \subseteq EndsUpTo(m, e) /\ e \notin {2, b}
      <4>1. b \in Nat /\ b > 2 /\ 2 <= e /\ b <= e /\ e <= e /\ e # 2 /\ e # b
        BY <1>3, <2>1, <2>3
      <4> QED BY <1>4, <1>8, <1>u, <4>1
    <3>2. IsFiniteSet({2, b}) /\ IsFiniteSet({2, b} \cup {e})
      <4>1. IsFiniteSet({2, b})
        <5>1. IsFiniteSet({2}) /\ {2, b} = {2} \cup {b}
          BY FS_Singleton
        <5> QED BY <5>1, FS_AddElement
      <4> QED BY <4>1, FS_AddElement
    <3>3. Cardinality({2, b} \cup {e}) = 3
      <4> DEFINE S == {2, b}
      <4>1. e \notin S /\ IsFiniteSet(S) /\ Cardinality(S) = 2
        BY <1>7, <3>1, <3>2
      <4> HIDE DEF S
      <4>2. Cardinality(S \cup {e}) = 3
        <5>1. Cardinality(S \cup {e}) = Cardinality(S) + 1
          BY <4>1, FS_AddElement
        <5>2. Cardinality(S) + 1 = 3
          BY <4>1
        <5> QED BY <5>1, <5>2, Zenon
      <4> QED BY <4>2 DEF S
    <3>4. IsFiniteSet(EndsUpTo(m, e))
      <4>1. EndsUpTo(m, e) \subseteq 1..Len(m)
        BY <1>u DEF LineEnds
      <4>2. IsFiniteSet(1..Len(m))
        BY <1>3, FS_Interval
      <4> QED BY <4>1, <4>2, FS_Subset
    <3>5. Cardinality({2, b} \cup {e}) <= Cardinality(EndsUpTo(m, e))
      BY <3>1, <3>4, FS_Subset, Zenon
    <3>6. 3 <= Cardinality(EndsUpTo(m, e))
      BY <3>3, <3>5
    <3> QED BY <1>8, <3>6
  <2> QED BY <1>3, <2>1, <2>2, <2>3
<1> DEFINE second == CHOOSE e \in LineEnds(m) : Cardinality(EndsUpTo(m, e)) = 2
<1>9. second = b
  <2>1. \E e \in LineEnds(m) : Cardinality(EndsUpTo(m, e)) = 2
    BY <1>4, <1>6, <1>7
  <2>2. second \in LineEnds(m) /\ Cardinality(EndsUpTo(m, second)) = 2
    BY <2>1, Zenon
  <2> QED BY <1>8, <2>2
<1>10. SubSeq(m, 3, b - 1) = Between(m, 2, b)
  BY <1>3, LineText DEF m
<1>11. ConfigSent = [i \in 1..Atoi(SubSeq(m, 3, second - 1)) |->
                       IF m[second + i] = "CR" THEN "NL" ELSE m[second + i]]
  BY Zenon DEF ConfigSent, m, EndsUpTo
<1> HIDE DEF second
<1>12. ConfigSent = [i \in 1..Atoi(Between(m, 2, b)) |-> Word(m[b + i])]
  BY <1>9, <1>10, <1>11 DEF Word
<1>13. <<>> \in Beginnings(ConfigSent)
  BY <1>12, AtoiType, EmptyBeginning
<1> QED BY <1>0, <1>2, <1>12, <1>13 DEF Text, m

-----------------------------------------------------------------------------
(* The theorems.                                                           *)

LEMMA JInductive == Spec => [](IInv /\ JInv)
<1>1. Init => IInv /\ JInv
  BY Start, JStart
<1>2. IInv /\ JInv /\ [Next]_vars => (IInv /\ JInv)'
  <2> SUFFICES ASSUME IInv, JInv, [Next]_vars PROVE IInv' /\ JInv'
    OBVIOUS
  <2>1. IInv'
    BY SocketStep, BusyStep, PlayerStep, CommandStep, WayOutStep, TellingStep,
       OutcomeStep DEF IInv
  <2>2. JInv'
    BY PlacedStep, ConfigurationStep, VolumeStep, NodesStep, ParsingStep,
       StoringStep, ThrowStep DEF JInv
  <2> QED BY <2>1, <2>2
<1> QED BY <1>1, <1>2, PTL DEF Spec

\* Every variable keeps to its values, whatever is sent, signalled or crashes:
\* never more nodes than msg_nodes_m has, no volume above 100.
THEOREM TypesKept == Spec => []TypeOK
<1>1. IInv /\ JInv => TypeOK
  BY DEF IInv, JInv, TypeOK, Placed, Volume, Nodes, Commands, PlayerOK
<1> QED BY JInductive, <1>1, PTL

\* The command a message is served with is the one its lines are; the command of
\* the message before if, and only if, the parser gives up on it.
THEOREM CommandIsTheOneSent == Spec => RunsTheCommandSent
<1> DEFINE Rest(m) == IF GivesUp(m) THEN command ELSE Meant(m)
<1>1. [Next]_vars =>
        [phase = "read" /\ phase' = "serve" /\ died' = "none" =>
           command' = Rest(message')]_vars
  <2> SUFFICES ASSUME [Next]_vars, phase = "read", phase' = "serve",
                      died' = "none"
               PROVE  command' = Rest(message')
    OBVIOUS
  <2>1. Read
    BY Frames
  <2>m. PICK m \in Messages \cup {<<>>} :
          message' = m /\ \E p \in Parsed[m] : HandleCommand(p)
    BY <2>1 DEF Read
  <2>2. PICK p \in Parsed[m] : message' = m /\ HandleCommand(p)
    BY <2>m
  <2>3. died = "none"
    BY <2>1 DEF Read, At
  <2>4. ~p.overrun /\ command' = CommandAfter(p, command)
    BY <2>2 DEF HandleCommand
  <2>5. /\ ~p.tooMany => Verified(p.nodes) = Meant(m)
        /\ p.tooMany => GivesUp(m)
        /\ GivesUp(m) => p.tooMany
    <3>1. m \in Seq(Texts) /\ Reading(m, p)
      BY InputParsed
    <3> QED BY <2>4, <3>1, ReadAsMeant
  <2>6. CASE GivesUp(m)
    BY <2>2, <2>4, <2>5, <2>6 DEF CommandAfter
  <2>7. CASE ~GivesUp(m)
    BY <2>2, <2>4, <2>5, <2>7 DEF CommandAfter
  <2> QED BY <2>6, <2>7
<1> QED BY <1>1, PTL DEF Spec, RunsTheCommandSent

\* When a TCP_SET_CFG is answered OK the file holds the text of the message, or
\* on a full disk a beginning of it.
THEOREM AnsweredIsWritten == Spec => []OkMeansWritten
<1>1. IInv /\ JInv => OkMeansWritten
  <2> SUFFICES ASSUME JInv, Answering, Meant(message) = "TCP_SET_CFG",
                      reply.error = "OK"
               PROVE  configFile \in Beginnings(ConfigSent)
    BY DEF OkMeansWritten
  <2>1. Origin /\ Kept /\ phase = "send" /\ died = "none"
    BY DEF JInv, Answering
  <2>2. /\ message \in Seq(Texts) /\ Reading(message, parsed)
        /\ ~parsed.tooMany => Verified(parsed.nodes) = Meant(message)
        /\ parsed.tooMany => Meant(message) = TCP_CMD_NUM
    BY <2>1, ReadMessage
  <2>3. ~parsed.tooMany /\ Verified(parsed.nodes) = "TCP_SET_CFG"
    BY <2>2 DEF TCP_CMD_NUM
  <2>4. configFile \in Beginnings(Text(2))
    BY <2>1, <2>3 DEF Kept
  <2> QED BY <2>2, <2>4, ConfigSentRead
<1> QED BY JInductive, <1>1, PTL

\* vector::at throws for a TCP_PLAY of a client only, whatever number the
\* configuration has for autoplay.
THEOREM OnlyClientsThrow == Spec => []OnlyCommandsThrow
<1>1. IInv /\ JInv => OnlyCommandsThrow
  BY DEF JInv
<1> QED BY JInductive, <1>1, PTL

\* The configuration file changes only while a TCP_SET_CFG is served: to nothing
\* and then to what is written of the text that was sent; only a message the
\* parser gives up on leaves open what it is.
THEOREM ConfigFileChanges == Spec => ConfigFileOnlyBySetCfg
<1> DEFINE Stores == /\ phase = "serve" /\ command = "TCP_SET_CFG"
                     /\ \/ GivesUp(message)
                        \/ /\ Meant(message) = "TCP_SET_CFG"
                           /\ configFile' \in Beginnings(ConfigSent)
<1>1. IInv /\ JInv /\ [Next]_vars =>
        [configFile' # configFile => Stores]_vars
  <2> SUFFICES ASSUME IInv, JInv, [Next]_vars, configFile' # configFile
               PROVE  Stores
    OBVIOUS
  <2>1. Handle
    BY Frames
  <2>2. /\ handler \in {"dispatch", "write"} /\ died = "none"
        /\ command = "TCP_SET_CFG"
        /\ configFile' = <<>> \/ configFile' \in Beginnings(Text(2))
    <3>1. HandleSetCfg \/ WriteCfg
      BY <2>1 DEF Handle, Handler, HandleUnknown, HandleSetTime, HandlePlay,
         HandleStop, HandleVolume, HandleStatus, TellState, HandleGetCfg,
         HandleReset, settings
    <3> QED BY <2>1, <3>1 DEF Handle, HandleSetCfg, WriteCfg, Dispatched, JInv,
               Writing
  <2>3. phase = "serve"
    BY <2>2 DEF IInv, JInv, Busy, AsConfigured
  <2>4. Origin /\ (Verified(parsed.nodes) = "TCP_SET_CFG" \/ parsed.tooMany)
    BY <2>2, <2>3 DEF JInv, Current
  <2>5. /\ message \in Seq(Texts) /\ Reading(message, parsed)
        /\ ~parsed.tooMany => Verified(parsed.nodes) = Meant(message)
        /\ parsed.tooMany => GivesUp(message)
    BY <2>2, <2>3, <2>4, ReadMessage
  <2>6. CASE parsed.tooMany
    BY <2>2, <2>3, <2>5, <2>6
  <2>7. CASE ~parsed.tooMany
    <3>1. Meant(message) = "TCP_SET_CFG"
      BY <2>4, <2>5, <2>7
    <3>2. Text(2) = ConfigSent /\ <<>> \in Beginnings(ConfigSent)
      BY <2>5, <3>1, ConfigSentRead
    <3> QED BY <2>2, <2>3, <3>1, <3>2
  <2> QED BY <2>6, <2>7
<1> QED BY JInductive, <1>1, PTL DEF Spec, ConfigFileOnlyBySetCfg
=============================================================================
