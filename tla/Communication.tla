---------------------------- MODULE Communication ----------------------------
(***************************************************************************)
(* The command handlers (src/communication/communication) with what they   *)
(* act on: the player, the configuration of config_manager and the         *)
(* configuration file.  A reply names the command, the error and, where    *)
(* the handler prints it, the state of the player; the time is left out.   *)
(*                                                                         *)
(* What is one step.  The player goes on by itself between two calls that  *)
(* a handler makes of it, so reading its state for the reply (TellState)   *)
(* is a step of its own; so are opening the configuration file, which      *)
(* empties it, and closing it, which writes it.                            *)
(***************************************************************************)
EXTENDS MsgParser

CONSTANTS
    None,       \* no file, no mode, no command, no reply
    NoFile      \* "", the name of a sound that could not be decoded

P == INSTANCE PlayerCalls

VARIABLES
    handler,    \* where handleCommand is: idle, dispatch, write, tell
    parsed,     \* the parser at the end of ParseMsg
    command,    \* command_m
    error,      \* error_code of the handler
    reply,      \* replyMsg
    player,     \* mp3_player_m
    config,     \* configuration_m: sound_files and autoplay
    ramFiles,   \* the files in ram_g that exist and decode
    configFile, \* what config_file_g holds
    stop,       \* stop_proccess_g
    reboot,     \* reboot_system_g
    died        \* what killed the process: none, out_of_range, overrun, pipe,
                \* killed; hung: main waits in the player for ever

parserVars == <<parsed, command>>
settings   == <<config, ramFiles, configFile>>
flags      == <<stop, reboot>>
commVars == <<handler, parserVars, error, reply, player, settings, flags,
              died>>

\* default_configuration_m.
DefaultConfig == [sounds |-> <<>>, autoplay |-> "0"]

UNKNOWN_COMMAND == "UNKNOWN_COMMAND"
Reply(c, e, s)  == [command |-> c, error |-> e, state |-> s]

ASSUME NoneAssumption ==
    None \notin [command : TcpCommands, error : {"OK"}, state : {None}]

\* A handler that is done; the reply is complete.
Done(r) == handler' = "idle" /\ reply' = r

\* A handler that prints GetStateStr next.
Tell(e) == handler' = "tell" /\ error' = e /\ UNCHANGED reply

Text(i) == NodeAt(parsed.nodes, i)

Mp3PlayerStatusToError(status) ==
    IF status = "SUCCESS"              THEN "OK"
    ELSE IF status = "FILE_NOT_FOUND"  THEN "NO_FILE"
    ELSE IF status = "WRONG_PLAY_MODE" THEN "PLAY_MODE_ERROR"
    ELSE "WRONG_VOLUME"

-----------------------------------------------------------------------------
\* A message arrives that the parser makes p of; command_m is whatever the
\* parser holds afterwards.  The process dies of an endless copy, and may die
\* of a read far outside the buffer.
HandleCommand(p) ==
    /\ handler' = "dispatch"
    /\ parsed' = p
    /\ \/ /\ ~p.overrun
          /\ command' = CommandAfter(p, command) /\ UNCHANGED died
       \/ /\ p.overrun \/ p.astray
          /\ died' = "overrun" /\ UNCHANGED command
    /\ UNCHANGED <<error, reply, player, settings, flags>>

Dispatched(c) == handler = "dispatch" /\ command = c

HandleUnknown ==
    /\ Dispatched(TCP_CMD_NUM)
    /\ Done(Reply(UNKNOWN_COMMAND, None, None))
    /\ UNCHANGED <<parserVars, error, player, settings, flags, died>>

\* utils::SetTime is refused for a malformed time or by the system.
HandleSetTime ==
    /\ Dispatched("TCP_SET_TIME")
    /\ \E e \in {"OK", "SET_TIME_ERROR"} : Done(Reply(command, e, None))
    /\ UNCHANGED <<parserVars, error, player, settings, flags, died>>

\* file_num < 1 && (size_t) file_num > size: a negative number, as size_t.
FileNumRefused(n) == n < 0

PlayModeOf(node) == IF node = <<"ONCE">>         THEN "ONCE"
                    ELSE IF node = <<"IN_LOOP">> THEN "IN_LOOP"
                    ELSE "PLAY_MODE_MAX"

\* sound_files.at throws for a number that is neither refused nor in range,
\* and nothing catches it.
HandlePlay ==
    /\ Dispatched("TCP_PLAY")
    /\ LET n == Atoi(Text(1)) IN
         \/ /\ FileNumRefused(n)
            /\ Tell("NO_FILE") /\ UNCHANGED <<player, died>>
         \/ /\ ~FileNumRefused(n) /\ n \in DOMAIN config.sounds
            /\ LET played == P!Play(player, config.sounds[n],
                                    PlayModeOf(Text(2)), ramFiles)
               IN  /\ player' = played.player
                   /\ Tell(Mp3PlayerStatusToError(played.reply))
            /\ UNCHANGED died
         \/ /\ ~FileNumRefused(n) /\ n \notin DOMAIN config.sounds
            /\ died' = "out_of_range"
            /\ UNCHANGED <<handler, error, reply, player>>
    /\ UNCHANGED <<parserVars, settings, flags>>

HandleStop ==
    /\ Dispatched("TCP_STOP")
    /\ player' = P!Stop(player).player
    /\ Tell("OK")
    /\ UNCHANGED <<parserVars, settings, flags, died>>

\* SetVolume takes an uint16_t.
HandleVolume ==
    /\ Dispatched("TCP_SET_VOLUME")
    /\ LET set == P!SetVolume(player, Atoi(Text(1)) % 2^16)
       IN  /\ player' = set.player
           /\ Tell(Mp3PlayerStatusToError(set.reply))
    /\ UNCHANGED <<parserVars, settings, flags, died>>

HandleStatus ==
    /\ Dispatched("TCP_STATUS")
    /\ Tell("OK")
    /\ UNCHANGED <<parserVars, player, settings, flags, died>>

\* The reply of the four handlers above.
TellState ==
    /\ handler = "tell"
    /\ Done(Reply(command, error, P!StateOf(player)))
    /\ error' = None
    /\ UNCHANGED <<parserVars, player, settings, flags, died>>

\* Mutant: a file that cannot be opened is not reported.
HandleSetCfgAlwaysOk ==
    /\ Dispatched("TCP_SET_CFG")
    /\ \/ /\ configFile' = <<>>
          /\ handler' = "write" /\ UNCHANGED reply
       \/ /\ Done(Reply(command, "OK", None))
          /\ UNCHANGED configFile
    /\ UNCHANGED <<parserVars, error, player, config, ramFiles, flags, died>>

\* fopen(config_file_g, "wb") empties the file, or fails.
HandleSetCfg ==
    /\ Dispatched("TCP_SET_CFG")
    /\ \/ /\ configFile' = <<>>
          /\ handler' = "write" /\ UNCHANGED reply
       \/ /\ Done(Reply(command, "NO_FILE", None))
          /\ UNCHANGED configFile
    /\ UNCHANGED <<parserVars, error, player, config, ramFiles, flags, died>>

\* What can be left in a file of a text.
Beginnings(text) == {SubSeq(text, 1, k) : k \in 0..Len(text)}

\* fwrite and fclose, neither of them checked: the file holds the configuration
\* of the message, or on a full disk as much of it as was written.
WriteCfg ==
    /\ handler = "write"
    /\ configFile' \in Beginnings(Text(2))
    /\ Done(Reply(command, "OK", None))
    /\ UNCHANGED <<parserVars, error, player, config, ramFiles, flags, died>>

\* GetConfigFromFile zeroes each block it has read before it appends it: the
\* configuration of the reply is always empty.
ConfigFromFile == <<>>

HandleGetCfg ==
    /\ Dispatched("TCP_GET_CFG")
    /\ \/ Done([command |-> command, error |-> "OK", state |-> None,
                config |-> ConfigFromFile])
       \/ Done([command |-> command, error |-> "GET_CFG_ERROR",
                state |-> None, config |-> <<>>])
    /\ UNCHANGED <<parserVars, error, player, settings, flags, died>>

\* Mutant: the player goes on.
HandleResetPlaying ==
    /\ Dispatched("TCP_RESET")
    /\ stop' = TRUE /\ reboot' = TRUE
    /\ Done(Reply(command, "OK", None))
    /\ UNCHANGED <<parserVars, error, player, settings, died>>

\* Mutant: the server loop is not told to end.
HandleResetRunning ==
    /\ Dispatched("TCP_RESET")
    /\ player' = P!Stop(player).player
    /\ reboot' = TRUE
    /\ Done(Reply(command, "OK", None))
    /\ UNCHANGED <<parserVars, error, settings, stop, died>>

\* Stop the player; reboot_callback_m is RebootSystem.
HandleReset ==
    /\ Dispatched("TCP_RESET")
    /\ player' = P!Stop(player).player
    /\ stop' = TRUE /\ reboot' = TRUE
    /\ Done(Reply(command, "OK", None))
    /\ UNCHANGED <<parserVars, error, settings, died>>

\* The handler's next step calls the player.
CallsPlayer ==
    \/ handler = "tell"
    \/ \E c \in {"TCP_STOP", "TCP_SET_VOLUME", "TCP_RESET"} : Dispatched(c)
    \/ Dispatched("TCP_PLAY") /\ Atoi(Text(1)) \in DOMAIN config.sounds

Handler ==
    \/ HandleUnknown \/ HandleSetTime \/ HandlePlay   \/ HandleStop
    \/ HandleVolume  \/ HandleStatus  \/ TellState    \/ HandleSetCfg
    \/ WriteCfg      \/ HandleGetCfg  \/ HandleReset

\* A playback comes to its end.
PlaybackEnds ==
    /\ player.state = "Play"
    /\ player' = P!Stop(player).player
    /\ UNCHANGED <<handler, parserVars, error, reply, settings, flags, died>>
=============================================================================
