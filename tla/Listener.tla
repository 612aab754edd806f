------------------------------ MODULE Listener ------------------------------
(***************************************************************************)
(* The application: main of src/app_rpi_tcp_listener with the TCP server   *)
(* it serves one client at a time with (tcp::Server), the configuration it *)
(* starts from (config::ConfigManager), the handlers of Communication, the *)
(* script that starts it again when it is gone (additional_files), and the *)
(* clients, signals and failures around it.                                *)
(***************************************************************************)
EXTENDS Communication

CONSTANTS
    Messages,   \* what clients send
    ConfigOf,   \* the configuration files that parse: [stream ->
                \* [sounds : Seq(file name), autoplay : word]]
    Stored,     \* the compressed sounds that decode
    MaxBacklog, \* bound on waiting clients, for tcp::MAX_CONNECTIONS
    MaxKills    \* bound on crashes from outside

ASSUME ListenerAssumption ==
    /\ Messages \subseteq Seq(STRING)
    /\ \A s \in DOMAIN ConfigOf :
         ConfigOf[s] \in [sounds : Seq(STRING), autoplay : STRING]
    /\ MaxBacklog \in Nat /\ MaxKills \in Nat
    /\ \A m \in Messages : Len(m) <= BufferSize

VARIABLES
    phase,      \* where main is
    message,    \* cmdMsg
    listening,  \* conn_socket_fd_m is bound and listens
    client,     \* client_socket_fd_m: none, open, left (by the other end)
    backlog,    \* clients waiting to be accepted
    kills

serverVars == <<listening, client, backlog>>
vars == <<commVars, phase, message, serverVars, kills>>

\* What the parser may make of every message there is.
AutoplayMessage(word) ==
    <<"TCP_PLAY", "NL", word, "NL", "ONCE", "NL", "END", "NL">>
Inputs == Messages \cup {<<>>}
            \cup {AutoplayMessage(ConfigOf[s].autoplay) : s \in DOMAIN ConfigOf}
Parsed == [m \in Inputs |-> {Parse(m, stray) : stray \in Strays}]

SoundOf(f) == IF f \in Stored THEN f ELSE NoFile

\* The memory of a process that is gone.
Reset ==
    /\ handler' = "idle" /\ parsed' = Begin /\ command' = TCP_CMD_NUM
    /\ error' = None /\ reply' = None /\ player' = P!NewPlayer
    /\ config' = DefaultConfig /\ stop' = FALSE /\ reboot' = FALSE
    /\ died' = "none" /\ message' = <<>>
    /\ listening' = FALSE /\ client' = "none" /\ backlog' = 0

Init ==
    /\ handler = "idle" /\ parsed = Begin /\ command = TCP_CMD_NUM
    /\ error = None /\ reply = None /\ player = P!NewPlayer
    /\ config = DefaultConfig /\ stop = FALSE /\ reboot = FALSE
    /\ died = "none" /\ message = <<>>
    /\ listening = FALSE /\ client = "none" /\ backlog = 0
    /\ phase = "down" /\ ramFiles = {} /\ kills = 0
    /\ configFile \in DOMAIN ConfigOf

At(p) == phase = p /\ died = "none"
Go(p) == phase' = p

\* The message and its nodes are dead until the next read and parse clear them.
Forget == message' = <<>> /\ parsed' = Begin

-----------------------------------------------------------------------------
(* Starting.                                                               *)

\* The script looks every minute and starts the program if it is gone; one that
\* hangs is not.
Watchdog ==
    \/ /\ At("down") /\ Go("config")
       /\ UNCHANGED <<commVars, message, serverVars, kills>>
    \/ died = "hung" /\ UNCHANGED vars

\* Mutant: a sound that does not decode is a failed configuration.
ParsesComplete(stream) ==
    /\ stream \in DOMAIN ConfigOf
    /\ \A i \in DOMAIN ConfigOf[stream].sounds :
         ConfigOf[stream].sounds[i] \in Stored

\* ParseXml fails only when the document does: what is missing in it, or does
\* not decode, is a warning.
Parses(stream) == stream \in DOMAIN ConfigOf

\* ParseConfigFile decodes the sounds into ram_g.
ParseConfig ==
    /\ At("config") /\ Parses(configFile)
    /\ LET sounds == ConfigOf[configFile].sounds IN
         /\ config' = [ConfigOf[configFile] EXCEPT
                          !.sounds = [i \in DOMAIN sounds |-> SoundOf(sounds[i])]]
         /\ ramFiles' = ramFiles \cup
                {sounds[i] : i \in {j \in DOMAIN sounds : sounds[j] \in Stored}}
    /\ Go("connect")
    /\ UNCHANGED <<handler, parserVars, error, reply, player, configFile,
                   flags, died, message, serverVars, kills>>

ConfigurationFailed ==
    /\ At("config") /\ ~Parses(configFile)
    /\ Go("end")
    /\ UNCHANGED <<commVars, message, serverVars, kills>>

\* Server::Connect; nobody looks at what it returns.
Connect ==
    /\ At("connect")
    /\ listening' \in BOOLEAN
    /\ Go("autoplay")
    /\ UNCHANGED <<commVars, message, client, backlog, kills>>

\* Mutant: the number is not compared with the number of sounds.
AutoplayAnyNumber(word) == Atoi(<<word>>) > 0

Autoplays(word) == Atoi(<<word>>) \in 1..Len(config.sounds)

\* The configured sound is played as a command would play it.
Autoplay ==
    /\ At("autoplay") /\ handler = "idle" /\ reply = None
    /\ LET word == config.autoplay IN
         \/ /\ Autoplays(word)
            /\ \E p \in Parsed[AutoplayMessage(word)] : HandleCommand(p)
            /\ UNCHANGED phase
         \/ /\ ~Autoplays(word)
            /\ Go("test") /\ UNCHANGED commVars
    /\ UNCHANGED <<message, serverVars, kills>>

AutoplayDone ==
    /\ At("autoplay") /\ handler = "idle" /\ reply # None
    /\ Go("test")
    /\ Forget
    /\ UNCHANGED <<handler, command, error, reply, player, settings, flags,
                   died, serverVars, kills>>

-----------------------------------------------------------------------------
(* The server loop.                                                        *)

\* Mutant: only a reboot ends the loop.
LoopTestReboot ==
    /\ At("test")
    /\ IF reboot THEN Go("exit") /\ UNCHANGED reply
       ELSE Go("accept") /\ reply' = Reply(UNKNOWN_COMMAND, None, None)
    /\ UNCHANGED <<handler, parserVars, error, player, settings, flags, died,
                   message, serverVars, kills>>

\* while (!stop_proccess_g), and the default reply of the round.
LoopTest ==
    /\ At("test")
    /\ IF stop THEN Go("exit") /\ UNCHANGED reply
       ELSE Go("accept") /\ reply' = Reply(UNKNOWN_COMMAND, None, None)
    /\ UNCHANGED <<handler, parserVars, error, player, settings, flags, died,
                   message, serverVars, kills>>

Accept ==
    /\ At("accept") /\ listening /\ backlog > 0
    /\ backlog' = backlog - 1 /\ client' = "open"
    /\ Go("read")
    /\ UNCHANGED <<commVars, message, listening, kills>>

\* No listening socket, or the client is gone before it is accepted.
AcceptFails ==
    /\ At("accept")
    /\ \/ ~listening /\ UNCHANGED backlog
       \/ listening /\ backlog > 0 /\ backlog' = backlog - 1
    /\ client' = "none"
    /\ Go("test")
    /\ UNCHANGED <<commVars, message, listening, kills>>

\* One read: a message, or nothing from a client that has closed.
Read ==
    /\ At("read")
    /\ \E m \in Messages \cup {<<>>} :
         /\ message' = m
         /\ client' = IF m = <<>> THEN "left" ELSE client
         /\ \E p \in Parsed[m] : HandleCommand(p)
    /\ Go("serve")
    /\ UNCHANGED <<listening, backlog, kills>>

\* Mutant: the socket stays open after a failed read.
ReadFailsOpen ==
    /\ At("read") /\ Go("test")
    /\ UNCHANGED <<commVars, message, serverVars, kills>>

ReadFails ==
    /\ At("read")
    /\ client' = "none"
    /\ Go("test")
    /\ UNCHANGED <<commVars, message, listening, backlog, kills>>

\* The handlers, for a message or for autoplay.
Handle ==
    /\ died = "none" /\ Handler
    /\ Go(IF phase = "serve" /\ handler' = "idle" THEN "send" ELSE phase)
    /\ UNCHANGED <<message, serverVars, kills>>

\* Server::Send closes the socket whatever write returned; a client that has
\* left may get the process a SIGPIPE.
Send ==
    /\ At("send")
    /\ \/ client' = "none" /\ Go("test") /\ UNCHANGED died
       \/ client = "left" /\ died' = "pipe" /\ UNCHANGED <<client, phase>>
    /\ Forget
    /\ UNCHANGED <<handler, command, error, reply, player, settings, flags,
                   listening, backlog, kills>>

\* server.Disconnect.
Disconnect ==
    /\ At("exit") /\ Go("destroy")
    /\ listening' = FALSE /\ client' = "none" /\ backlog' = 0
    /\ UNCHANGED <<commVars, message, kills>>

\* communication goes out of scope: ~Mp3Player stops the player and joins its
\* threads.
DestroyPlayer ==
    /\ At("destroy") /\ Go("end")
    /\ player' = P!Stop(player).player
    /\ UNCHANGED <<handler, parserVars, error, reply, settings, flags, died,
                   message, serverVars, kills>>

\* A call of a playing player may never return: the circular wait of
\* Mp3Player's NoCvCycle.  It takes a playback before the current one, so the
\* one at the start is safe.
PlayerHangs ==
    /\ \/ At("serve") /\ CallsPlayer
       \/ At("destroy")
    /\ player.state = "Play"
    /\ died' = "hung"
    /\ UNCHANGED <<handler, parserVars, error, reply, player, settings, flags,
                   phase, message, serverVars, kills>>

\* The end of main, with system("reboot") if asked for.
End ==
    /\ At("end")
    /\ Go(IF reboot THEN "boot" ELSE "down")
    /\ Reset
    /\ UNCHANGED <<ramFiles, configFile, kills>>

\* ram_g does not survive a reboot.
Boot ==
    /\ At("boot")
    /\ ramFiles' = {}
    /\ Go("down")
    /\ UNCHANGED <<handler, parserVars, error, reply, player, config,
                   configFile, flags, died, message, serverVars,
                   kills>>

\* A process that died leaves its files behind, and nothing else; it may have
\* been killed by a loss of power.
Gone ==
    /\ died \notin {"none", "hung"}
    /\ \/ Go("down")
       \/ died = "killed" /\ Go("boot")
    /\ Reset
    /\ UNCHANGED <<ramFiles, configFile, kills>>

-----------------------------------------------------------------------------
(* Around the program.                                                     *)

Running == died = "none" /\ phase \notin {"down", "boot"}

ClientConnects ==
    /\ Running /\ listening /\ backlog < MaxBacklog
    /\ backlog' = backlog + 1
    /\ UNCHANGED <<commVars, phase, message, listening, client, kills>>

ClientLeaves ==
    /\ Running /\ client = "open" /\ phase # "read"
    /\ client' = "left"
    /\ UNCHANGED <<commVars, phase, message, listening, backlog, kills>>

\* SIGINT or SIGTERM: accept and read are restarted, only the flag is set.
Signal ==
    /\ Running /\ ~stop
    /\ stop' = TRUE
    /\ UNCHANGED <<handler, parserVars, error, reply, player, settings, reboot,
                   died, phase, message, serverVars, kills>>

Kill ==
    /\ Running \/ died = "hung"
    /\ kills < MaxKills
    /\ kills' = kills + 1
    /\ died' = "killed"
    /\ UNCHANGED <<handler, parserVars, error, reply, player, settings, flags,
                   phase, message, serverVars>>

RamFileLost ==
    /\ \E f \in ramFiles : ramFiles' = ramFiles \ {f}
    /\ UNCHANGED <<handler, parserVars, error, reply, player, config,
                   configFile, flags, died, phase, message,
                   serverVars, kills>>

Playback ==
    /\ died = "none" /\ PlaybackEnds
    /\ UNCHANGED <<phase, message, serverVars, kills>>

-----------------------------------------------------------------------------
Starts  == Watchdog \/ ParseConfig \/ ConfigurationFailed \/ Connect
             \/ Autoplay \/ AutoplayDone
Serves  == LoopTest \/ Accept \/ AcceptFails \/ Read \/ ReadFails
             \/ Handle \/ Send
Ends    == Disconnect \/ DestroyPlayer \/ End \/ Boot \/ Gone
Outside == ClientConnects \/ ClientLeaves \/ Signal \/ Kill \/ RamFileLost
             \/ Playback \/ PlayerHangs

Process == Starts \/ Serves \/ Ends

Next == Process \/ Outside

Spec == Init /\ [][Next]_vars

(* One thread runs main: it takes its next step, whichever that is.  The    *)
(* script keeps looking, and a client that has been accepted sends something *)
(* or closes.  Nobody is obliged to connect, to signal or to crash.        *)
Fairness == WF_vars(Process)

FairSpec == Spec /\ Fairness

-----------------------------------------------------------------------------
(* Properties.                                                             *)

TypeOK ==
    /\ phase \in {"down", "config", "connect", "autoplay", "test", "accept",
                  "read", "serve", "send", "exit", "destroy", "end", "boot"}
    /\ handler \in {"idle", "dispatch", "write", "tell"}
    /\ died \in {"none", "out_of_range", "overrun", "pipe", "killed", "hung"}
    /\ command \in TcpCommands \cup {TCP_CMD_NUM}
    /\ error \in {None, "OK", "NO_FILE", "PLAY_MODE_ERROR", "WRONG_VOLUME"}
    /\ Len(parsed.nodes) <= MSG_MAX_NODES
    /\ player.state \in {"Stop", "Play"} /\ player.volume \in 0..100
    /\ ramFiles \subseteq Stored
    /\ {listening, stop, reboot} \subseteq BOOLEAN
    /\ client \in {"none", "open", "left"}
    /\ backlog \in 0..MaxBacklog /\ kills \in 0..MaxKills

Answering == phase = "send" /\ died = "none"

\* The command that is run is the one the message is, or none; only for a
\* message the parser gives up on it is the one of the message before
\* (msg_parser.cpp:46 leaves command_m alone).
RunsTheCommandSent ==
    [][phase = "read" /\ phase' = "serve" /\ died' = "none" =>
         command' = IF GivesUp(message') THEN command ELSE Meant(message')]_vars

\* The configuration a TCP_SET_CFG message holds, read off its lines.
ConfigSent ==
    LET second == CHOOSE e \in LineEnds(message) :
                      Cardinality({i \in LineEnds(message) : i <= e}) = 2
        size   == Atoi(SubSeq(message, 3, second - 1))
    IN  [i \in 1..size |->
            IF message[second + i] = "CR" THEN "NL" ELSE message[second + i]]

\* The configuration file changes only while a TCP_SET_CFG is served: it is
\* emptied, then it is the text sent, or a beginning of it.  A message the
\* parser gives up on changes it when the one before was a TCP_SET_CFG, whatever
\* it says itself.  No crash, restart or other command does.
ConfigFileOnlyBySetCfg ==
    [][configFile' # configFile =>
         /\ phase = "serve" /\ command = "TCP_SET_CFG"
         /\ \/ GivesUp(message)
            \/ /\ Meant(message) = "TCP_SET_CFG"
               /\ configFile' \in Beginnings(ConfigSent)]_vars

\* A TCP_SET_CFG is answered OK only when the file has been opened and holds
\* what was sent, as far as it was written: of a full disk OK says nothing
\* (communication.cpp:115 does not look).
OkMeansWritten ==
    Answering /\ Meant(message) = "TCP_SET_CFG" /\ reply.error = "OK" =>
        configFile \in Beginnings(ConfigSent)

\* Every way around the server loop closes the socket of its client: accept
\* never overwrites an open one.
NoSocketLeaked == phase \in {"down", "test", "accept", "boot"} => client = "none"

\* The state a reply shows is one the command can have led to: a player that
\* was stopped, or refused a mode, is shown idle; one that was started is shown
\* in the mode asked for, or idle when the sound has ended meanwhile.
ReplyShowsOutcome ==
    Answering /\ reply.state # None =>
        /\ reply.command = "TCP_STOP" => reply.state = "STOPED"
        /\ reply.error = "PLAY_MODE_ERROR" => reply.state = "STOPED"
        /\ reply.command = "TCP_PLAY" /\ reply.error = "OK" =>
             \/ reply.state = "STOPED"
             \/ Text(2) = <<"ONCE">>    /\ reply.state = "PLAY_ONCE"
             \/ Text(2) = <<"IN_LOOP">> /\ reply.state = "PLAY_IN_LOOP"

\* Only a TCP_PLAY of a number that is no sound's makes vector::at throw: the
\* configured autoplay, whatever the file says, never does.
OnlyCommandsThrow ==
    died = "out_of_range" =>
        /\ phase = "serve" /\ command = "TCP_PLAY"
        /\ Atoi(Text(1)) \notin 1..Len(config.sounds)

\* Once TCP_RESET has asked for a reboot the player is silent and no other
\* command is run before the process ends.
RebootIsLast ==
    reboot => stop /\ player.state = "Stop" /\ command = "TCP_RESET"

\* The program comes back: with a configuration file that parses it gets to
\* wait for clients on a socket that listens, whatever became of the sounds and
\* of the autoplay, unless it is told to stop or Connect fails, which nobody
\* looks at (rpi_tcp_listener.cpp:121).
ServesAgain ==
    phase = "down" /\ configFile \in DOMAIN ConfigOf ~>
        \/ phase = "accept" /\ listening
        \/ phase = "autoplay" /\ ~listening
        \/ stop

\* A process told to stop ends, with the help of at most the client it waits
\* for, unless it hangs in the player.
StopIsSeen ==
    stop /\ ~(phase = "accept" /\ listening /\ backlog = 0) ~>
        phase \in {"down", "boot"} \/ died = "hung"

\* A reboot asked for happens, unless the process dies before it ends.
RebootHappens == reboot ~> phase = "boot" \/ died # "none"

\* A message that is no command is answered UNKNOWN_COMMAND
\* (communication_test.cpp:101-117).
NoCommandIsUnknown ==
    Answering /\ Meant(message) = TCP_CMD_NUM => reply.command = UNKNOWN_COMMAND

\* TCP_GET_CFG answers with the content of the configuration file
\* (communication_test.cpp:378-381).
GetCfgAnswersConfig ==
    Answering /\ reply.command = "TCP_GET_CFG" /\ reply.error = "OK" =>
        reply.config = configFile
=============================================================================
