------------------------------ MODULE Mp3Player ------------------------------
(***************************************************************************)
(* The MP3 player (src/mp3/mp3): a State pattern object (Stop, Play and    *)
(* Pause states) called by client threads under state_mutex_m, a play      *)
(* thread that decodes one file (DoPlay) and an auto-stop thread (DoStop)  *)
(* that closes the player once a playback has finished by itself.          *)
(*                                                                         *)
(* What is one step.  A state-pattern method runs under state_mutex_m; up  *)
(* to a join of the play thread, and again after it, nothing it touches is *)
(* shared with a thread that can run, except mh_m in SetVolume, which has  *)
(* its own three steps.  thread_mutex_m is only ever taken inside          *)
(* state_mutex_m and stop_thread_mutex_m guards one assignment, so neither *)
(* needs a variable.                                                       *)
(***************************************************************************)
EXTENDS Naturals

CONSTANTS
    Clients,    \* threads calling the public methods of the player
    Files,      \* file names
    Volumes,    \* arguments of SetVolume
    ThreadIds,  \* values of std::thread::id
    MaxLoops,   \* bound standing for MAX_INFINITE_LOOPS
    None,       \* nullptr, the default std::thread::id, "nobody"
    AutoStopper \* the auto-stop thread as the owner of a mutex

ASSUME FilesAssumption    == None \notin Files
ASSUME ClientsAssumption  == {None, AutoStopper} \cap Clients = {} /\ None # AutoStopper
ASSUME IdsAssumption      == None \notin ThreadIds /\ ThreadIds # {}
ASSUME LoopsAssumption    == MaxLoops \in Nat \ {0}
ASSUME VolumesAssumption  == Volumes \subseteq Nat

VARIABLES
    stateMutex,      \* owner of state_mutex_m, when it is held across steps
    cvMutex,         \* owner of cv_mutex_m, when it is held across steps
    state,           \* class of *state_m
    playFile,        \* play_file_name_m of the Play or Pause state
    playMode,        \* play_mode_m of the Play or Pause state
    handle,          \* mh_m: null, created (nothing open), open, dangling
    handleVolume,    \* volume in effect in the mpg123 handle
    loaded,          \* what SetVolume has loaded of mh_m to call mpg123_volume
                     \* with: none, null, handle, freed
    volume,          \* volume_m
    threadId,        \* play_thread_m.get_id(); None iff ~thread_is_running_m
    reused,          \* history: the play thread was given an id that was still
                     \* in thread_id_to_stop_m
    playPc,          \* where the play thread is in DoPlay
    playsLeft,       \* file_play_max_times - file_played_n_times
    volumeRead,      \* volume_float of OpenPlayer in the play thread
    stopThread,      \* stop_thread_m
    autoPc,          \* where the auto-stop thread is in DoStop
    cvReady,         \* cv_ready_m
    threadIdToStop,  \* thread_id_to_stop_m
    stopAutoStop,    \* stop_auto_stop_thread_m
    pc,              \* where each client is in a call
    call,            \* the call each client is in
    reply,           \* what its last call returned
    files,           \* the files that exist and decode
    crashed          \* the process died of a use of the freed handle

mutexes    == <<stateMutex, cvMutex>>
playerVars == <<state, playFile, playMode>>
handleVars == <<handle, handleVolume, loaded>>
threadVars == <<threadId, reused, playPc, playsLeft, volumeRead, stopThread>>
autoVars   == <<autoPc, cvReady, threadIdToStop, stopAutoStop>>
clientVars == <<pc, call, reply>>
vars == <<mutexes, playerVars, handleVars, volume, threadVars, autoVars,
          clientVars, files, crashed>>

\* A step that leaves the player alone; a step of the play thread.
PlayerFrame == UNCHANGED <<playerVars, handleVars, volume, threadVars>>
ThreadFrame == UNCHANGED <<mutexes, playerVars, volume, threadId, reused,
                           stopThread, autoVars, clientVars, files, crashed>>

-----------------------------------------------------------------------------
FullVolume == 100
Modes      == {"ONCE", "IN_LOOP"}
Calls ==
    [op : {"Play"}, file : Files, mode : Modes \cup {"PLAY_MODE_MAX"}]
      \cup [op : {"SetVolume"}, volume : Volumes]
      \cup [op : {"Pause", "Resume", "Stop", "GetState", "Destroy"}]
ASSUME CallsAssumption == None \notin Calls

Statuses == {"SUCCESS", "FILE_NOT_FOUND", "WRONG_PLAY_MODE", "FAILED"}
States   == {"STOPED", "PLAY_ONCE", "PLAY_IN_LOOP", "PAUSED"}

\* The play thread has left DoPlay: told to stop, unable to reopen the file,
\* or at the end of the file and announced to the auto-stop thread.
Ended == {"stopped", "lost", "finished"}

\* Mutant: no bound on the volume.
AnyVolume(v) == TRUE

ValidVolume(v) == v <= 100
PlaysOf(mode)  == IF mode = "IN_LOOP" THEN MaxLoops ELSE 1

Init ==
    /\ stateMutex = None /\ cvMutex = None
    /\ state = "Stop" /\ playFile = None /\ playMode = None
    /\ handle = "null" /\ handleVolume = FullVolume /\ loaded = "none"
    /\ volume = FullVolume
    /\ threadId = None /\ reused = FALSE /\ playPc = "none" /\ playsLeft = 0
    /\ volumeRead = FullVolume /\ stopThread = FALSE
    /\ autoPc = "lockCv" /\ cvReady = FALSE
    /\ threadIdToStop = None /\ stopAutoStop = FALSE
    /\ pc = [c \in Clients |-> "idle"]
    /\ call = [c \in Clients |-> None]
    /\ reply = [c \in Clients |-> None]
    /\ files \in SUBSET Files
    /\ crashed = FALSE

-----------------------------------------------------------------------------
(* What the state objects are built from.                                  *)

\* Mutant: OpenPlayer leaves the volume of a new handle alone.
OpenPlayerFullVolume(file) ==
    /\ handle' = IF file \in files THEN "open" ELSE "created"
    /\ handleVolume' = FullVolume
    /\ UNCHANGED loaded

\* OpenPlayer on a player without a play thread.
OpenPlayer(file) ==
    /\ \/ file \in files    /\ handle' = "open"    /\ handleVolume' = volume
       \/ file \notin files /\ handle' = "created" /\ handleVolume' = FullVolume
    /\ UNCHANGED loaded

ClosePlayer ==
    handle' = "null" /\ handleVolume' = FullVolume /\ UNCHANGED loaded

\* Nothing keeps a new thread from getting the id of one that has been joined.
RunPlayThread(mode) ==
    /\ threadId' \in ThreadIds
    /\ reused' = (threadId' = threadIdToStop)
    /\ playPc' = "read"
    /\ playsLeft' = PlaysOf(mode)
    /\ stopThread' = FALSE
    /\ UNCHANGED volumeRead

\* Mutant: the thread stays "running" after it has been joined.
JoinKeepsThread ==
    /\ playPc' = "none" /\ playsLeft' = 0
    /\ UNCHANGED <<threadId, reused, volumeRead, stopThread>>

\* The play thread has been joined.
JoinPlayThread ==
    /\ threadId' = None /\ reused' = FALSE /\ playPc' = "none" /\ playsLeft' = 0
    /\ UNCHANGED <<volumeRead, stopThread>>

ToPlayState(file, mode) ==
    state' = "Play" /\ playFile' = file /\ playMode' = mode

\* Mutant: entering the Stop state does not close the player.
ToStopStateOpen ==
    /\ state' = "Stop" /\ playFile' = None /\ playMode' = None
    /\ JoinPlayThread
    /\ UNCHANGED handleVars

\* new PlayerStopState once StopPlayThread has returned.
ToStopState ==
    /\ state' = "Stop" /\ playFile' = None /\ playMode' = None
    /\ ClosePlayer
    /\ JoinPlayThread

\* The method returns s; a destructor goes on with the auto-stop thread.
Return(c, s) ==
    /\ pc' = [pc EXCEPT ![c] =
                IF call[c].op = "Destroy" THEN "dtorCv" ELSE "idle"]
    /\ reply' = [reply EXCEPT ![c] = s]
    /\ call' = [call EXCEPT ![c] = None]

\* Client c runs operation op in a state of class s, with state_mutex_m.
Runs(c, s, ops) ==
    pc[c] = "lock" /\ stateMutex = None /\ state = s /\ call[c].op \in ops

\* Client c runs it again after having joined the play thread.
Joined(c, ops) == pc[c] = "join" /\ playPc \in Ended /\ call[c].op \in ops

-----------------------------------------------------------------------------
(* Clients.                                                                *)

\* A thread calls a public method.  The destructor runs once nobody else is
\* in the player, and nobody calls it afterwards.
Call(c) ==
    /\ pc[c] = "idle"
    /\ \E k \in Calls :
         /\ \A d \in Clients \ {c} :
              /\ k.op = "Destroy" => pc[d] = "idle"
              /\ pc[d] \notin {"dtorCv", "dtorNotify", "dtorJoin", "gone"}
              /\ pc[d] # "idle" => call[d].op # "Destroy"
         /\ call' = [call EXCEPT ![c] = k]
    /\ pc' = [pc EXCEPT ![c] = "lock"]
    /\ reply' = [reply EXCEPT ![c] = None]
    /\ PlayerFrame /\ UNCHANGED <<mutexes, autoVars, files, crashed>>

StopStatePlay(c) ==
    /\ Runs(c, "Stop", {"Play"})
    /\ LET k == call[c] IN
         \/ /\ k.mode \notin Modes
            /\ Return(c, "WRONG_PLAY_MODE")
            /\ UNCHANGED <<playerVars, handleVars, threadVars>>
         \/ /\ k.mode \in Modes
            /\ k.file \notin files
            /\ OpenPlayer(k.file)
            /\ Return(c, "FILE_NOT_FOUND")
            /\ UNCHANGED <<playerVars, threadVars>>
         \/ /\ k.mode \in Modes
            /\ k.file \in files
            /\ OpenPlayer(k.file)
            /\ RunPlayThread(k.mode)
            /\ ToPlayState(k.file, k.mode)
            /\ Return(c, "SUCCESS")
    /\ UNCHANGED <<mutexes, volume, autoVars, files, crashed>>

\* Pause, Resume and Stop of the Stop state; Resume of the Play state; Pause
\* of the Pause state: nothing to do.
NothingToDo(c) ==
    /\ \/ Runs(c, "Stop", {"Pause", "Resume", "Stop", "Destroy"})
       \/ Runs(c, "Play", {"Resume"})
       \/ Runs(c, "Pause", {"Pause"})
    /\ Return(c, "SUCCESS")
    /\ PlayerFrame /\ UNCHANGED <<mutexes, autoVars, files, crashed>>

\* Play, Pause and Stop of the Play state start with StopPlayThread: set
\* stop_thread_m, then wait in join holding state_mutex_m.
StopPlayThread(c) ==
    /\ Runs(c, "Play", {"Play", "Pause", "Stop", "Destroy"})
    /\ stopThread' = TRUE
    /\ stateMutex' = c
    /\ pc' = [pc EXCEPT ![c] = "join"]
    /\ UNCHANGED <<cvMutex, playerVars, handleVars, volume, threadId, reused,
                   playPc, playsLeft, volumeRead, autoVars, call, reply, files,
                   crashed>>

PlayStatePlay(c) ==
    /\ Joined(c, {"Play"})
    /\ LET k == call[c] IN
         \/ /\ k.mode \notin Modes
            /\ ToStopState
            /\ Return(c, "WRONG_PLAY_MODE")
         \/ /\ k.mode \in Modes
            /\ k.file \notin files
            /\ ToStopState
            /\ Return(c, "FILE_NOT_FOUND")
         \/ /\ k.mode \in Modes
            /\ k.file \in files
            /\ OpenPlayer(k.file)
            /\ RunPlayThread(k.mode)
            /\ ToPlayState(k.file, k.mode)
            /\ Return(c, "SUCCESS")
    /\ stateMutex' = None
    /\ UNCHANGED <<cvMutex, volume, autoVars, files, crashed>>

\* Mutant: pausing forgets that the playback was looped.
PlayStatePauseOnce(c) ==
    /\ Joined(c, {"Pause"})
    /\ JoinPlayThread
    /\ state' = "Pause" /\ playMode' = "ONCE"
    /\ Return(c, "SUCCESS")
    /\ stateMutex' = None
    /\ UNCHANGED <<cvMutex, playFile, handleVars, volume, autoVars, files,
                   crashed>>

\* Mutant: pausing closes the player, as stopping does.
PlayStatePauseClosed(c) ==
    /\ Joined(c, {"Pause"})
    /\ JoinPlayThread /\ ClosePlayer
    /\ state' = "Pause"
    /\ Return(c, "SUCCESS")
    /\ stateMutex' = None
    /\ UNCHANGED <<cvMutex, playFile, playMode, volume, autoVars, files,
                   crashed>>

PlayStatePause(c) ==
    /\ Joined(c, {"Pause"})
    /\ JoinPlayThread
    /\ state' = "Pause"
    /\ Return(c, "SUCCESS")
    /\ stateMutex' = None
    /\ UNCHANGED <<cvMutex, playFile, playMode, handleVars, volume, autoVars,
                   files, crashed>>

PlayStateStop(c) ==
    /\ Joined(c, {"Stop", "Destroy"})
    /\ ToStopState
    /\ Return(c, "SUCCESS")
    /\ stateMutex' = None
    /\ UNCHANGED <<cvMutex, volume, autoVars, files, crashed>>

\* Mutant: the player is stopped and SUCCESS returned.
PauseStatePlaySuccess(c) ==
    /\ Runs(c, "Pause", {"Play"})
    /\ ToStopState
    /\ Return(c, "SUCCESS")
    /\ UNCHANGED <<mutexes, volume, autoVars, files, crashed>>

\* Whatever OpenPlayer answers, the block after it stops the player.
PauseStatePlay(c) ==
    /\ Runs(c, "Pause", {"Play"})
    /\ ToStopState
    /\ Return(c, "FILE_NOT_FOUND")
    /\ UNCHANGED <<mutexes, volume, autoVars, files, crashed>>

\* The handle stays as it is: the file is not opened again.
PauseStateResume(c) ==
    /\ Runs(c, "Pause", {"Resume"})
    /\ \/ /\ playFile \in files
          /\ RunPlayThread(playMode)
          /\ ToPlayState(playFile, playMode)
          /\ Return(c, "SUCCESS")
          /\ UNCHANGED handleVars
       \/ /\ playFile \notin files
          /\ ToStopState
          /\ Return(c, "FILE_NOT_FOUND")
    /\ UNCHANGED <<mutexes, volume, autoVars, files, crashed>>

PauseStateStop(c) ==
    /\ Runs(c, "Pause", {"Stop", "Destroy"})
    /\ ToStopState
    /\ Return(c, "SUCCESS")
    /\ UNCHANGED <<mutexes, volume, autoVars, files, crashed>>

SetVolumeRejected(c) ==
    /\ \E s \in {"Stop", "Play", "Pause"} : Runs(c, s, {"SetVolume"})
    /\ ~ValidVolume(call[c].volume)
    /\ Return(c, "FAILED")
    /\ PlayerFrame /\ UNCHANGED <<mutexes, autoVars, files, crashed>>

\* No play thread: volume_m, and in the Pause state the handle, in one step.
IdleSetVolume(c) ==
    /\ \E s \in {"Stop", "Pause"} : Runs(c, s, {"SetVolume"})
    /\ ValidVolume(call[c].volume)
    /\ volume' = call[c].volume
    /\ handleVolume' = IF state = "Pause" THEN volume' ELSE handleVolume
    /\ Return(c, "SUCCESS")
    /\ UNCHANGED <<mutexes, playerVars, handle, loaded, threadVars, autoVars,
                   files, crashed>>

\* SetVolume of the Play state writes volume_m, then loads mh_m, which the play
\* thread may be reopening meanwhile, then calls mpg123_volume with it.
PlayStateSetVolume(c) ==
    /\ Runs(c, "Play", {"SetVolume"})
    /\ ValidVolume(call[c].volume)
    /\ volume' = call[c].volume
    /\ stateMutex' = c
    /\ pc' = [pc EXCEPT ![c] = "apply"]
    /\ UNCHANGED <<cvMutex, playerVars, handleVars, threadVars, autoVars, call,
                   reply, files, crashed>>

LoadHandle(c) ==
    /\ pc[c] = "apply"
    /\ loaded' = IF handle \in {"created", "open"} THEN "handle"
                 ELSE IF handle = "null" THEN "null" ELSE "freed"
    /\ pc' = [pc EXCEPT ![c] = "use"]
    /\ UNCHANGED <<mutexes, playerVars, handle, handleVolume, volume, threadVars,
                   autoVars, call, reply, files, crashed>>

\* mpg123_volume refuses a null handle; on a freed one the write goes nowhere,
\* to the new handle that was given the same memory, or kills the process.
UseHandle(c) ==
    /\ pc[c] = "use"
    /\ \/ /\ loaded = "handle" \/ (loaded = "freed" /\ handle \in {"created", "open"})
          /\ handleVolume' = call[c].volume
          /\ UNCHANGED crashed
       \/ loaded # "handle" /\ UNCHANGED <<handleVolume, crashed>>
       \/ loaded = "freed" /\ crashed' = TRUE /\ UNCHANGED handleVolume
    /\ loaded' = "none"
    /\ stateMutex' = None
    /\ Return(c, "SUCCESS")
    /\ UNCHANGED <<cvMutex, playerVars, handle, volume, threadVars, autoVars,
                   files>>

\* GetState and GetStateStr.
StateOf == IF state = "Stop" THEN "STOPED"
           ELSE IF state = "Pause" THEN "PAUSED"
           ELSE IF playMode = "IN_LOOP" THEN "PLAY_IN_LOOP" ELSE "PLAY_ONCE"

GetState(c) ==
    /\ Runs(c, state, {"GetState"})
    /\ Return(c, StateOf)
    /\ PlayerFrame /\ UNCHANGED <<mutexes, autoVars, files, crashed>>

\* Mutant: the destructor does not set cv_ready_m.
DtorSetFlagsNotReady(c) ==
    /\ pc[c] = "dtorCv" /\ cvMutex = None
    /\ threadIdToStop' = None /\ stopAutoStop' = TRUE
    /\ pc' = [pc EXCEPT ![c] = "dtorNotify"]
    /\ PlayerFrame
    /\ UNCHANGED <<mutexes, autoPc, cvReady, call, reply, files, crashed>>

\* ~Mp3Player after Stop(): set the flags under cv_mutex_m ...
DtorSetFlags(c) ==
    /\ pc[c] = "dtorCv" /\ cvMutex = None
    /\ threadIdToStop' = None /\ cvReady' = TRUE /\ stopAutoStop' = TRUE
    /\ pc' = [pc EXCEPT ![c] = "dtorNotify"]
    /\ PlayerFrame /\ UNCHANGED <<mutexes, autoPc, call, reply, files,
                                  crashed>>

\* notify_one: the only thread that ever waits is the auto-stop thread.
Notified == IF autoPc = "waiting" THEN "lockCv" ELSE autoPc

\* ... notify without it ...
DtorNotify(c) ==
    /\ pc[c] = "dtorNotify"
    /\ autoPc' = Notified
    /\ pc' = [pc EXCEPT ![c] = "dtorJoin"]
    /\ PlayerFrame /\ UNCHANGED <<mutexes, cvReady, threadIdToStop,
                                  stopAutoStop, call, reply, files, crashed>>

\* ... and join the auto-stop thread.
DtorJoin(c) ==
    /\ pc[c] = "dtorJoin" /\ autoPc = "exited"
    /\ pc' = [pc EXCEPT ![c] = "gone"]
    /\ PlayerFrame /\ UNCHANGED <<mutexes, autoVars, call, reply, files,
                                  crashed>>

-----------------------------------------------------------------------------
(* The play thread, DoPlay.                                                *)

\* mpg123_read delivers a block and ao_play plays it.
ReadBlock ==
    /\ playPc = "read" /\ handle = "open"
    /\ playPc' = "check"
    /\ ThreadFrame /\ UNCHANGED <<handleVars, playsLeft, volumeRead>>

\* stop_thread_m is only looked at after a block has been played.
CheckStop ==
    /\ playPc = "check"
    /\ playPc' = IF stopThread THEN "stopped" ELSE "read"
    /\ ThreadFrame /\ UNCHANGED <<handleVars, playsLeft, volumeRead>>

\* Mutant: the file is reopened after its last play as well.
ReadEndReopens ==
    /\ playPc = "read"
    /\ playsLeft' = IF playsLeft > 1 THEN playsLeft - 1 ELSE playsLeft
    /\ playPc' = "free"
    /\ ThreadFrame /\ UNCHANGED <<handleVars, volumeRead>>

\* mpg123_read reports the end of the file or an error: one play done.
ReadEnd ==
    /\ playPc = "read"
    /\ playsLeft' = playsLeft - 1
    /\ playPc' = IF playsLeft > 1 THEN "free" ELSE "notify"
    /\ ThreadFrame /\ UNCHANGED <<handleVars, volumeRead>>

\* ClosePlayer in the play thread: mpg123_delete ...
FreeHandle ==
    /\ playPc = "free"
    /\ handle' = "dangling" /\ handleVolume' = FullVolume
    /\ loaded' = IF loaded = "handle" THEN "freed" ELSE loaded
    /\ playPc' = "clear"
    /\ ThreadFrame /\ UNCHANGED <<playsLeft, volumeRead>>

\* ... and only then mh_m = nullptr.
ClearHandle ==
    /\ playPc = "clear"
    /\ handle' = "null"
    /\ playPc' = "open"
    /\ ThreadFrame
    /\ UNCHANGED <<handleVolume, loaded, playsLeft, volumeRead>>

\* OpenPlayer in the play thread; without the file the loop ends, and because
\* stop_loop is set nobody is notified.
Reopen ==
    /\ playPc = "open"
    /\ \/ playFile \in files    /\ handle' = "open"    /\ playPc' = "volume"
       \/ playFile \notin files /\ handle' = "created" /\ playPc' = "lost"
    /\ ThreadFrame
    /\ UNCHANGED <<handleVolume, loaded, playsLeft, volumeRead>>

\* volume_float is computed from volume_m ...
ReadVolume ==
    /\ playPc = "volume"
    /\ volumeRead' = volume
    /\ playPc' = "setVolume"
    /\ ThreadFrame /\ UNCHANGED <<handleVars, playsLeft>>

\* ... and given to the handle.
SetHandleVolume ==
    /\ playPc = "setVolume"
    /\ handleVolume' = volumeRead
    /\ volumeRead' = FullVolume
    /\ playPc' = "read"
    /\ ThreadFrame /\ UNCHANGED <<handle, loaded, playsLeft>>

\* Mutant: the auto-stop thread is notified but cv_ready_m is not set.
NotifyNotReady ==
    /\ playPc = "notify" /\ cvMutex = None
    /\ threadIdToStop' = threadId
    /\ autoPc' = Notified
    /\ playPc' = "finished"
    /\ UNCHANGED <<mutexes, playerVars, handleVars, volume, threadId, reused,
                   playsLeft, volumeRead, stopThread, cvReady, stopAutoStop,
                   clientVars, files, crashed>>

\* The file finished by itself: tell the auto-stop thread which thread.
Notify ==
    /\ playPc = "notify" /\ cvMutex = None
    /\ threadIdToStop' = threadId
    /\ cvReady' = TRUE
    /\ autoPc' = Notified
    /\ playPc' = "finished"
    /\ UNCHANGED <<mutexes, playerVars, handleVars, volume, threadId, reused,
                   playsLeft, volumeRead, stopThread, stopAutoStop, clientVars,
                   files, crashed>>

-----------------------------------------------------------------------------
(* The auto-stop thread, DoStop.                                           *)

\* Take cv_mutex_m; keep it if cv_ready_m is set, wait on cv_m otherwise.
AutoLockCv ==
    /\ autoPc = "lockCv" /\ cvMutex = None
    /\ autoPc' = IF cvReady THEN "lockState" ELSE "waiting"
    /\ cvMutex' = IF cvReady THEN AutoStopper ELSE None
    /\ cvReady' = FALSE
    /\ PlayerFrame /\ UNCHANGED <<stateMutex, threadIdToStop, stopAutoStop,
                                  clientVars, files, crashed>>

SpuriousWakeup ==
    /\ autoPc = "waiting"
    /\ autoPc' = "lockCv"
    /\ PlayerFrame /\ UNCHANGED <<mutexes, cvReady, threadIdToStop,
                                  stopAutoStop, clientVars, files, crashed>>

\* Mutant: whatever plays is stopped, not the thread that finished.
AutoMatchesAny == threadIdToStop # None /\ threadId # None

AutoMatches == threadIdToStop # None /\ threadIdToStop = threadId

\* With both mutexes: the playback that finished is still the current one, so
\* state_m->Stop() starts with StopPlayThread; otherwise nothing is done.
AutoLockState ==
    /\ autoPc = "lockState" /\ stateMutex = None
    /\ \/ /\ AutoMatches
          /\ stateMutex' = AutoStopper
          /\ stopThread' = TRUE
          /\ autoPc' = "join"
          /\ UNCHANGED cvMutex
       \/ /\ ~AutoMatches
          /\ cvMutex' = None
          /\ autoPc' = "test"
          /\ UNCHANGED <<stateMutex, stopThread>>
    /\ UNCHANGED <<playerVars, handleVars, volume, threadId, reused, playPc,
                   playsLeft, volumeRead, cvReady, threadIdToStop,
                   stopAutoStop, clientVars, files, crashed>>

\* state_m->Stop() goes on once the play thread is joined.
AutoStop ==
    /\ autoPc = "join" /\ playPc \in Ended
    /\ ToStopState
    /\ threadIdToStop' = None
    /\ stateMutex' = None /\ cvMutex' = None
    /\ autoPc' = "test"
    /\ UNCHANGED <<volume, cvReady, stopAutoStop, clientVars, files, crashed>>

\* The loop condition is read after both mutexes are released.
AutoTest ==
    /\ autoPc = "test"
    /\ autoPc' = IF stopAutoStop THEN "exited" ELSE "lockCv"
    /\ PlayerFrame /\ UNCHANGED <<mutexes, cvReady, threadIdToStop,
                                  stopAutoStop, clientVars, files, crashed>>

-----------------------------------------------------------------------------
\* Files come and go while the program runs.
FileSystem ==
    /\ \E f \in Files : files' = IF f \in files THEN files \ {f}
                                                ELSE files \cup {f}
    /\ PlayerFrame /\ UNCHANGED <<mutexes, autoVars, clientVars, crashed>>

Locks(c) ==
    \/ StopStatePlay(c)     \/ NothingToDo(c)    \/ StopPlayThread(c)
    \/ PauseStatePlay(c)    \/ PauseStateResume(c) \/ PauseStateStop(c)
    \/ SetVolumeRejected(c) \/ IdleSetVolume(c)  \/ PlayStateSetVolume(c)
    \/ GetState(c)          \/ DtorSetFlags(c)

Continues(c) ==
    \/ PlayStatePlay(c) \/ PlayStatePause(c) \/ PlayStateStop(c)
    \/ LoadHandle(c)    \/ UseHandle(c)
    \/ DtorNotify(c)    \/ DtorJoin(c)

PlayThread ==
    \/ ReadBlock   \/ CheckStop \/ ReadEnd    \/ FreeHandle
    \/ ClearHandle \/ Reopen    \/ ReadVolume \/ SetHandleVolume \/ Notify

AutoThread ==
    AutoLockCv \/ SpuriousWakeup \/ AutoLockState \/ AutoStop \/ AutoTest

ClientStep(c) == Call(c) \/ Locks(c) \/ Continues(c)

Next ==
    \/ ~crashed /\ \E c \in Clients : ClientStep(c)
    \/ ~crashed /\ PlayThread
    \/ ~crashed /\ AutoThread
    \/ FileSystem

Spec == Init /\ [][Next]_vars

(* Every thread keeps running (WF), a waiter is not starved of a mutex and *)
(* a file has an end (SF).  Nobody is obliged to call, and no spurious     *)
(* wakeup is owed.                                                         *)
Fairness ==
    /\ \A c \in Clients : /\ SF_vars(~crashed /\ Locks(c))
                          /\ WF_vars(~crashed /\ Continues(c))
    /\ WF_vars(~crashed /\ PlayThread)
    /\ SF_vars(~crashed /\ ReadEnd)
    /\ SF_vars(~crashed /\ Notify)
    /\ SF_vars(~crashed /\ AutoLockCv)
    /\ SF_vars(~crashed /\ AutoLockState)
    /\ WF_vars(~crashed /\ (AutoStop \/ AutoTest))

FairSpec == Spec /\ Fairness
-----------------------------------------------------------------------------
(* Properties.                                                             *)

PlayerTypeOK ==
    /\ state \in {"Stop", "Play", "Pause"}
    /\ playFile \in Files \cup {None}
    /\ playMode \in Modes \cup {None}
    /\ handle \in {"null", "created", "open", "dangling"}
    /\ handleVolume \in 0..FullVolume
    /\ loaded \in {"none", "null", "handle", "freed"}
    /\ volume \in 0..FullVolume

ThreadTypeOK ==
    /\ threadId \in ThreadIds \cup {None}
    /\ reused \in BOOLEAN
    /\ playPc \in Ended \cup {"none", "read", "check", "free", "clear", "open",
                              "volume", "setVolume", "notify"}
    /\ playsLeft \in 0..MaxLoops
    /\ volumeRead \in 0..FullVolume
    /\ stopThread \in BOOLEAN

AutoTypeOK ==
    /\ stateMutex \in Clients \cup {AutoStopper, None}
    /\ cvMutex \in {AutoStopper, None}
    /\ autoPc \in {"lockCv", "waiting", "lockState", "join", "test", "exited"}
    /\ cvReady \in BOOLEAN
    /\ threadIdToStop \in ThreadIds \cup {None}
    /\ stopAutoStop \in BOOLEAN

ClientTypeOK ==
    /\ pc \in [Clients -> {"idle", "lock", "join", "apply", "use", "dtorCv",
                           "dtorNotify", "dtorJoin", "gone"}]
    /\ call \in [Clients -> Calls \cup {None}]
    /\ reply \in [Clients -> Statuses \cup States \cup {None}]
    /\ files \subseteq Files
    /\ crashed \in BOOLEAN

TypeOK == PlayerTypeOK /\ ThreadTypeOK /\ AutoTypeOK /\ ClientTypeOK

\* There is a play thread, unjoined, exactly while the player is in the Play
\* state: every way out of it joins (player_*_state.cpp constructors), so the
\* std::thread assigned in RunPlayThread is never a joinable one.
ThreadOnlyInPlayState ==
    /\ state = "Play" <=> playPc # "none"
    /\ state = "Play" <=> threadId # None

\* Nobody frees the mpg123 handle under the play thread: while it decodes, or
\* is about to set the volume of the reopened handle, the handle exists.
HandleLivesWhileDecoding ==
    playPc \in {"read", "check", "volume", "setVolume"} =>
        handle \in {"created", "open"}

\* A stopped player holds no open stream, however it was stopped: the next
\* OpenPlayer never overwrites an open handle and audio device.
StoppedHoldsNoStream == state = "Stop" => handle \in {"null", "created"}

\* The auto-stop thread only ever joins, and so stops, a playback that has
\* finished by itself: never one a client started meanwhile.
AutoStopsOnlyFinished == autoPc = "join" => playPc = "finished"

\* Among the playbacks that have not finished, the auto-stop thread can only
\* take the one whose thread was given the id of the thread it was told of.
AutoStopsFinishedOrReused == autoPc = "join" => playPc = "finished" \/ reused

\* SetVolume has its hands on a freed handle only in a looped playback that has
\* been played once: a playback of one run and a paused one are safe.
CrashOnlyInLoop ==
    crashed \/ loaded = "freed" \/ handle = "dangling" =>
        state = "Play" /\ playMode = "IN_LOOP" /\ playsLeft < MaxLoops

\* Outside a loop the volume in effect is the last one set.
VolumeInEffect ==
    /\ handle = "open" /\ playMode = "ONCE"
    /\ \A c \in Clients : pc[c] \notin {"apply", "use"}
    => handleVolume = volume

\* What Play answers is what happened: SUCCESS when the step that answers
\* leaves the player playing that file in that mode, an error when it leaves
\* it stopped, whatever it was doing before.
PlayReply(c) ==
    reply[c] = None /\ reply'[c] # None /\ call[c].op = "Play" =>
        \/ /\ reply'[c] = "SUCCESS"
           /\ state' = "Play" /\ playPc' = "read"
           /\ playFile' = call[c].file /\ playMode' = call[c].mode
        \/ /\ reply'[c] \in {"FILE_NOT_FOUND", "WRONG_PLAY_MODE"}
           /\ state' = "Stop"

PlayReplyTellsState == [][\A c \in Clients : PlayReply(c)]_vars

\* The circular wait: a play thread at its notification needs cv_mutex_m, which
\* the auto-stop thread holds while it waits for state_mutex_m or joins that
\* very thread, and whoever holds state_mutex_m is joining the play thread.
CvCycle ==
    /\ playPc = "notify" /\ cvMutex = AutoStopper
    /\ autoPc = "join" \/ \E c \in Clients : pc[c] = "join"

NoCvCycle == ~CvCycle

\* Every call returns, unless the circular wait has closed or the process died.
CallReturns ==
    \A c \in Clients :
        pc[c] # "idle" ~> pc[c] \in {"idle", "gone"} \/ CvCycle \/ crashed

\* A playback that finished by itself does not stay: the player is stopped, or
\* a client has paused, stopped or replaced it.
FinishedIsCleared ==
    playPc = "finished" ~> playPc # "finished" \/ crashed

\* A playback whose file is gone when it is reopened stops the player ("If
\* reopned file is no longer exists stop player", mp3_player.cpp:248).
LostIsStopped == playPc = "lost" ~> state = "Stop" \/ crashed
=============================================================================
