--------------------------- MODULE Mp3Player_proofs ---------------------------
(* The inductive invariant of Mp3Player and the theorems that follow.      *)
EXTENDS Mp3Player, TLAPS

\* Who holds a mutex across steps, by program counters.
MutexInv ==
    /\ \A c \in Clients : stateMutex = c <=> pc[c] \in {"join", "apply", "use"}
    /\ stateMutex = AutoStopper <=> autoPc = "join"
    /\ cvMutex = AutoStopper <=> autoPc \in {"lockState", "join"}

\* What a client is doing in the middle of a call.
CallInv ==
    \A c \in Clients :
        /\ pc[c] \in {"lock", "join", "apply", "use"} => call[c] \in Calls
        /\ pc[c] = "join" => /\ call[c].op \in {"Play", "Pause", "Stop",
                                                "Destroy"}
                             /\ state = "Play"
        /\ pc[c] \in {"apply", "use"} => /\ call[c].op = "SetVolume"
                                         /\ call[c].volume = volume
                                         /\ state = "Play"

ThreadInv ==
    /\ ThreadOnlyInPlayState
    /\ autoPc = "join" => state = "Play"
    /\ state # "Stop" => playMode \in Modes /\ playFile \in Files
    /\ playMode = "ONCE" => playsLeft <= 1
    /\ playPc \in {"read", "check", "free", "clear", "open", "volume",
                   "setVolume"} => playsLeft >= 1

\* The handle, by where the play thread is.
HandleInv ==
    /\ StoppedHoldsNoStream
    /\ state = "Pause" => handle \in {"created", "open"}
    /\ playPc \in {"read", "check", "free", "volume", "setVolume", "notify",
                   "stopped", "lost", "finished"} =>
         handle \in {"created", "open"}
    /\ playPc = "clear" => handle = "dangling"
    /\ playPc = "open" => handle = "null"
    /\ playPc \in {"free", "clear", "open", "volume", "setVolume", "lost"} =>
         playMode = "IN_LOOP"

\* A looped playback that has been played once.
Looped == state = "Play" /\ playMode = "IN_LOOP" /\ playsLeft < MaxLoops

\* The handle that SetVolume loaded, and what may become of it.
LoadedInv ==
    /\ playPc \in {"free", "clear", "open", "volume", "setVolume", "lost"} =>
         playsLeft < MaxLoops
    /\ loaded # "none" => \E c \in Clients : pc[c] = "use"
    /\ playMode = "ONCE" => \A c \in Clients : pc[c] = "use" => loaded = "handle"
    /\ loaded = "freed" => Looped
    /\ crashed => Looped

\* An id in thread_id_to_stop_m that is the play thread's was put there by
\* that thread, at its end, unless the thread was given that id at its start.
FinishedInv ==
    /\ threadIdToStop # None /\ threadIdToStop = threadId =>
         playPc = "finished" \/ reused
    /\ AutoStopsFinishedOrReused

IInv ==
    /\ TypeOK /\ MutexInv /\ CallInv /\ ThreadInv /\ HandleInv
    /\ LoadedInv /\ VolumeInEffect /\ FinishedInv
-----------------------------------------------------------------------------
\* The fields of a call.
LEMMA CallFields ==
    \A k \in Calls : /\ k.op = "Play" => k.file \in Files
                     /\ k.op = "SetVolume" => k.volume \in Nat
  BY VolumesAssumption DEF Calls

\* How often a file is played.
LEMMA PlaysTyped ==
    \A m : PlaysOf(m) \in 1..MaxLoops /\ (m = "ONCE" => PlaysOf(m) = 1)
  BY LoopsAssumption DEF PlaysOf

\* A new play thread is well typed.
LEMMA RunTyped ==
    ASSUME TypeOK, NEW m, RunPlayThread(m)
    PROVE  ThreadTypeOK'
<1>1. threadId' \in ThreadIds /\ reused' \in BOOLEAN
  BY DEF RunPlayThread
<1>2. playsLeft' \in 0..MaxLoops
  BY PlaysTyped, LoopsAssumption DEF RunPlayThread
<1>3. stopThread' \in BOOLEAN
  BY DEF RunPlayThread
<1>4. playPc' = "read" /\ volumeRead' \in 0..FullVolume
  BY DEF RunPlayThread, TypeOK, ThreadTypeOK
<1> QED
  BY <1>1, <1>2, <1>3, <1>4 DEF ThreadTypeOK

\* So is what is left of a joined one.
LEMMA JoinTyped ==
    ASSUME TypeOK, JoinPlayThread
    PROVE  ThreadTypeOK'
<1>1. threadId' = None /\ reused' \in BOOLEAN /\ playPc' = "none"
  BY DEF JoinPlayThread
<1>2. playsLeft' \in 0..MaxLoops
  BY LoopsAssumption DEF JoinPlayThread
<1>3. volumeRead' \in 0..FullVolume /\ stopThread' \in BOOLEAN
  BY DEF JoinPlayThread, TypeOK, ThreadTypeOK
<1> QED
  BY <1>1, <1>2, <1>3 DEF ThreadTypeOK

\* The types of the player's fields.
LEMMA PlayerTypeStep ==
    ASSUME TypeOK, CallInv, ThreadInv, [Next]_vars
    PROVE  PlayerTypeOK'
<1> USE DEF TypeOK
<1> USE CallFields
        DEF vars, mutexes, playerVars, handleVars, threadVars, autoVars,
            clientVars, PlayerFrame, ThreadFrame,
            PlayerTypeOK, ThreadTypeOK, CallInv, ThreadInv, Modes, FullVolume,
            ValidVolume, OpenPlayer, ClosePlayer, RunPlayThread,
            JoinPlayThread, ToPlayState, ToStopState, Return, Runs, Joined
<1>1. ASSUME NEW c \in Clients, Call(c) PROVE PlayerTypeOK'
  BY <1>1 DEF Call
<1>2. ASSUME NEW c \in Clients, StopStatePlay(c) PROVE PlayerTypeOK'
  BY <1>2 DEF StopStatePlay
<1>3. ASSUME NEW c \in Clients, NothingToDo(c) PROVE PlayerTypeOK'
  BY <1>3 DEF NothingToDo
<1>4. ASSUME NEW c \in Clients, StopPlayThread(c) PROVE PlayerTypeOK'
  BY <1>4 DEF StopPlayThread
<1>5. ASSUME NEW c \in Clients, PlayStatePlay(c) PROVE PlayerTypeOK'
  BY <1>5 DEF PlayStatePlay
<1>6. ASSUME NEW c \in Clients, PlayStatePause(c) PROVE PlayerTypeOK'
  BY <1>6 DEF PlayStatePause
<1>7. ASSUME NEW c \in Clients, PlayStateStop(c) PROVE PlayerTypeOK'
  BY <1>7 DEF PlayStateStop
<1>8. ASSUME NEW c \in Clients, PauseStatePlay(c) PROVE PlayerTypeOK'
  BY <1>8 DEF PauseStatePlay
<1>9. ASSUME NEW c \in Clients, PauseStateResume(c) PROVE PlayerTypeOK'
  BY <1>9 DEF PauseStateResume
<1>10. ASSUME NEW c \in Clients, PauseStateStop(c) PROVE PlayerTypeOK'
  BY <1>10 DEF PauseStateStop
<1>11. ASSUME NEW c \in Clients, SetVolumeRejected(c) PROVE PlayerTypeOK'
  BY <1>11 DEF SetVolumeRejected
<1>12. ASSUME NEW c \in Clients, IdleSetVolume(c) PROVE PlayerTypeOK'
  BY <1>12 DEF IdleSetVolume
<1>13. ASSUME NEW c \in Clients, PlayStateSetVolume(c) PROVE PlayerTypeOK'
  BY <1>13 DEF PlayStateSetVolume
<1>14. ASSUME NEW c \in Clients, LoadHandle(c) PROVE PlayerTypeOK'
  BY <1>14 DEF LoadHandle
<1>15. ASSUME NEW c \in Clients, UseHandle(c) PROVE PlayerTypeOK'
  BY <1>15 DEF UseHandle
<1>16. ASSUME NEW c \in Clients, GetState(c) PROVE PlayerTypeOK'
  BY <1>16 DEF GetState
<1>17. ASSUME NEW c \in Clients, DtorSetFlags(c) PROVE PlayerTypeOK'
  BY <1>17 DEF DtorSetFlags
<1>18. ASSUME NEW c \in Clients, DtorNotify(c) PROVE PlayerTypeOK'
  BY <1>18 DEF DtorNotify
<1>19. ASSUME NEW c \in Clients, DtorJoin(c) PROVE PlayerTypeOK'
  BY <1>19 DEF DtorJoin
<1>20. ASSUME ReadBlock PROVE PlayerTypeOK'
  BY <1>20 DEF ReadBlock
<1>21. ASSUME CheckStop PROVE PlayerTypeOK'
  BY <1>21 DEF CheckStop
<1>22. ASSUME ReadEnd PROVE PlayerTypeOK'
  BY <1>22 DEF ReadEnd
<1>23. ASSUME FreeHandle PROVE PlayerTypeOK'
  BY <1>23 DEF FreeHandle
<1>24. ASSUME ClearHandle PROVE PlayerTypeOK'
  BY <1>24 DEF ClearHandle
<1>25. ASSUME Reopen PROVE PlayerTypeOK'
  BY <1>25 DEF Reopen
<1>26. ASSUME ReadVolume PROVE PlayerTypeOK'
  BY <1>26 DEF ReadVolume
<1>27. ASSUME SetHandleVolume PROVE PlayerTypeOK'
  BY <1>27 DEF SetHandleVolume
<1>28. ASSUME Notify PROVE PlayerTypeOK'
  BY <1>28 DEF Notify
<1>29. ASSUME AutoLockCv PROVE PlayerTypeOK'
  BY <1>29 DEF AutoLockCv
<1>30. ASSUME SpuriousWakeup PROVE PlayerTypeOK'
  BY <1>30 DEF SpuriousWakeup
<1>31. ASSUME AutoLockState PROVE PlayerTypeOK'
  BY <1>31 DEF AutoLockState
<1>32. ASSUME AutoStop PROVE PlayerTypeOK'
  BY <1>32 DEF AutoStop
<1>33. ASSUME AutoTest PROVE PlayerTypeOK'
  BY <1>33 DEF AutoTest
<1>34. ASSUME FileSystem PROVE PlayerTypeOK'
  BY <1>34 DEF FileSystem
<1>35. ASSUME UNCHANGED vars PROVE PlayerTypeOK'
  BY <1>35
<1> QED
  BY <1>1, <1>2, <1>3, <1>4, <1>5, <1>6, <1>7, <1>8, <1>9, <1>10, <1>11,
     <1>12, <1>13, <1>14, <1>15, <1>16, <1>17, <1>18, <1>19, <1>20, <1>21, <1>22,
     <1>23, <1>24, <1>25, <1>26, <1>27, <1>28, <1>29, <1>30, <1>31, <1>32,
     <1>33, <1>34, <1>35
     DEF Next, ClientStep, Locks, Continues, PlayThread, AutoThread

\* The types of the play thread's variables.
LEMMA ThreadTypeStep ==
    ASSUME TypeOK, ThreadInv, [Next]_vars
    PROVE  ThreadTypeOK'
<1> USE DEF TypeOK
<1> USE LoopsAssumption
        DEF vars, mutexes, playerVars, handleVars, threadVars, autoVars,
            clientVars, PlayerFrame, ThreadFrame,
            ThreadTypeOK, ThreadInv, Ended, FullVolume, PlayerTypeOK,
            OpenPlayer, ClosePlayer, JoinPlayThread, ToPlayState, ToStopState,
            Return, Runs, Joined
<1>1. ASSUME NEW c \in Clients, Call(c) PROVE ThreadTypeOK'
  BY <1>1 DEF Call
<1>2. ASSUME NEW c \in Clients, StopStatePlay(c) PROVE ThreadTypeOK'
  <2>1. CASE \E m : RunPlayThread(m)
    BY <2>1, RunTyped
  <2>2. CASE ~\E m : RunPlayThread(m)
    BY <1>2, <2>2 DEF StopStatePlay
  <2> QED
    BY <2>1, <2>2
<1>3. ASSUME NEW c \in Clients, NothingToDo(c) PROVE ThreadTypeOK'
  BY <1>3 DEF NothingToDo
<1>4. ASSUME NEW c \in Clients, StopPlayThread(c) PROVE ThreadTypeOK'
  BY <1>4 DEF StopPlayThread
<1>5. ASSUME NEW c \in Clients, PlayStatePlay(c) PROVE ThreadTypeOK'
  <2>1. CASE \E m : RunPlayThread(m)
    BY <2>1, RunTyped
  <2>2. CASE ~\E m : RunPlayThread(m)
    <3>1. JoinPlayThread
      BY <1>5, <2>2 DEF PlayStatePlay
    <3> QED BY <3>1, JoinTyped
  <2> QED
    BY <2>1, <2>2
<1>6. ASSUME NEW c \in Clients, PlayStatePause(c) PROVE ThreadTypeOK'
  BY <1>6, JoinTyped DEF PlayStatePause
<1>7. ASSUME NEW c \in Clients, PlayStateStop(c) PROVE ThreadTypeOK'
  BY <1>7, JoinTyped DEF PlayStateStop
<1>8. ASSUME NEW c \in Clients, PauseStatePlay(c) PROVE ThreadTypeOK'
  BY <1>8, JoinTyped DEF PauseStatePlay
<1>9. ASSUME NEW c \in Clients, PauseStateResume(c) PROVE ThreadTypeOK'
  <2>1. CASE \E m : RunPlayThread(m)
    BY <2>1, RunTyped
  <2>2. CASE ~\E m : RunPlayThread(m)
    <3>1. JoinPlayThread
      BY <1>9, <2>2 DEF PauseStateResume
    <3> QED BY <3>1, JoinTyped
  <2> QED
    BY <2>1, <2>2
<1>10. ASSUME NEW c \in Clients, PauseStateStop(c) PROVE ThreadTypeOK'
  BY <1>10, JoinTyped DEF PauseStateStop
<1>11. ASSUME NEW c \in Clients, SetVolumeRejected(c) PROVE ThreadTypeOK'
  BY <1>11 DEF SetVolumeRejected
<1>12. ASSUME NEW c \in Clients, IdleSetVolume(c) PROVE ThreadTypeOK'
  BY <1>12 DEF IdleSetVolume
<1>13. ASSUME NEW c \in Clients, PlayStateSetVolume(c) PROVE ThreadTypeOK'
  BY <1>13 DEF PlayStateSetVolume
<1>14. ASSUME NEW c \in Clients, LoadHandle(c) PROVE ThreadTypeOK'
  BY <1>14 DEF LoadHandle
<1>15. ASSUME NEW c \in Clients, UseHandle(c) PROVE ThreadTypeOK'
  BY <1>15 DEF UseHandle
<1>16. ASSUME NEW c \in Clients, GetState(c) PROVE ThreadTypeOK'
  BY <1>16 DEF GetState
<1>17. ASSUME NEW c \in Clients, DtorSetFlags(c) PROVE ThreadTypeOK'
  BY <1>17 DEF DtorSetFlags
<1>18. ASSUME NEW c \in Clients, DtorNotify(c) PROVE ThreadTypeOK'
  BY <1>18 DEF DtorNotify
<1>19. ASSUME NEW c \in Clients, DtorJoin(c) PROVE ThreadTypeOK'
  BY <1>19 DEF DtorJoin
<1>20. ASSUME ReadBlock PROVE ThreadTypeOK'
  BY <1>20 DEF ReadBlock
<1>21. ASSUME CheckStop PROVE ThreadTypeOK'
  BY <1>21 DEF CheckStop
<1>22. ASSUME ReadEnd PROVE ThreadTypeOK'
  BY <1>22 DEF ReadEnd
<1>23. ASSUME FreeHandle PROVE ThreadTypeOK'
  BY <1>23 DEF FreeHandle
<1>24. ASSUME ClearHandle PROVE ThreadTypeOK'
  BY <1>24 DEF ClearHandle
<1>25. ASSUME Reopen PROVE ThreadTypeOK'
  BY <1>25 DEF Reopen
<1>26. ASSUME ReadVolume PROVE ThreadTypeOK'
  BY <1>26 DEF ReadVolume
<1>27. ASSUME SetHandleVolume PROVE ThreadTypeOK'
  BY <1>27 DEF SetHandleVolume
<1>28. ASSUME Notify PROVE ThreadTypeOK'
  BY <1>28 DEF Notify
<1>29. ASSUME AutoLockCv PROVE ThreadTypeOK'
  BY <1>29 DEF AutoLockCv
<1>30. ASSUME SpuriousWakeup PROVE ThreadTypeOK'
  BY <1>30 DEF SpuriousWakeup
<1>31. ASSUME AutoLockState PROVE ThreadTypeOK'
  BY <1>31 DEF AutoLockState
<1>32. ASSUME AutoStop PROVE ThreadTypeOK'
  BY <1>32, JoinTyped DEF AutoStop
<1>33. ASSUME AutoTest PROVE ThreadTypeOK'
  BY <1>33 DEF AutoTest
<1>34. ASSUME FileSystem PROVE ThreadTypeOK'
  BY <1>34 DEF FileSystem
<1>35. ASSUME UNCHANGED vars PROVE ThreadTypeOK'
  BY <1>35
<1> QED
  BY <1>1, <1>2, <1>3, <1>4, <1>5, <1>6, <1>7, <1>8, <1>9, <1>10, <1>11,
     <1>12, <1>13, <1>14, <1>15, <1>16, <1>17, <1>18, <1>19, <1>20, <1>21, <1>22,
     <1>23, <1>24, <1>25, <1>26, <1>27, <1>28, <1>29, <1>30, <1>31, <1>32,
     <1>33, <1>34, <1>35
     DEF Next, ClientStep, Locks, Continues, PlayThread, AutoThread

\* The types of the mutexes and of the auto-stop thread's variables.
LEMMA AutoTypeStep ==
    ASSUME TypeOK, [Next]_vars
    PROVE  AutoTypeOK'
<1> USE DEF TypeOK
<1> USE DEF vars, mutexes, playerVars, handleVars, threadVars, autoVars,
            clientVars, PlayerFrame, ThreadFrame,
            AutoTypeOK, ThreadTypeOK, Notified, OpenPlayer, ClosePlayer,
            RunPlayThread, JoinPlayThread, ToPlayState, ToStopState, Return,
            Runs, Joined
<1>1. ASSUME NEW c \in Clients, Call(c) PROVE AutoTypeOK'
  BY <1>1 DEF Call
<1>2. ASSUME NEW c \in Clients, StopStatePlay(c) PROVE AutoTypeOK'
  BY <1>2 DEF StopStatePlay
<1>3. ASSUME NEW c \in Clients, NothingToDo(c) PROVE AutoTypeOK'
  BY <1>3 DEF NothingToDo
<1>4. ASSUME NEW c \in Clients, StopPlayThread(c) PROVE AutoTypeOK'
  BY <1>4 DEF StopPlayThread
<1>5. ASSUME NEW c \in Clients, PlayStatePlay(c) PROVE AutoTypeOK'
  BY <1>5 DEF PlayStatePlay
<1>6. ASSUME NEW c \in Clients, PlayStatePause(c) PROVE AutoTypeOK'
  BY <1>6 DEF PlayStatePause
<1>7. ASSUME NEW c \in Clients, PlayStateStop(c) PROVE AutoTypeOK'
  BY <1>7 DEF PlayStateStop
<1>8. ASSUME NEW c \in Clients, PauseStatePlay(c) PROVE AutoTypeOK'
  BY <1>8 DEF PauseStatePlay
<1>9. ASSUME NEW c \in Clients, PauseStateResume(c) PROVE AutoTypeOK'
  BY <1>9 DEF PauseStateResume
<1>10. ASSUME NEW c \in Clients, PauseStateStop(c) PROVE AutoTypeOK'
  BY <1>10 DEF PauseStateStop
<1>11. ASSUME NEW c \in Clients, SetVolumeRejected(c) PROVE AutoTypeOK'
  BY <1>11 DEF SetVolumeRejected
<1>12. ASSUME NEW c \in Clients, IdleSetVolume(c) PROVE AutoTypeOK'
  BY <1>12 DEF IdleSetVolume
<1>13. ASSUME NEW c \in Clients, PlayStateSetVolume(c) PROVE AutoTypeOK'
  BY <1>13 DEF PlayStateSetVolume
<1>14. ASSUME NEW c \in Clients, LoadHandle(c) PROVE AutoTypeOK'
  BY <1>14 DEF LoadHandle
<1>15. ASSUME NEW c \in Clients, UseHandle(c) PROVE AutoTypeOK'
  BY <1>15 DEF UseHandle
<1>16. ASSUME NEW c \in Clients, GetState(c) PROVE AutoTypeOK'
  BY <1>16 DEF GetState
<1>17. ASSUME NEW c \in Clients, DtorSetFlags(c) PROVE AutoTypeOK'
  BY <1>17 DEF DtorSetFlags
<1>18. ASSUME NEW c \in Clients, DtorNotify(c) PROVE AutoTypeOK'
  BY <1>18 DEF DtorNotify
<1>19. ASSUME NEW c \in Clients, DtorJoin(c) PROVE AutoTypeOK'
  BY <1>19 DEF DtorJoin
<1>20. ASSUME ReadBlock PROVE AutoTypeOK'
  BY <1>20 DEF ReadBlock
<1>21. ASSUME CheckStop PROVE AutoTypeOK'
  BY <1>21 DEF CheckStop
<1>22. ASSUME ReadEnd PROVE AutoTypeOK'
  BY <1>22 DEF ReadEnd
<1>23. ASSUME FreeHandle PROVE AutoTypeOK'
  BY <1>23 DEF FreeHandle
<1>24. ASSUME ClearHandle PROVE AutoTypeOK'
  BY <1>24 DEF ClearHandle
<1>25. ASSUME Reopen PROVE AutoTypeOK'
  BY <1>25 DEF Reopen
<1>26. ASSUME ReadVolume PROVE AutoTypeOK'
  BY <1>26 DEF ReadVolume
<1>27. ASSUME SetHandleVolume PROVE AutoTypeOK'
  BY <1>27 DEF SetHandleVolume
<1>28. ASSUME Notify PROVE AutoTypeOK'
  BY <1>28 DEF Notify
<1>29. ASSUME AutoLockCv PROVE AutoTypeOK'
  BY <1>29 DEF AutoLockCv
<1>30. ASSUME SpuriousWakeup PROVE AutoTypeOK'
  BY <1>30 DEF SpuriousWakeup
<1>31. ASSUME AutoLockState PROVE AutoTypeOK'
  BY <1>31 DEF AutoLockState
<1>32. ASSUME AutoStop PROVE AutoTypeOK'
  BY <1>32 DEF AutoStop
<1>33. ASSUME AutoTest PROVE AutoTypeOK'
  BY <1>33 DEF AutoTest
<1>34. ASSUME FileSystem PROVE AutoTypeOK'
  BY <1>34 DEF FileSystem
<1>35. ASSUME UNCHANGED vars PROVE AutoTypeOK'
  BY <1>35
<1> QED
  BY <1>1, <1>2, <1>3, <1>4, <1>5, <1>6, <1>7, <1>8, <1>9, <1>10, <1>11,
     <1>12, <1>13, <1>14, <1>15, <1>16, <1>17, <1>18, <1>19, <1>20, <1>21, <1>22,
     <1>23, <1>24, <1>25, <1>26, <1>27, <1>28, <1>29, <1>30, <1>31, <1>32,
     <1>33, <1>34, <1>35
     DEF Next, ClientStep, Locks, Continues, PlayThread, AutoThread

\* The types of the clients' variables.
LEMMA ClientTypeStep ==
    ASSUME TypeOK, [Next]_vars
    PROVE  ClientTypeOK'
<1> USE DEF TypeOK
<1> USE DEF vars, mutexes, playerVars, handleVars, threadVars, autoVars,
            clientVars, PlayerFrame, ThreadFrame,
            ClientTypeOK, Statuses, States, StateOf, OpenPlayer, ClosePlayer,
            RunPlayThread, JoinPlayThread, ToPlayState, ToStopState, Return,
            Runs, Joined
<1>1. ASSUME NEW c \in Clients, Call(c) PROVE ClientTypeOK'
  BY <1>1 DEF Call
<1>2. ASSUME NEW c \in Clients, StopStatePlay(c) PROVE ClientTypeOK'
  BY <1>2 DEF StopStatePlay
<1>3. ASSUME NEW c \in Clients, NothingToDo(c) PROVE ClientTypeOK'
  BY <1>3 DEF NothingToDo
<1>4. ASSUME NEW c \in Clients, StopPlayThread(c) PROVE ClientTypeOK'
  BY <1>4 DEF StopPlayThread
<1>5. ASSUME NEW c \in Clients, PlayStatePlay(c) PROVE ClientTypeOK'
  BY <1>5 DEF PlayStatePlay
<1>6. ASSUME NEW c \in Clients, PlayStatePause(c) PROVE ClientTypeOK'
  BY <1>6 DEF PlayStatePause
<1>7. ASSUME NEW c \in Clients, PlayStateStop(c) PROVE ClientTypeOK'
  BY <1>7 DEF PlayStateStop
<1>8. ASSUME NEW c \in Clients, PauseStatePlay(c) PROVE ClientTypeOK'
  BY <1>8 DEF PauseStatePlay
<1>9. ASSUME NEW c \in Clients, PauseStateResume(c) PROVE ClientTypeOK'
  BY <1>9 DEF PauseStateResume
<1>10. ASSUME NEW c \in Clients, PauseStateStop(c) PROVE ClientTypeOK'
  BY <1>10 DEF PauseStateStop
<1>11. ASSUME NEW c \in Clients, SetVolumeRejected(c) PROVE ClientTypeOK'
  BY <1>11 DEF SetVolumeRejected
<1>12. ASSUME NEW c \in Clients, IdleSetVolume(c) PROVE ClientTypeOK'
  BY <1>12 DEF IdleSetVolume
<1>13. ASSUME NEW c \in Clients, PlayStateSetVolume(c) PROVE ClientTypeOK'
  BY <1>13 DEF PlayStateSetVolume
<1>14. ASSUME NEW c \in Clients, LoadHandle(c) PROVE ClientTypeOK'
  BY <1>14 DEF LoadHandle
<1>15. ASSUME NEW c \in Clients, UseHandle(c) PROVE ClientTypeOK'
  BY <1>15 DEF UseHandle
<1>16. ASSUME NEW c \in Clients, GetState(c) PROVE ClientTypeOK'
  BY <1>16 DEF GetState
<1>17. ASSUME NEW c \in Clients, DtorSetFlags(c) PROVE ClientTypeOK'
  BY <1>17 DEF DtorSetFlags
<1>18. ASSUME NEW c \in Clients, DtorNotify(c) PROVE ClientTypeOK'
  BY <1>18 DEF DtorNotify
<1>19. ASSUME NEW c \in Clients, DtorJoin(c) PROVE ClientTypeOK'
  BY <1>19 DEF DtorJoin
<1>20. ASSUME ReadBlock PROVE ClientTypeOK'
  BY <1>20 DEF ReadBlock
<1>21. ASSUME CheckStop PROVE ClientTypeOK'
  BY <1>21 DEF CheckStop
<1>22. ASSUME ReadEnd PROVE ClientTypeOK'
  BY <1>22 DEF ReadEnd
<1>23. ASSUME FreeHandle PROVE ClientTypeOK'
  BY <1>23 DEF FreeHandle
<1>24. ASSUME ClearHandle PROVE ClientTypeOK'
  BY <1>24 DEF ClearHandle
<1>25. ASSUME Reopen PROVE ClientTypeOK'
  BY <1>25 DEF Reopen
<1>26. ASSUME ReadVolume PROVE ClientTypeOK'
  BY <1>26 DEF ReadVolume
<1>27. ASSUME SetHandleVolume PROVE ClientTypeOK'
  BY <1>27 DEF SetHandleVolume
<1>28. ASSUME Notify PROVE ClientTypeOK'
  BY <1>28 DEF Notify
<1>29. ASSUME AutoLockCv PROVE ClientTypeOK'
  BY <1>29 DEF AutoLockCv
<1>30. ASSUME SpuriousWakeup PROVE ClientTypeOK'
  BY <1>30 DEF SpuriousWakeup
<1>31. ASSUME AutoLockState PROVE ClientTypeOK'
  BY <1>31 DEF AutoLockState
<1>32. ASSUME AutoStop PROVE ClientTypeOK'
  BY <1>32 DEF AutoStop
<1>33. ASSUME AutoTest PROVE ClientTypeOK'
  BY <1>33 DEF AutoTest
<1>34. ASSUME FileSystem PROVE ClientTypeOK'
  BY <1>34 DEF FileSystem
<1>35. ASSUME UNCHANGED vars PROVE ClientTypeOK'
  BY <1>35
<1> QED
  BY <1>1, <1>2, <1>3, <1>4, <1>5, <1>6, <1>7, <1>8, <1>9, <1>10, <1>11,
     <1>12, <1>13, <1>14, <1>15, <1>16, <1>17, <1>18, <1>19, <1>20, <1>21, <1>22,
     <1>23, <1>24, <1>25, <1>26, <1>27, <1>28, <1>29, <1>30, <1>31, <1>32,
     <1>33, <1>34, <1>35
     DEF Next, ClientStep, Locks, Continues, PlayThread, AutoThread

\* Program counters say who owns the mutexes.
LEMMA MutexStep ==
    ASSUME TypeOK, MutexInv, CallInv, [Next]_vars
    PROVE  MutexInv'
<1> USE DEF TypeOK
<1> USE ClientsAssumption
        DEF vars, mutexes, playerVars, handleVars, threadVars, autoVars,
            clientVars, PlayerFrame, ThreadFrame,
            MutexInv, AutoTypeOK, ClientTypeOK, Notified, OpenPlayer,
            ClosePlayer, RunPlayThread, JoinPlayThread, ToPlayState,
            ToStopState, Return, Runs, Joined
<1>1. ASSUME NEW c \in Clients, Call(c) PROVE MutexInv'
  BY <1>1 DEF Call
<1>2. ASSUME NEW c \in Clients, StopStatePlay(c) PROVE MutexInv'
  BY <1>2 DEF StopStatePlay
<1>3. ASSUME NEW c \in Clients, NothingToDo(c) PROVE MutexInv'
  BY <1>3 DEF NothingToDo
<1>4. ASSUME NEW c \in Clients, StopPlayThread(c) PROVE MutexInv'
  BY <1>4 DEF StopPlayThread
<1>5. ASSUME NEW c \in Clients, PlayStatePlay(c) PROVE MutexInv'
  BY <1>5 DEF PlayStatePlay
<1>6. ASSUME NEW c \in Clients, PlayStatePause(c) PROVE MutexInv'
  BY <1>6 DEF PlayStatePause
<1>7. ASSUME NEW c \in Clients, PlayStateStop(c) PROVE MutexInv'
  BY <1>7 DEF PlayStateStop
<1>8. ASSUME NEW c \in Clients, PauseStatePlay(c) PROVE MutexInv'
  BY <1>8 DEF PauseStatePlay
<1>9. ASSUME NEW c \in Clients, PauseStateResume(c) PROVE MutexInv'
  BY <1>9 DEF PauseStateResume
<1>10. ASSUME NEW c \in Clients, PauseStateStop(c) PROVE MutexInv'
  BY <1>10 DEF PauseStateStop
<1>11. ASSUME NEW c \in Clients, SetVolumeRejected(c) PROVE MutexInv'
  BY <1>11 DEF SetVolumeRejected
<1>12. ASSUME NEW c \in Clients, IdleSetVolume(c) PROVE MutexInv'
  BY <1>12 DEF IdleSetVolume
<1>13. ASSUME NEW c \in Clients, PlayStateSetVolume(c) PROVE MutexInv'
  BY <1>13 DEF PlayStateSetVolume
<1>14. ASSUME NEW c \in Clients, LoadHandle(c) PROVE MutexInv'
  BY <1>14 DEF LoadHandle
<1>15. ASSUME NEW c \in Clients, UseHandle(c) PROVE MutexInv'
  BY <1>15 DEF UseHandle
<1>16. ASSUME NEW c \in Clients, GetState(c) PROVE MutexInv'
  BY <1>16 DEF GetState
<1>17. ASSUME NEW c \in Clients, DtorSetFlags(c) PROVE MutexInv'
  BY <1>17 DEF DtorSetFlags
<1>18. ASSUME NEW c \in Clients, DtorNotify(c) PROVE MutexInv'
  BY <1>18 DEF DtorNotify
<1>19. ASSUME NEW c \in Clients, DtorJoin(c) PROVE MutexInv'
  BY <1>19 DEF DtorJoin
<1>20. ASSUME ReadBlock PROVE MutexInv'
  BY <1>20 DEF ReadBlock
<1>21. ASSUME CheckStop PROVE MutexInv'
  BY <1>21 DEF CheckStop
<1>22. ASSUME ReadEnd PROVE MutexInv'
  BY <1>22 DEF ReadEnd
<1>23. ASSUME FreeHandle PROVE MutexInv'
  BY <1>23 DEF FreeHandle
<1>24. ASSUME ClearHandle PROVE MutexInv'
  BY <1>24 DEF ClearHandle
<1>25. ASSUME Reopen PROVE MutexInv'
  BY <1>25 DEF Reopen
<1>26. ASSUME ReadVolume PROVE MutexInv'
  BY <1>26 DEF ReadVolume
<1>27. ASSUME SetHandleVolume PROVE MutexInv'
  BY <1>27 DEF SetHandleVolume
<1>28. ASSUME Notify PROVE MutexInv'
  BY <1>28 DEF Notify
<1>29. ASSUME AutoLockCv PROVE MutexInv'
  BY <1>29 DEF AutoLockCv
<1>30. ASSUME SpuriousWakeup PROVE MutexInv'
  BY <1>30 DEF SpuriousWakeup
<1>31. ASSUME AutoLockState PROVE MutexInv'
  BY <1>31 DEF AutoLockState
<1>32. ASSUME AutoStop PROVE MutexInv'
  BY <1>32 DEF AutoStop
<1>33. ASSUME AutoTest PROVE MutexInv'
  BY <1>33 DEF AutoTest
<1>34. ASSUME FileSystem PROVE MutexInv'
  BY <1>34 DEF FileSystem
<1>35. ASSUME UNCHANGED vars PROVE MutexInv'
  BY <1>35
<1> QED
  BY <1>1, <1>2, <1>3, <1>4, <1>5, <1>6, <1>7, <1>8, <1>9, <1>10, <1>11,
     <1>12, <1>13, <1>14, <1>15, <1>16, <1>17, <1>18, <1>19, <1>20, <1>21, <1>22,
     <1>23, <1>24, <1>25, <1>26, <1>27, <1>28, <1>29, <1>30, <1>31, <1>32,
     <1>33, <1>34, <1>35
     DEF Next, ClientStep, Locks, Continues, PlayThread, AutoThread

\* A client in the middle of a call has one, of the right kind.
LEMMA CallStep ==
    ASSUME TypeOK, MutexInv, CallInv, ThreadInv, [Next]_vars
    PROVE  CallInv'
<1> USE DEF TypeOK
<1> USE ClientsAssumption
        DEF vars, mutexes, playerVars, handleVars, threadVars, autoVars,
            clientVars, PlayerFrame, ThreadFrame,
            CallInv, MutexInv, ThreadInv, AutoTypeOK, ClientTypeOK, OpenPlayer,
            ClosePlayer, RunPlayThread, JoinPlayThread, ToPlayState,
            ToStopState, Return, Runs, Joined
<1>1. ASSUME NEW c \in Clients, Call(c) PROVE CallInv'
  BY <1>1 DEF Call
<1>2. ASSUME NEW c \in Clients, StopStatePlay(c) PROVE CallInv'
  BY <1>2 DEF StopStatePlay
<1>3. ASSUME NEW c \in Clients, NothingToDo(c) PROVE CallInv'
  BY <1>3 DEF NothingToDo
<1>4. ASSUME NEW c \in Clients, StopPlayThread(c) PROVE CallInv'
  BY <1>4 DEF StopPlayThread
<1>5. ASSUME NEW c \in Clients, PlayStatePlay(c) PROVE CallInv'
  BY <1>5 DEF PlayStatePlay
<1>6. ASSUME NEW c \in Clients, PlayStatePause(c) PROVE CallInv'
  BY <1>6 DEF PlayStatePause
<1>7. ASSUME NEW c \in Clients, PlayStateStop(c) PROVE CallInv'
  BY <1>7 DEF PlayStateStop
<1>8. ASSUME NEW c \in Clients, PauseStatePlay(c) PROVE CallInv'
  BY <1>8 DEF PauseStatePlay
<1>9. ASSUME NEW c \in Clients, PauseStateResume(c) PROVE CallInv'
  BY <1>9 DEF PauseStateResume
<1>10. ASSUME NEW c \in Clients, PauseStateStop(c) PROVE CallInv'
  BY <1>10 DEF PauseStateStop
<1>11. ASSUME NEW c \in Clients, SetVolumeRejected(c) PROVE CallInv'
  BY <1>11 DEF SetVolumeRejected
<1>12. ASSUME NEW c \in Clients, IdleSetVolume(c) PROVE CallInv'
  BY <1>12 DEF IdleSetVolume
<1>13. ASSUME NEW c \in Clients, PlayStateSetVolume(c) PROVE CallInv'
  BY <1>13 DEF PlayStateSetVolume
<1>14. ASSUME NEW c \in Clients, LoadHandle(c) PROVE CallInv'
  BY <1>14 DEF LoadHandle
<1>15. ASSUME NEW c \in Clients, UseHandle(c) PROVE CallInv'
  BY <1>15 DEF UseHandle
<1>16. ASSUME NEW c \in Clients, GetState(c) PROVE CallInv'
  BY <1>16 DEF GetState
<1>17. ASSUME NEW c \in Clients, DtorSetFlags(c) PROVE CallInv'
  BY <1>17 DEF DtorSetFlags
<1>18. ASSUME NEW c \in Clients, DtorNotify(c) PROVE CallInv'
  BY <1>18 DEF DtorNotify
<1>19. ASSUME NEW c \in Clients, DtorJoin(c) PROVE CallInv'
  BY <1>19 DEF DtorJoin
<1>20. ASSUME ReadBlock PROVE CallInv'
  BY <1>20 DEF ReadBlock
<1>21. ASSUME CheckStop PROVE CallInv'
  BY <1>21 DEF CheckStop
<1>22. ASSUME ReadEnd PROVE CallInv'
  BY <1>22 DEF ReadEnd
<1>23. ASSUME FreeHandle PROVE CallInv'
  BY <1>23 DEF FreeHandle
<1>24. ASSUME ClearHandle PROVE CallInv'
  BY <1>24 DEF ClearHandle
<1>25. ASSUME Reopen PROVE CallInv'
  BY <1>25 DEF Reopen
<1>26. ASSUME ReadVolume PROVE CallInv'
  BY <1>26 DEF ReadVolume
<1>27. ASSUME SetHandleVolume PROVE CallInv'
  BY <1>27 DEF SetHandleVolume
<1>28. ASSUME Notify PROVE CallInv'
  BY <1>28 DEF Notify
<1>29. ASSUME AutoLockCv PROVE CallInv'
  BY <1>29 DEF AutoLockCv
<1>30. ASSUME SpuriousWakeup PROVE CallInv'
  BY <1>30 DEF SpuriousWakeup
<1>31. ASSUME AutoLockState PROVE CallInv'
  BY <1>31 DEF AutoLockState
<1>32. ASSUME AutoStop PROVE CallInv'
  BY <1>32 DEF AutoStop
<1>33. ASSUME AutoTest PROVE CallInv'
  BY <1>33 DEF AutoTest
<1>34. ASSUME FileSystem PROVE CallInv'
  BY <1>34 DEF FileSystem
<1>35. ASSUME UNCHANGED vars PROVE CallInv'
  BY <1>35
<1> QED
  BY <1>1, <1>2, <1>3, <1>4, <1>5, <1>6, <1>7, <1>8, <1>9, <1>10, <1>11,
     <1>12, <1>13, <1>14, <1>15, <1>16, <1>17, <1>18, <1>19, <1>20, <1>21, <1>22,
     <1>23, <1>24, <1>25, <1>26, <1>27, <1>28, <1>29, <1>30, <1>31, <1>32,
     <1>33, <1>34, <1>35
     DEF Next, ClientStep, Locks, Continues, PlayThread, AutoThread

\* The play thread exists in the Play state only, and counts its plays.
LEMMA ThreadStep ==
    ASSUME TypeOK, MutexInv, CallInv, ThreadInv, [Next]_vars
    PROVE  ThreadInv'
<1> USE DEF TypeOK
<1> USE IdsAssumption, PlaysTyped, ClientsAssumption,
        LoopsAssumption
        DEF vars, mutexes, playerVars, handleVars, threadVars, autoVars,
            clientVars, PlayerFrame, ThreadFrame,
            ThreadInv, ThreadOnlyInPlayState, CallInv, MutexInv, Modes, Ended,
            ThreadTypeOK, AutoMatches, Notified, OpenPlayer, ClosePlayer,
            RunPlayThread, JoinPlayThread, ToPlayState, ToStopState, Return,
            Runs, Joined
<1>1. ASSUME NEW c \in Clients, Call(c) PROVE ThreadInv'
  BY <1>1 DEF Call
<1>2. ASSUME NEW c \in Clients, StopStatePlay(c) PROVE ThreadInv'
  <2>1. call[c].op = "Play" /\ call[c].file \in Files
    BY <1>2, CallFields DEF StopStatePlay
  <2>2. CASE \E m \in Modes : RunPlayThread(m)
    BY <1>2, <2>1, <2>2 DEF StopStatePlay
  <2>3. CASE ~\E m \in Modes : RunPlayThread(m)
    BY <1>2, <2>3 DEF StopStatePlay
  <2> QED
    BY <2>2, <2>3
<1>3. ASSUME NEW c \in Clients, NothingToDo(c) PROVE ThreadInv'
  BY <1>3 DEF NothingToDo
<1>4. ASSUME NEW c \in Clients, StopPlayThread(c) PROVE ThreadInv'
  BY <1>4 DEF StopPlayThread
<1>5. ASSUME NEW c \in Clients, PlayStatePlay(c) PROVE ThreadInv'
  <2>1. call[c].op = "Play" /\ call[c].file \in Files
    BY <1>5, CallFields DEF PlayStatePlay
  <2>2. CASE \E m \in Modes : RunPlayThread(m)
    BY <1>5, <2>1, <2>2 DEF PlayStatePlay
  <2>3. CASE ~\E m \in Modes : RunPlayThread(m)
    BY <1>5, <2>3 DEF PlayStatePlay
  <2> QED
    BY <2>2, <2>3
<1>6. ASSUME NEW c \in Clients, PlayStatePause(c) PROVE ThreadInv'
  BY <1>6 DEF PlayStatePause
<1>7. ASSUME NEW c \in Clients, PlayStateStop(c) PROVE ThreadInv'
  BY <1>7 DEF PlayStateStop
<1>8. ASSUME NEW c \in Clients, PauseStatePlay(c) PROVE ThreadInv'
  BY <1>8 DEF PauseStatePlay
<1>9. ASSUME NEW c \in Clients, PauseStateResume(c) PROVE ThreadInv'
  BY <1>9 DEF PauseStateResume
<1>10. ASSUME NEW c \in Clients, PauseStateStop(c) PROVE ThreadInv'
  BY <1>10 DEF PauseStateStop
<1>11. ASSUME NEW c \in Clients, SetVolumeRejected(c) PROVE ThreadInv'
  BY <1>11 DEF SetVolumeRejected
<1>12. ASSUME NEW c \in Clients, IdleSetVolume(c) PROVE ThreadInv'
  BY <1>12 DEF IdleSetVolume
<1>13. ASSUME NEW c \in Clients, PlayStateSetVolume(c) PROVE ThreadInv'
  BY <1>13 DEF PlayStateSetVolume
<1>14. ASSUME NEW c \in Clients, LoadHandle(c) PROVE ThreadInv'
  BY <1>14 DEF LoadHandle
<1>15. ASSUME NEW c \in Clients, UseHandle(c) PROVE ThreadInv'
  BY <1>15 DEF UseHandle
<1>16. ASSUME NEW c \in Clients, GetState(c) PROVE ThreadInv'
  BY <1>16 DEF GetState
<1>17. ASSUME NEW c \in Clients, DtorSetFlags(c) PROVE ThreadInv'
  BY <1>17 DEF DtorSetFlags
<1>18. ASSUME NEW c \in Clients, DtorNotify(c) PROVE ThreadInv'
  BY <1>18 DEF DtorNotify
<1>19. ASSUME NEW c \in Clients, DtorJoin(c) PROVE ThreadInv'
  BY <1>19 DEF DtorJoin
<1>20. ASSUME ReadBlock PROVE ThreadInv'
  BY <1>20 DEF ReadBlock
<1>21. ASSUME CheckStop PROVE ThreadInv'
  BY <1>21 DEF CheckStop
<1>22. ASSUME ReadEnd PROVE ThreadInv'
  BY <1>22 DEF ReadEnd
<1>23. ASSUME FreeHandle PROVE ThreadInv'
  BY <1>23 DEF FreeHandle
<1>24. ASSUME ClearHandle PROVE ThreadInv'
  BY <1>24 DEF ClearHandle
<1>25. ASSUME Reopen PROVE ThreadInv'
  BY <1>25 DEF Reopen
<1>26. ASSUME ReadVolume PROVE ThreadInv'
  BY <1>26 DEF ReadVolume
<1>27. ASSUME SetHandleVolume PROVE ThreadInv'
  BY <1>27 DEF SetHandleVolume
<1>28. ASSUME Notify PROVE ThreadInv'
  BY <1>28 DEF Notify
<1>29. ASSUME AutoLockCv PROVE ThreadInv'
  BY <1>29 DEF AutoLockCv
<1>30. ASSUME SpuriousWakeup PROVE ThreadInv'
  BY <1>30 DEF SpuriousWakeup
<1>31. ASSUME AutoLockState PROVE ThreadInv'
  BY <1>31 DEF AutoLockState
<1>32. ASSUME AutoStop PROVE ThreadInv'
  BY <1>32 DEF AutoStop
<1>33. ASSUME AutoTest PROVE ThreadInv'
  BY <1>33 DEF AutoTest
<1>34. ASSUME FileSystem PROVE ThreadInv'
  BY <1>34 DEF FileSystem
<1>35. ASSUME UNCHANGED vars PROVE ThreadInv'
  BY <1>35
<1> QED
  BY <1>1, <1>2, <1>3, <1>4, <1>5, <1>6, <1>7, <1>8, <1>9, <1>10, <1>11,
     <1>12, <1>13, <1>14, <1>15, <1>16, <1>17, <1>18, <1>19, <1>20, <1>21, <1>22,
     <1>23, <1>24, <1>25, <1>26, <1>27, <1>28, <1>29, <1>30, <1>31, <1>32,
     <1>33, <1>34, <1>35
     DEF Next, ClientStep, Locks, Continues, PlayThread, AutoThread

\* The handle follows the play thread.
LEMMA HandleStep ==
    ASSUME TypeOK, CallInv, ThreadInv, HandleInv, [Next]_vars
    PROVE  HandleInv'
<1> USE DEF TypeOK
<1> USE FilesAssumption
        DEF vars, mutexes, playerVars, handleVars, threadVars, autoVars,
            clientVars, PlayerFrame, ThreadFrame,
            HandleInv, StoppedHoldsNoStream, ThreadInv, ThreadOnlyInPlayState,
            CallInv, Ended, ThreadTypeOK, Modes, OpenPlayer, ClosePlayer,
            RunPlayThread, JoinPlayThread, ToPlayState, ToStopState, Return,
            Runs, Joined
<1>1. ASSUME NEW c \in Clients, Call(c) PROVE HandleInv'
  BY <1>1 DEF Call
<1>2. ASSUME NEW c \in Clients, StopStatePlay(c) PROVE HandleInv'
  BY <1>2 DEF StopStatePlay
<1>3. ASSUME NEW c \in Clients, NothingToDo(c) PROVE HandleInv'
  BY <1>3 DEF NothingToDo
<1>4. ASSUME NEW c \in Clients, StopPlayThread(c) PROVE HandleInv'
  BY <1>4 DEF StopPlayThread
<1>5. ASSUME NEW c \in Clients, PlayStatePlay(c) PROVE HandleInv'
  BY <1>5 DEF PlayStatePlay
<1>6. ASSUME NEW c \in Clients, PlayStatePause(c) PROVE HandleInv'
  BY <1>6 DEF PlayStatePause
<1>7. ASSUME NEW c \in Clients, PlayStateStop(c) PROVE HandleInv'
  BY <1>7 DEF PlayStateStop
<1>8. ASSUME NEW c \in Clients, PauseStatePlay(c) PROVE HandleInv'
  BY <1>8 DEF PauseStatePlay
<1>9. ASSUME NEW c \in Clients, PauseStateResume(c) PROVE HandleInv'
  BY <1>9 DEF PauseStateResume
<1>10. ASSUME NEW c \in Clients, PauseStateStop(c) PROVE HandleInv'
  BY <1>10 DEF PauseStateStop
<1>11. ASSUME NEW c \in Clients, SetVolumeRejected(c) PROVE HandleInv'
  BY <1>11 DEF SetVolumeRejected
<1>12. ASSUME NEW c \in Clients, IdleSetVolume(c) PROVE HandleInv'
  BY <1>12 DEF IdleSetVolume
<1>13. ASSUME NEW c \in Clients, PlayStateSetVolume(c) PROVE HandleInv'
  BY <1>13 DEF PlayStateSetVolume
<1>14. ASSUME NEW c \in Clients, LoadHandle(c) PROVE HandleInv'
  BY <1>14 DEF LoadHandle
<1>15. ASSUME NEW c \in Clients, UseHandle(c) PROVE HandleInv'
  BY <1>15 DEF UseHandle
<1>16. ASSUME NEW c \in Clients, GetState(c) PROVE HandleInv'
  BY <1>16 DEF GetState
<1>17. ASSUME NEW c \in Clients, DtorSetFlags(c) PROVE HandleInv'
  BY <1>17 DEF DtorSetFlags
<1>18. ASSUME NEW c \in Clients, DtorNotify(c) PROVE HandleInv'
  BY <1>18 DEF DtorNotify
<1>19. ASSUME NEW c \in Clients, DtorJoin(c) PROVE HandleInv'
  BY <1>19 DEF DtorJoin
<1>20. ASSUME ReadBlock PROVE HandleInv'
  BY <1>20 DEF ReadBlock
<1>21. ASSUME CheckStop PROVE HandleInv'
  BY <1>21 DEF CheckStop
<1>22. ASSUME ReadEnd PROVE HandleInv'
  BY <1>22 DEF ReadEnd
<1>23. ASSUME FreeHandle PROVE HandleInv'
  BY <1>23 DEF FreeHandle
<1>24. ASSUME ~crashed, ClearHandle PROVE HandleInv'
  BY <1>24 DEF ClearHandle
<1>25. ASSUME Reopen PROVE HandleInv'
  BY <1>25 DEF Reopen
<1>26. ASSUME ReadVolume PROVE HandleInv'
  BY <1>26 DEF ReadVolume
<1>27. ASSUME SetHandleVolume PROVE HandleInv'
  BY <1>27 DEF SetHandleVolume
<1>28. ASSUME Notify PROVE HandleInv'
  BY <1>28 DEF Notify
<1>29. ASSUME AutoLockCv PROVE HandleInv'
  BY <1>29 DEF AutoLockCv
<1>30. ASSUME SpuriousWakeup PROVE HandleInv'
  BY <1>30 DEF SpuriousWakeup
<1>31. ASSUME AutoLockState PROVE HandleInv'
  BY <1>31 DEF AutoLockState
<1>32. ASSUME AutoStop PROVE HandleInv'
  BY <1>32 DEF AutoStop
<1>33. ASSUME AutoTest PROVE HandleInv'
  BY <1>33 DEF AutoTest
<1>34. ASSUME FileSystem PROVE HandleInv'
  BY <1>34 DEF FileSystem
<1>35. ASSUME UNCHANGED vars PROVE HandleInv'
  BY <1>35
<1> QED
  BY <1>1, <1>2, <1>3, <1>4, <1>5, <1>6, <1>7, <1>8, <1>9, <1>10, <1>11,
     <1>12, <1>13, <1>14, <1>15, <1>16, <1>17, <1>18, <1>19, <1>20, <1>21, <1>22,
     <1>23, <1>24, <1>25, <1>26, <1>27, <1>28, <1>29, <1>30, <1>31, <1>32,
     <1>33, <1>34, <1>35
     DEF Next, ClientStep, Locks, Continues, PlayThread, AutoThread

\* Only in a loop is the handle freed that SetVolume has loaded.
LEMMA LoadedStep ==
    ASSUME TypeOK, MutexInv, CallInv, ThreadInv, HandleInv, LoadedInv,
           [Next]_vars
    PROVE  LoadedInv'
<1> USE DEF TypeOK
<1> USE FilesAssumption, ClientsAssumption, LoopsAssumption
        DEF vars, mutexes, playerVars, handleVars, threadVars, autoVars,
            clientVars, PlayerFrame, ThreadFrame,
            LoadedInv, Looped, MutexInv, HandleInv, ThreadInv,
            ThreadOnlyInPlayState, CallInv, ClientTypeOK, AutoTypeOK, Ended, ThreadTypeOK, Modes, OpenPlayer, ClosePlayer,
            RunPlayThread, JoinPlayThread, ToPlayState, ToStopState, Return,
            Runs, Joined
<1>1. ASSUME NEW c \in Clients, Call(c) PROVE LoadedInv'
  BY <1>1 DEF Call
<1>2. ASSUME NEW c \in Clients, StopStatePlay(c) PROVE LoadedInv'
  BY <1>2 DEF StopStatePlay
<1>3. ASSUME NEW c \in Clients, NothingToDo(c) PROVE LoadedInv'
  BY <1>3 DEF NothingToDo
<1>4. ASSUME NEW c \in Clients, StopPlayThread(c) PROVE LoadedInv'
  BY <1>4 DEF StopPlayThread
<1>5. ASSUME ~crashed, NEW c \in Clients, PlayStatePlay(c) PROVE LoadedInv'
  <2>1. \A d \in Clients : pc[d] # "use" /\ pc'[d] # "use"
    BY <1>5 DEF PlayStatePlay
  <2>2. loaded = "none" /\ loaded' = "none" /\ ~crashed'
    BY <1>5, <2>1 DEF PlayStatePlay
  <2>3. playPc' \in {"none", "read"}
    BY <1>5 DEF PlayStatePlay
  <2> QED BY <2>1, <2>2, <2>3
<1>6. ASSUME ~crashed, NEW c \in Clients, PlayStatePause(c) PROVE LoadedInv'
  <2>1. \A d \in Clients : pc[d] # "use" /\ pc'[d] # "use"
    BY <1>6 DEF PlayStatePause
  <2>2. loaded = "none" /\ loaded' = "none" /\ ~crashed'
    BY <1>6, <2>1 DEF PlayStatePause
  <2>3. playPc' \in {"none", "read"}
    BY <1>6 DEF PlayStatePause
  <2> QED BY <2>1, <2>2, <2>3
<1>7. ASSUME ~crashed, NEW c \in Clients, PlayStateStop(c) PROVE LoadedInv'
  <2>1. \A d \in Clients : pc[d] # "use" /\ pc'[d] # "use"
    BY <1>7 DEF PlayStateStop
  <2>2. loaded = "none" /\ loaded' = "none" /\ ~crashed'
    BY <1>7, <2>1 DEF PlayStateStop
  <2>3. playPc' \in {"none", "read"}
    BY <1>7 DEF PlayStateStop
  <2> QED BY <2>1, <2>2, <2>3
<1>8. ASSUME NEW c \in Clients, PauseStatePlay(c) PROVE LoadedInv'
  BY <1>8 DEF PauseStatePlay
<1>9. ASSUME NEW c \in Clients, PauseStateResume(c) PROVE LoadedInv'
  BY <1>9 DEF PauseStateResume
<1>10. ASSUME NEW c \in Clients, PauseStateStop(c) PROVE LoadedInv'
  BY <1>10 DEF PauseStateStop
<1>11. ASSUME NEW c \in Clients, SetVolumeRejected(c) PROVE LoadedInv'
  BY <1>11 DEF SetVolumeRejected
<1>12. ASSUME NEW c \in Clients, IdleSetVolume(c) PROVE LoadedInv'
  BY <1>12 DEF IdleSetVolume
<1>13. ASSUME NEW c \in Clients, PlayStateSetVolume(c) PROVE LoadedInv'
  BY <1>13 DEF PlayStateSetVolume
<1>14. ASSUME NEW c \in Clients, LoadHandle(c) PROVE LoadedInv'
  BY <1>14 DEF LoadHandle
<1>15. ASSUME NEW c \in Clients, UseHandle(c) PROVE LoadedInv'
  BY <1>15 DEF UseHandle
<1>16. ASSUME NEW c \in Clients, GetState(c) PROVE LoadedInv'
  BY <1>16 DEF GetState
<1>17. ASSUME NEW c \in Clients, DtorSetFlags(c) PROVE LoadedInv'
  BY <1>17 DEF DtorSetFlags
<1>18. ASSUME NEW c \in Clients, DtorNotify(c) PROVE LoadedInv'
  BY <1>18 DEF DtorNotify
<1>19. ASSUME NEW c \in Clients, DtorJoin(c) PROVE LoadedInv'
  BY <1>19 DEF DtorJoin
<1>20. ASSUME ReadBlock PROVE LoadedInv'
  BY <1>20 DEF ReadBlock
<1>21. ASSUME CheckStop PROVE LoadedInv'
  BY <1>21 DEF CheckStop
<1>22. ASSUME ReadEnd PROVE LoadedInv'
  BY <1>22 DEF ReadEnd
<1>23. ASSUME FreeHandle PROVE LoadedInv'
  BY <1>23 DEF FreeHandle
<1>24. ASSUME ~crashed, ClearHandle PROVE LoadedInv'
  BY <1>24 DEF ClearHandle
<1>25. ASSUME Reopen PROVE LoadedInv'
  BY <1>25 DEF Reopen
<1>26. ASSUME ReadVolume PROVE LoadedInv'
  BY <1>26 DEF ReadVolume
<1>27. ASSUME SetHandleVolume PROVE LoadedInv'
  BY <1>27 DEF SetHandleVolume
<1>28. ASSUME Notify PROVE LoadedInv'
  BY <1>28 DEF Notify
<1>29. ASSUME AutoLockCv PROVE LoadedInv'
  BY <1>29 DEF AutoLockCv
<1>30. ASSUME SpuriousWakeup PROVE LoadedInv'
  BY <1>30 DEF SpuriousWakeup
<1>31. ASSUME AutoLockState PROVE LoadedInv'
  BY <1>31 DEF AutoLockState
<1>32. ASSUME ~crashed, AutoStop PROVE LoadedInv'
  <2>1. \A d \in Clients : pc[d] # "use" /\ pc'[d] # "use"
    BY <1>32 DEF AutoStop
  <2>2. loaded = "none" /\ loaded' = "none" /\ ~crashed'
    BY <1>32, <2>1 DEF AutoStop
  <2>3. playPc' \in {"none", "read"}
    BY <1>32 DEF AutoStop
  <2> QED BY <2>1, <2>2, <2>3
<1>33. ASSUME AutoTest PROVE LoadedInv'
  BY <1>33 DEF AutoTest
<1>34. ASSUME FileSystem PROVE LoadedInv'
  BY <1>34 DEF FileSystem
<1>35. ASSUME UNCHANGED vars PROVE LoadedInv'
  BY <1>35
<1> QED
  BY <1>1, <1>2, <1>3, <1>4, <1>5, <1>6, <1>7, <1>8, <1>9, <1>10, <1>11,
     <1>12, <1>13, <1>14, <1>15, <1>16, <1>17, <1>18, <1>19, <1>20, <1>21, <1>22,
     <1>23, <1>24, <1>25, <1>26, <1>27, <1>28, <1>29, <1>30, <1>31, <1>32,
     <1>33, <1>34, <1>35
     DEF Next, ClientStep, Locks, Continues, PlayThread, AutoThread

\* The handle has the volume of the player, outside a loop.
LEMMA VolumeStep ==
    ASSUME TypeOK, MutexInv, CallInv, ThreadInv, HandleInv, LoadedInv,
           VolumeInEffect, [Next]_vars
    PROVE  VolumeInEffect'
<1> USE DEF TypeOK
<1> USE FilesAssumption, ClientsAssumption
        DEF vars, mutexes, playerVars, handleVars, threadVars, autoVars,
            clientVars, PlayerFrame, ThreadFrame,
            VolumeInEffect, MutexInv, HandleInv, LoadedInv, ThreadInv,
            ThreadOnlyInPlayState, CallInv, Ended, ClientTypeOK,
            StoppedHoldsNoStream, OpenPlayer, ClosePlayer, RunPlayThread,
            JoinPlayThread, ToPlayState, ToStopState, Return, Runs, Joined
<1>1. ASSUME NEW c \in Clients, Call(c) PROVE VolumeInEffect'
  BY <1>1 DEF Call
<1>2. ASSUME NEW c \in Clients, StopStatePlay(c) PROVE VolumeInEffect'
  BY <1>2 DEF StopStatePlay
<1>3. ASSUME NEW c \in Clients, NothingToDo(c) PROVE VolumeInEffect'
  BY <1>3 DEF NothingToDo
<1>4. ASSUME NEW c \in Clients, StopPlayThread(c) PROVE VolumeInEffect'
  BY <1>4 DEF StopPlayThread
<1>5. ASSUME NEW c \in Clients, PlayStatePlay(c) PROVE VolumeInEffect'
  BY <1>5 DEF PlayStatePlay
<1>6. ASSUME NEW c \in Clients, PlayStatePause(c) PROVE VolumeInEffect'
  BY <1>6 DEF PlayStatePause
<1>7. ASSUME NEW c \in Clients, PlayStateStop(c) PROVE VolumeInEffect'
  BY <1>7 DEF PlayStateStop
<1>8. ASSUME NEW c \in Clients, PauseStatePlay(c) PROVE VolumeInEffect'
  BY <1>8 DEF PauseStatePlay
<1>9. ASSUME NEW c \in Clients, PauseStateResume(c) PROVE VolumeInEffect'
  BY <1>9 DEF PauseStateResume
<1>10. ASSUME NEW c \in Clients, PauseStateStop(c) PROVE VolumeInEffect'
  BY <1>10 DEF PauseStateStop
<1>11. ASSUME NEW c \in Clients, SetVolumeRejected(c) PROVE VolumeInEffect'
  BY <1>11 DEF SetVolumeRejected
<1>12. ASSUME NEW c \in Clients, IdleSetVolume(c) PROVE VolumeInEffect'
  BY <1>12 DEF IdleSetVolume
<1>13. ASSUME NEW c \in Clients, PlayStateSetVolume(c) PROVE VolumeInEffect'
  BY <1>13 DEF PlayStateSetVolume
<1>14. ASSUME NEW c \in Clients, LoadHandle(c) PROVE VolumeInEffect'
  BY <1>14 DEF LoadHandle
<1>15. ASSUME NEW c \in Clients, UseHandle(c) PROVE VolumeInEffect'
  BY <1>15 DEF UseHandle
<1>16. ASSUME NEW c \in Clients, GetState(c) PROVE VolumeInEffect'
  BY <1>16 DEF GetState
<1>17. ASSUME NEW c \in Clients, DtorSetFlags(c) PROVE VolumeInEffect'
  BY <1>17 DEF DtorSetFlags
<1>18. ASSUME NEW c \in Clients, DtorNotify(c) PROVE VolumeInEffect'
  BY <1>18 DEF DtorNotify
<1>19. ASSUME NEW c \in Clients, DtorJoin(c) PROVE VolumeInEffect'
  BY <1>19 DEF DtorJoin
<1>20. ASSUME ReadBlock PROVE VolumeInEffect'
  BY <1>20 DEF ReadBlock
<1>21. ASSUME CheckStop PROVE VolumeInEffect'
  BY <1>21 DEF CheckStop
<1>22. ASSUME ReadEnd PROVE VolumeInEffect'
  BY <1>22 DEF ReadEnd
<1>23. ASSUME FreeHandle PROVE VolumeInEffect'
  BY <1>23 DEF FreeHandle
<1>24. ASSUME ClearHandle PROVE VolumeInEffect'
  BY <1>24 DEF ClearHandle
<1>25. ASSUME Reopen PROVE VolumeInEffect'
  BY <1>25 DEF Reopen
<1>26. ASSUME ReadVolume PROVE VolumeInEffect'
  BY <1>26 DEF ReadVolume
<1>27. ASSUME SetHandleVolume PROVE VolumeInEffect'
  BY <1>27 DEF SetHandleVolume
<1>28. ASSUME Notify PROVE VolumeInEffect'
  BY <1>28 DEF Notify
<1>29. ASSUME AutoLockCv PROVE VolumeInEffect'
  BY <1>29 DEF AutoLockCv
<1>30. ASSUME SpuriousWakeup PROVE VolumeInEffect'
  BY <1>30 DEF SpuriousWakeup
<1>31. ASSUME AutoLockState PROVE VolumeInEffect'
  BY <1>31 DEF AutoLockState
<1>32. ASSUME AutoStop PROVE VolumeInEffect'
  BY <1>32 DEF AutoStop
<1>33. ASSUME AutoTest PROVE VolumeInEffect'
  BY <1>33 DEF AutoTest
<1>34. ASSUME FileSystem PROVE VolumeInEffect'
  BY <1>34 DEF FileSystem
<1>35. ASSUME UNCHANGED vars PROVE VolumeInEffect'
  BY <1>35
<1> QED
  BY <1>1, <1>2, <1>3, <1>4, <1>5, <1>6, <1>7, <1>8, <1>9, <1>10, <1>11,
     <1>12, <1>13, <1>14, <1>15, <1>16, <1>17, <1>18, <1>19, <1>20, <1>21, <1>22,
     <1>23, <1>24, <1>25, <1>26, <1>27, <1>28, <1>29, <1>30, <1>31, <1>32,
     <1>33, <1>34, <1>35
     DEF Next, ClientStep, Locks, Continues, PlayThread, AutoThread

\* The id to stop is a finished thread's, or one that was given it again.
LEMMA FinishedStep ==
    ASSUME TypeOK, MutexInv, CallInv, ThreadInv, FinishedInv,
           [Next]_vars
    PROVE  FinishedInv'
<1> USE DEF TypeOK
<1> USE ClientsAssumption
        DEF vars, mutexes, playerVars, handleVars, threadVars, autoVars,
            clientVars, PlayerFrame, ThreadFrame,
            FinishedInv, AutoStopsFinishedOrReused, MutexInv, ThreadInv,
            ThreadOnlyInPlayState, CallInv, Ended, AutoMatches,
            Notified, OpenPlayer, ClosePlayer, RunPlayThread, JoinPlayThread,
            ToPlayState, ToStopState, Return, Runs, Joined
<1>1. ASSUME NEW c \in Clients, Call(c) PROVE FinishedInv'
  BY <1>1 DEF Call
<1>2. ASSUME NEW c \in Clients, StopStatePlay(c) PROVE FinishedInv'
  BY <1>2 DEF StopStatePlay
<1>3. ASSUME NEW c \in Clients, NothingToDo(c) PROVE FinishedInv'
  BY <1>3 DEF NothingToDo
<1>4. ASSUME NEW c \in Clients, StopPlayThread(c) PROVE FinishedInv'
  BY <1>4 DEF StopPlayThread
<1>5. ASSUME NEW c \in Clients, PlayStatePlay(c) PROVE FinishedInv'
  BY <1>5 DEF PlayStatePlay
<1>6. ASSUME NEW c \in Clients, PlayStatePause(c) PROVE FinishedInv'
  BY <1>6 DEF PlayStatePause
<1>7. ASSUME NEW c \in Clients, PlayStateStop(c) PROVE FinishedInv'
  BY <1>7 DEF PlayStateStop
<1>8. ASSUME NEW c \in Clients, PauseStatePlay(c) PROVE FinishedInv'
  BY <1>8 DEF PauseStatePlay
<1>9. ASSUME NEW c \in Clients, PauseStateResume(c) PROVE FinishedInv'
  BY <1>9 DEF PauseStateResume
<1>10. ASSUME NEW c \in Clients, PauseStateStop(c) PROVE FinishedInv'
  BY <1>10 DEF PauseStateStop
<1>11. ASSUME NEW c \in Clients, SetVolumeRejected(c) PROVE FinishedInv'
  BY <1>11 DEF SetVolumeRejected
<1>12. ASSUME NEW c \in Clients, IdleSetVolume(c) PROVE FinishedInv'
  BY <1>12 DEF IdleSetVolume
<1>13. ASSUME NEW c \in Clients, PlayStateSetVolume(c) PROVE FinishedInv'
  BY <1>13 DEF PlayStateSetVolume
<1>14. ASSUME NEW c \in Clients, LoadHandle(c) PROVE FinishedInv'
  BY <1>14 DEF LoadHandle
<1>15. ASSUME NEW c \in Clients, UseHandle(c) PROVE FinishedInv'
  BY <1>15 DEF UseHandle
<1>16. ASSUME NEW c \in Clients, GetState(c) PROVE FinishedInv'
  BY <1>16 DEF GetState
<1>17. ASSUME NEW c \in Clients, DtorSetFlags(c) PROVE FinishedInv'
  BY <1>17 DEF DtorSetFlags
<1>18. ASSUME NEW c \in Clients, DtorNotify(c) PROVE FinishedInv'
  BY <1>18 DEF DtorNotify
<1>19. ASSUME NEW c \in Clients, DtorJoin(c) PROVE FinishedInv'
  BY <1>19 DEF DtorJoin
<1>20. ASSUME ReadBlock PROVE FinishedInv'
  BY <1>20 DEF ReadBlock
<1>21. ASSUME CheckStop PROVE FinishedInv'
  BY <1>21 DEF CheckStop
<1>22. ASSUME ReadEnd PROVE FinishedInv'
  BY <1>22 DEF ReadEnd
<1>23. ASSUME FreeHandle PROVE FinishedInv'
  BY <1>23 DEF FreeHandle
<1>24. ASSUME ClearHandle PROVE FinishedInv'
  BY <1>24 DEF ClearHandle
<1>25. ASSUME Reopen PROVE FinishedInv'
  BY <1>25 DEF Reopen
<1>26. ASSUME ReadVolume PROVE FinishedInv'
  BY <1>26 DEF ReadVolume
<1>27. ASSUME SetHandleVolume PROVE FinishedInv'
  BY <1>27 DEF SetHandleVolume
<1>28. ASSUME Notify PROVE FinishedInv'
  BY <1>28 DEF Notify
<1>29. ASSUME AutoLockCv PROVE FinishedInv'
  BY <1>29 DEF AutoLockCv
<1>30. ASSUME SpuriousWakeup PROVE FinishedInv'
  BY <1>30 DEF SpuriousWakeup
<1>31. ASSUME AutoLockState PROVE FinishedInv'
  BY <1>31 DEF AutoLockState
<1>32. ASSUME AutoStop PROVE FinishedInv'
  BY <1>32 DEF AutoStop
<1>33. ASSUME AutoTest PROVE FinishedInv'
  BY <1>33 DEF AutoTest
<1>34. ASSUME FileSystem PROVE FinishedInv'
  BY <1>34 DEF FileSystem
<1>35. ASSUME UNCHANGED vars PROVE FinishedInv'
  BY <1>35
<1> QED
  BY <1>1, <1>2, <1>3, <1>4, <1>5, <1>6, <1>7, <1>8, <1>9, <1>10, <1>11,
     <1>12, <1>13, <1>14, <1>15, <1>16, <1>17, <1>18, <1>19, <1>20, <1>21, <1>22,
     <1>23, <1>24, <1>25, <1>26, <1>27, <1>28, <1>29, <1>30, <1>31, <1>32,
     <1>33, <1>34, <1>35
     DEF Next, ClientStep, Locks, Continues, PlayThread, AutoThread

\* The answer of Play and the state of the player change together.
LEMMA ReplyStep ==
    ASSUME TypeOK, MutexInv, CallInv, [Next]_vars
    PROVE  \A d \in Clients : PlayReply(d)
<1> USE DEF TypeOK
<1> USE ClientsAssumption
        DEF vars, mutexes, playerVars, handleVars, threadVars, autoVars,
            clientVars, PlayerFrame, ThreadFrame,
            MutexInv, CallInv, ClientTypeOK, Statuses, PlayReply, OpenPlayer,
            ClosePlayer, RunPlayThread, JoinPlayThread, ToPlayState,
            ToStopState, Return, Runs, Joined
<1>1. ASSUME NEW c \in Clients, Call(c) PROVE \A d \in Clients : PlayReply(d)
  BY <1>1 DEF Call
<1>2. ASSUME NEW c \in Clients, StopStatePlay(c)
      PROVE \A d \in Clients : PlayReply(d)
  BY <1>2 DEF StopStatePlay
<1>3. ASSUME NEW c \in Clients, NothingToDo(c)
      PROVE \A d \in Clients : PlayReply(d)
  BY <1>3 DEF NothingToDo
<1>4. ASSUME NEW c \in Clients, StopPlayThread(c)
      PROVE \A d \in Clients : PlayReply(d)
  BY <1>4 DEF StopPlayThread
<1>5. ASSUME NEW c \in Clients, PlayStatePlay(c)
      PROVE \A d \in Clients : PlayReply(d)
  BY <1>5 DEF PlayStatePlay
<1>6. ASSUME NEW c \in Clients, PlayStatePause(c)
      PROVE \A d \in Clients : PlayReply(d)
  BY <1>6 DEF PlayStatePause
<1>7. ASSUME NEW c \in Clients, PlayStateStop(c)
      PROVE \A d \in Clients : PlayReply(d)
  BY <1>7 DEF PlayStateStop
<1>8. ASSUME NEW c \in Clients, PauseStatePlay(c)
      PROVE \A d \in Clients : PlayReply(d)
  BY <1>8 DEF PauseStatePlay
<1>9. ASSUME NEW c \in Clients, PauseStateResume(c)
      PROVE \A d \in Clients : PlayReply(d)
  BY <1>9 DEF PauseStateResume
<1>10. ASSUME NEW c \in Clients, PauseStateStop(c)
      PROVE \A d \in Clients : PlayReply(d)
  BY <1>10 DEF PauseStateStop
<1>11. ASSUME NEW c \in Clients, SetVolumeRejected(c)
      PROVE \A d \in Clients : PlayReply(d)
  BY <1>11 DEF SetVolumeRejected
<1>12. ASSUME NEW c \in Clients, IdleSetVolume(c)
      PROVE \A d \in Clients : PlayReply(d)
  BY <1>12 DEF IdleSetVolume
<1>13. ASSUME NEW c \in Clients, PlayStateSetVolume(c)
      PROVE \A d \in Clients : PlayReply(d)
  BY <1>13 DEF PlayStateSetVolume
<1>14. ASSUME NEW c \in Clients, LoadHandle(c)
      PROVE \A d \in Clients : PlayReply(d)
  BY <1>14 DEF LoadHandle
<1>15. ASSUME NEW c \in Clients, UseHandle(c)
      PROVE \A d \in Clients : PlayReply(d)
  BY <1>15 DEF UseHandle
<1>16. ASSUME NEW c \in Clients, GetState(c)
      PROVE \A d \in Clients : PlayReply(d)
  BY <1>16 DEF GetState
<1>17. ASSUME NEW c \in Clients, DtorSetFlags(c)
      PROVE \A d \in Clients : PlayReply(d)
  BY <1>17 DEF DtorSetFlags
<1>18. ASSUME NEW c \in Clients, DtorNotify(c)
      PROVE \A d \in Clients : PlayReply(d)
  BY <1>18 DEF DtorNotify
<1>19. ASSUME NEW c \in Clients, DtorJoin(c)
      PROVE \A d \in Clients : PlayReply(d)
  BY <1>19 DEF DtorJoin
<1>20. ASSUME ReadBlock PROVE \A d \in Clients : PlayReply(d)
  BY <1>20 DEF ReadBlock
<1>21. ASSUME CheckStop PROVE \A d \in Clients : PlayReply(d)
  BY <1>21 DEF CheckStop
<1>22. ASSUME ReadEnd PROVE \A d \in Clients : PlayReply(d)
  BY <1>22 DEF ReadEnd
<1>23. ASSUME FreeHandle PROVE \A d \in Clients : PlayReply(d)
  BY <1>23 DEF FreeHandle
<1>24. ASSUME ClearHandle PROVE \A d \in Clients : PlayReply(d)
  BY <1>24 DEF ClearHandle
<1>25. ASSUME Reopen PROVE \A d \in Clients : PlayReply(d)
  BY <1>25 DEF Reopen
<1>26. ASSUME ReadVolume PROVE \A d \in Clients : PlayReply(d)
  BY <1>26 DEF ReadVolume
<1>27. ASSUME SetHandleVolume PROVE \A d \in Clients : PlayReply(d)
  BY <1>27 DEF SetHandleVolume
<1>28. ASSUME Notify PROVE \A d \in Clients : PlayReply(d)
  BY <1>28 DEF Notify
<1>29. ASSUME AutoLockCv PROVE \A d \in Clients : PlayReply(d)
  BY <1>29 DEF AutoLockCv
<1>30. ASSUME SpuriousWakeup PROVE \A d \in Clients : PlayReply(d)
  BY <1>30 DEF SpuriousWakeup
<1>31. ASSUME AutoLockState PROVE \A d \in Clients : PlayReply(d)
  BY <1>31 DEF AutoLockState
<1>32. ASSUME AutoStop PROVE \A d \in Clients : PlayReply(d)
  BY <1>32 DEF AutoStop
<1>33. ASSUME AutoTest PROVE \A d \in Clients : PlayReply(d)
  BY <1>33 DEF AutoTest
<1>34. ASSUME FileSystem PROVE \A d \in Clients : PlayReply(d)
  BY <1>34 DEF FileSystem
<1>35. ASSUME UNCHANGED vars PROVE \A d \in Clients : PlayReply(d)
  BY <1>35
<1> QED
  BY <1>1, <1>2, <1>3, <1>4, <1>5, <1>6, <1>7, <1>8, <1>9, <1>10, <1>11,
     <1>12, <1>13, <1>14, <1>15, <1>16, <1>17, <1>18, <1>19, <1>20, <1>21, <1>22,
     <1>23, <1>24, <1>25, <1>26, <1>27, <1>28, <1>29, <1>30, <1>31, <1>32,
     <1>33, <1>34, <1>35
     DEF Next, ClientStep, Locks, Continues, PlayThread, AutoThread

-----------------------------------------------------------------------------
LEMMA InitInv == Init => IInv
<1> SUFFICES ASSUME Init PROVE IInv
  OBVIOUS
<1> USE DEF TypeOK
<1> USE ClientsAssumption, LoopsAssumption DEF Init
<1>1. PlayerTypeOK /\ ThreadTypeOK
  <2>1. PlayerTypeOK
    BY DEF PlayerTypeOK, FullVolume
  <2>2. /\ threadId = None /\ playPc = "none" /\ stopThread \in BOOLEAN
        /\ reused \in BOOLEAN
    OBVIOUS
  <2>3. playsLeft \in 0..MaxLoops /\ volumeRead \in 0..FullVolume
    BY DEF FullVolume
  <2> QED
    BY <2>1, <2>2, <2>3 DEF ThreadTypeOK
<1>2. AutoTypeOK /\ ClientTypeOK
  BY DEF AutoTypeOK, ClientTypeOK
<1>3. MutexInv /\ CallInv
  BY DEF MutexInv, CallInv
<1>4. ThreadInv /\ HandleInv /\ LoadedInv /\ VolumeInEffect
  BY DEF ThreadInv, ThreadOnlyInPlayState, HandleInv, StoppedHoldsNoStream,
         LoadedInv, VolumeInEffect
<1>5. FinishedInv
  BY DEF FinishedInv, AutoStopsFinishedOrReused
<1> QED
  BY <1>1, <1>2, <1>3, <1>4, <1>5 DEF IInv, TypeOK

LEMMA StepInv == IInv /\ [Next]_vars => IInv'
  BY PlayerTypeStep, ThreadTypeStep, AutoTypeStep, ClientTypeStep, MutexStep,
     CallStep, ThreadStep, HandleStep, LoadedStep, VolumeStep, FinishedStep
  DEF IInv, TypeOK

\* The inductive invariant holds whatever the constants are.
THEOREM Inductive == Spec => []IInv
<1>1. Init => IInv
  BY InitInv
<1>2. IInv /\ [Next]_vars => IInv'
  BY StepInv
<1> QED
  BY <1>1, <1>2, PTL DEF Spec

\* Every variable of the player keeps its type, for any clients, files and
\* number of plays.
THEOREM TypeCorrect == Spec => []TypeOK
<1>1. IInv => TypeOK
  BY DEF IInv
<1> QED
  BY <1>1, Inductive, PTL

\* The player has an unjoined play thread exactly in its Play state.
THEOREM ThreadOnlyInPlay == Spec => []ThreadOnlyInPlayState
<1>1. IInv => ThreadOnlyInPlayState
  BY DEF IInv, ThreadInv
<1> QED
  BY <1>1, Inductive, PTL

\* The mpg123 handle is never freed under the decoding play thread.
THEOREM HandleLives == Spec => []HandleLivesWhileDecoding
<1>1. IInv => HandleLivesWhileDecoding
  <2> SUFFICES ASSUME IInv,
                      playPc \in {"read", "check", "volume", "setVolume"}
               PROVE  handle \in {"created", "open"}
    BY DEF HandleLivesWhileDecoding
  <2>1. CASE playPc = "check"
    BY <2>1 DEF IInv, HandleInv
  <2>2. CASE playPc \in {"read", "volume", "setVolume"}
    BY <2>2 DEF IInv, HandleInv
  <2> QED
    BY <2>1, <2>2
<1> QED
  BY <1>1, Inductive, PTL

\* A stopped player holds no open stream.
THEOREM NoStreamWhenStopped == Spec => []StoppedHoldsNoStream
<1>1. IInv => StoppedHoldsNoStream
  BY DEF IInv, HandleInv
<1> QED
  BY <1>1, Inductive, PTL

\* SetVolume can have its hands on a freed handle, and the process die of it,
\* only in a looped playback that has been played once.
THEOREM CrashBounded == Spec => []CrashOnlyInLoop
<1>1. ASSUME IInv, handle = "dangling" PROVE Looped
  <2>1. playPc = "clear" /\ state = "Play"
    BY <1>1 DEF IInv, TypeOK, PlayerTypeOK, ThreadTypeOK, Ended, HandleInv,
       ThreadInv, ThreadOnlyInPlayState, StoppedHoldsNoStream
  <2> QED BY <1>1, <2>1 DEF IInv, HandleInv, LoadedInv, Looped
<1>2. IInv => CrashOnlyInLoop
  BY <1>1 DEF IInv, LoadedInv, Looped, CrashOnlyInLoop
<1> QED
  BY <1>2, Inductive, PTL

\* Outside a loop the volume in effect is volume_m.
THEOREM VolumeOutsideLoop == Spec => []VolumeInEffect
<1>1. IInv => VolumeInEffect
  BY DEF IInv
<1> QED
  BY <1>1, Inductive, PTL

\* The auto-stop thread stops nothing but a playback that finished by itself,
\* or one whose thread was given the id still kept in thread_id_to_stop_m.
THEOREM AutoStopSafe == Spec => []AutoStopsFinishedOrReused
<1>1. IInv => AutoStopsFinishedOrReused
  BY DEF IInv, FinishedInv
<1> QED
  BY <1>1, Inductive, PTL

\* What Play answers is what it leaves the player doing.
THEOREM Replies == Spec => PlayReplyTellsState
<1>1. IInv /\ [Next]_vars => \A c \in Clients : PlayReply(c)
  BY ReplyStep DEF IInv
<1> QED
  BY <1>1, Inductive, PTL DEF Spec, PlayReplyTellsState
=============================================================================
