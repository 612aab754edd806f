--------------------- MODULE Mp3PlayerRefinement_proofs ---------------------
(***************************************************************************)
(* The proof that the threaded player implements the atomic one, for any   *)
(* clients, files, volumes, thread ids and number of plays.                *)
(***************************************************************************)
EXTENDS Mp3PlayerRefinement, Mp3Player_proofs

-----------------------------------------------------------------------------
(* What the mapping needs besides IInv.                                    *)

\* A client that is not inside a call has none; a stopped player has forgotten
\* its file and mode.
Idle == \A c \in Clients : pc[c] \notin {"lock", "join", "apply", "use"} => call[c] = None

Forgotten == state = "Stop" => playFile = None /\ playMode = None

RInv == IInv /\ Idle /\ Forgotten

LEMMA IdleStep ==
    ASSUME RInv, [Next]_vars  PROVE Idle'
<1> USE DEF RInv, IInv, TypeOK, ClientTypeOK, Idle, Return, Runs, Joined, vars, clientVars, ThreadFrame
<1>1. ASSUME NEW c \in Clients, StopStatePlay(c) PROVE Idle'
  BY <1>1 DEF StopStatePlay, Idle
<1>2. ASSUME NEW c \in Clients, NothingToDo(c) PROVE Idle'
  BY <1>2 DEF NothingToDo, Idle
<1>3. ASSUME NEW c \in Clients, PlayStatePlay(c) PROVE Idle'
  BY <1>3 DEF PlayStatePlay, Idle
<1>4. ASSUME NEW c \in Clients, PlayStatePause(c) PROVE Idle'
  BY <1>4 DEF PlayStatePause, Idle
<1>5. ASSUME NEW c \in Clients, PlayStateStop(c) PROVE Idle'
  BY <1>5 DEF PlayStateStop, Idle
<1>6. ASSUME NEW c \in Clients, PauseStatePlay(c) PROVE Idle'
  BY <1>6 DEF PauseStatePlay, Idle
<1>7. ASSUME NEW c \in Clients, PauseStateResume(c) PROVE Idle'
  BY <1>7 DEF PauseStateResume, Idle
<1>8. ASSUME NEW c \in Clients, PauseStateStop(c) PROVE Idle'
  BY <1>8 DEF PauseStateStop, Idle
<1>9. ASSUME NEW c \in Clients, SetVolumeRejected(c) PROVE Idle'
  BY <1>9 DEF SetVolumeRejected, Idle
<1>10. ASSUME NEW c \in Clients, IdleSetVolume(c) PROVE Idle'
  BY <1>10 DEF IdleSetVolume, Idle
<1>11. ASSUME NEW c \in Clients, GetState(c) PROVE Idle'
  BY <1>11 DEF GetState, Idle
<1>12. ASSUME NEW c \in Clients, Call(c) PROVE Idle'
  BY <1>12 DEF Call, Idle
<1>13. ASSUME NEW c \in Clients, StopPlayThread(c) PROVE Idle'
  BY <1>13 DEF StopPlayThread, Idle
<1>14. ASSUME NEW c \in Clients, PlayStateSetVolume(c) PROVE Idle'
  BY <1>14 DEF PlayStateSetVolume, Idle
<1>15. ASSUME NEW c \in Clients, LoadHandle(c) PROVE Idle'
  BY <1>15 DEF LoadHandle, Idle
<1>16. ASSUME NEW c \in Clients, UseHandle(c) PROVE Idle'
  BY <1>16 DEF UseHandle, Idle
<1>17. ASSUME NEW c \in Clients, DtorSetFlags(c) PROVE Idle'
  BY <1>17 DEF DtorSetFlags, Idle
<1>18. ASSUME NEW c \in Clients, DtorNotify(c) PROVE Idle'
  BY <1>18 DEF DtorNotify, Idle
<1>19. ASSUME NEW c \in Clients, DtorJoin(c) PROVE Idle'
  BY <1>19 DEF DtorJoin, Idle
<1>20. CASE ReadBlock
  BY <1>20 DEF ReadBlock, Idle
<1>21. CASE CheckStop
  BY <1>21 DEF CheckStop, Idle
<1>22. CASE ReadEnd
  BY <1>22 DEF ReadEnd, Idle
<1>23. CASE FreeHandle
  BY <1>23 DEF FreeHandle, Idle
<1>24. CASE ClearHandle
  BY <1>24 DEF ClearHandle, Idle
<1>25. CASE Reopen
  BY <1>25 DEF Reopen, Idle
<1>26. CASE ReadVolume
  BY <1>26 DEF ReadVolume, Idle
<1>27. CASE SetHandleVolume
  BY <1>27 DEF SetHandleVolume, Idle
<1>28. CASE Notify
  BY <1>28 DEF Notify, Idle
<1>29. CASE AutoLockCv
  BY <1>29 DEF AutoLockCv, Idle
<1>30. CASE SpuriousWakeup
  BY <1>30 DEF SpuriousWakeup, Idle
<1>31. CASE AutoLockState
  BY <1>31 DEF AutoLockState, Idle
<1>32. CASE AutoStop
  BY <1>32 DEF AutoStop, Idle
<1>33. CASE AutoTest
  BY <1>33 DEF AutoTest, Idle
<1>34. CASE FileSystem
  BY <1>34 DEF FileSystem, Idle
<1>35. CASE UNCHANGED vars
  BY <1>35 DEF Idle
<1> QED
  BY <1>1, <1>2, <1>3, <1>4, <1>5, <1>6, <1>7, <1>8, <1>9, <1>10, <1>11,
     <1>12, <1>13, <1>14, <1>15, <1>16, <1>17, <1>18, <1>19, <1>20, <1>21, <1>22,
     <1>23, <1>24, <1>25, <1>26, <1>27, <1>28, <1>29, <1>30, <1>31, <1>32,
     <1>33, <1>34, <1>35
     DEF Next, ClientStep, Locks, Continues, PlayThread, AutoThread

LEMMA ForgottenStep ==
    ASSUME RInv, [Next]_vars  PROVE Forgotten'
<1> USE DEF RInv, Forgotten, ToStopState, ToPlayState, vars, playerVars, PlayerFrame, ThreadFrame
<1>1. ASSUME NEW c \in Clients, StopStatePlay(c) PROVE Forgotten'
  BY <1>1 DEF StopStatePlay, Forgotten
<1>2. ASSUME NEW c \in Clients, NothingToDo(c) PROVE Forgotten'
  BY <1>2 DEF NothingToDo, Forgotten
<1>3. ASSUME NEW c \in Clients, PlayStatePlay(c) PROVE Forgotten'
  BY <1>3 DEF PlayStatePlay, Forgotten
<1>4. ASSUME NEW c \in Clients, PlayStatePause(c) PROVE Forgotten'
  BY <1>4 DEF PlayStatePause, Forgotten
<1>5. ASSUME NEW c \in Clients, PlayStateStop(c) PROVE Forgotten'
  BY <1>5 DEF PlayStateStop, Forgotten
<1>6. ASSUME NEW c \in Clients, PauseStatePlay(c) PROVE Forgotten'
  BY <1>6 DEF PauseStatePlay, Forgotten
<1>7. ASSUME NEW c \in Clients, PauseStateResume(c) PROVE Forgotten'
  BY <1>7 DEF PauseStateResume, Forgotten
<1>8. ASSUME NEW c \in Clients, PauseStateStop(c) PROVE Forgotten'
  BY <1>8 DEF PauseStateStop, Forgotten
<1>9. ASSUME NEW c \in Clients, SetVolumeRejected(c) PROVE Forgotten'
  BY <1>9 DEF SetVolumeRejected, Forgotten
<1>10. ASSUME NEW c \in Clients, IdleSetVolume(c) PROVE Forgotten'
  BY <1>10 DEF IdleSetVolume, Forgotten
<1>11. ASSUME NEW c \in Clients, GetState(c) PROVE Forgotten'
  BY <1>11 DEF GetState, Forgotten
<1>12. ASSUME NEW c \in Clients, Call(c) PROVE Forgotten'
  BY <1>12 DEF Call, Forgotten
<1>13. ASSUME NEW c \in Clients, StopPlayThread(c) PROVE Forgotten'
  BY <1>13 DEF StopPlayThread, Forgotten
<1>14. ASSUME NEW c \in Clients, PlayStateSetVolume(c) PROVE Forgotten'
  BY <1>14 DEF PlayStateSetVolume, Forgotten
<1>15. ASSUME NEW c \in Clients, LoadHandle(c) PROVE Forgotten'
  BY <1>15 DEF LoadHandle, Forgotten
<1>16. ASSUME NEW c \in Clients, UseHandle(c) PROVE Forgotten'
  BY <1>16 DEF UseHandle, Forgotten
<1>17. ASSUME NEW c \in Clients, DtorSetFlags(c) PROVE Forgotten'
  BY <1>17 DEF DtorSetFlags, Forgotten
<1>18. ASSUME NEW c \in Clients, DtorNotify(c) PROVE Forgotten'
  BY <1>18 DEF DtorNotify, Forgotten
<1>19. ASSUME NEW c \in Clients, DtorJoin(c) PROVE Forgotten'
  BY <1>19 DEF DtorJoin, Forgotten
<1>20. CASE ReadBlock
  BY <1>20 DEF ReadBlock, Forgotten
<1>21. CASE CheckStop
  BY <1>21 DEF CheckStop, Forgotten
<1>22. CASE ReadEnd
  BY <1>22 DEF ReadEnd, Forgotten
<1>23. CASE FreeHandle
  BY <1>23 DEF FreeHandle, Forgotten
<1>24. CASE ClearHandle
  BY <1>24 DEF ClearHandle, Forgotten
<1>25. CASE Reopen
  BY <1>25 DEF Reopen, Forgotten
<1>26. CASE ReadVolume
  BY <1>26 DEF ReadVolume, Forgotten
<1>27. CASE SetHandleVolume
  BY <1>27 DEF SetHandleVolume, Forgotten
<1>28. CASE Notify
  BY <1>28 DEF Notify, Forgotten
<1>29. CASE AutoLockCv
  BY <1>29 DEF AutoLockCv, Forgotten
<1>30. CASE SpuriousWakeup
  BY <1>30 DEF SpuriousWakeup, Forgotten
<1>31. CASE AutoLockState
  BY <1>31 DEF AutoLockState, Forgotten
<1>32. CASE AutoStop
  BY <1>32 DEF AutoStop, Forgotten
<1>33. CASE AutoTest
  BY <1>33 DEF AutoTest, Forgotten
<1>34. CASE FileSystem
  BY <1>34 DEF FileSystem, Forgotten
<1>35. CASE UNCHANGED vars
  BY <1>35 DEF Forgotten
<1> QED
  BY <1>1, <1>2, <1>3, <1>4, <1>5, <1>6, <1>7, <1>8, <1>9, <1>10, <1>11,
     <1>12, <1>13, <1>14, <1>15, <1>16, <1>17, <1>18, <1>19, <1>20, <1>21, <1>22,
     <1>23, <1>24, <1>25, <1>26, <1>27, <1>28, <1>29, <1>30, <1>31, <1>32,
     <1>33, <1>34, <1>35
     DEF Next, ClientStep, Locks, Continues, PlayThread, AutoThread


LEMMA RInvStep == RInv /\ [Next]_vars => RInv'
  BY StepInv, IdleStep, ForgottenStep DEF RInv

-----------------------------------------------------------------------------
(* The mapping.                                                            *)

\* The atomic player, its calls and replies.
Abs      == [state |-> state, file |-> playFile, mode |-> playMode, volume |-> volume]
AbsCall  == [c \in Clients |-> IF Answered(c) THEN None ELSE call[c]]
AbsReply == [c \in Clients |-> IF Answered(c) THEN "SUCCESS" ELSE reply[c]]

\* A step that no caller can tell from nothing.
LEMMA Stutters ==
    ASSUME UNCHANGED <<playerVars, volume, call, reply, files>>,
           \A c \in Clients : Answered(c)' <=> Answered(c)
    PROVE  UNCHANGED Atomic!vars
<1>1. UNCHANGED Abs  BY DEF Abs, playerVars
<1>2. AbsCall' = AbsCall /\ AbsReply' = AbsReply  BY DEF AbsCall, AbsReply
<1> QED BY <1>1, <1>2 DEF Atomic!vars, Abs, AbsCall, AbsReply

\* A step that returns s, when s and the player it leaves are the answer of the
\* atomic player.
LEMMA Responds ==
    ASSUME RInv, NEW c \in Clients, pc[c] \in {"lock", "join"}, NEW s, Return(c, s),
           Abs' = Atomic!Answer(Abs, call[c], files).player,
           s = Atomic!Answer(Abs, call[c], files).reply, files' = files
    PROVE  Atomic!Next
<1>1. /\ pc \in [Clients -> {"idle", "lock", "join", "apply", "use",
                            "dtorCv", "dtorNotify", "dtorJoin", "gone"}]
      /\ DOMAIN call = Clients /\ DOMAIN reply = Clients
      /\ call[c] \in Calls
  BY DEF RInv, IInv, TypeOK, ClientTypeOK, CallInv
<1>2. ~Answered(c) /\ ~Answered(c)'
      /\ \A d \in Clients \ {c} : Answered(d)' <=> Answered(d)
  BY <1>1 DEF Answered, Return
<1>3. AbsCall[c] = call[c] /\ call[c] # None
  BY <1>1, <1>2, CallsAssumption DEF AbsCall
<1>4. AbsCall' = [AbsCall EXCEPT ![c] = None]
  BY <1>1, <1>2 DEF AbsCall, Return
<1>5. AbsReply' = [AbsReply EXCEPT ![c] = Atomic!Answer(Abs, AbsCall[c], files).reply]
  BY <1>1, <1>2, <1>3 DEF AbsReply, Return
<1>6. Atomic!Respond(c)
  BY <1>3, <1>4, <1>5 DEF Atomic!Respond, Abs, AbsCall, AbsReply
<1> QED BY <1>6 DEF Atomic!Next

\* The answers, call by call.
LEMMA Answers ==
    ASSUME NEW p, NEW k, NEW fs
    PROVE  /\ k.op = "Play" => Atomic!Answer(p, k, fs) = Atomic!Play(p, k.file, k.mode, fs)
           /\ k.op = "Pause" => Atomic!Answer(p, k, fs) = Atomic!Pause(p)
           /\ k.op = "Resume" => Atomic!Answer(p, k, fs) = Atomic!Resume(p, fs)
           /\ k.op = "SetVolume" => Atomic!Answer(p, k, fs) = Atomic!SetVolume(p, k.volume)
           /\ k.op = "GetState" => Atomic!Answer(p, k, fs) = Atomic!Outcome(p, Atomic!StateOf(p))
           /\ k.op \in {"Stop", "Destroy"} => Atomic!Answer(p, k, fs) = Atomic!Stop(p)
  BY DEF Atomic!Answer

\* A player changed in all fields but one.
LEMMA ThreeFields ==
    ASSUME NEW st, NEW f, NEW m, NEW v, NEW st2, NEW f2, NEW m2, NEW p, NEW q,
           p = [state |-> st, file |-> f, mode |-> m, volume |-> v],
           q = [p EXCEPT !.state = st2, !.file = f2, !.mode = m2]
    PROVE  q = [state |-> st2, file |-> f2, mode |-> m2, volume |-> v]
  OBVIOUS

\* The parts of the atomic player.
LEMMA AbsParts ==
    /\ Abs.state = state /\ Abs.file = playFile /\ Abs.mode = playMode
    /\ Atomic!Stopped(Abs) = [state |-> "Stop", file |-> None, mode |-> None, volume |-> volume]
    /\ \A f, m : Atomic!Playing(Abs, f, m) =
                   [state |-> "Play", file |-> f, mode |-> m, volume |-> volume]
    /\ \A p, s : Atomic!Outcome(p, s).player = p /\ Atomic!Outcome(p, s).reply = s
<1>0. Abs = [state |-> state, file |-> playFile, mode |-> playMode, volume |-> volume]
  BY DEF Abs
<1>1. Abs.state = state /\ Abs.file = playFile /\ Abs.mode = playMode
  BY DEF Abs
<1>2. Atomic!Stopped(Abs) = [state |-> "Stop", file |-> None, mode |-> None, volume |-> volume]
  <2>1. Atomic!Stopped(Abs) = [Abs EXCEPT !.state = "Stop", !.file = None, !.mode = None]
    BY Zenon DEF Atomic!Stopped
  <2> QED BY <1>0, <2>1, ThreeFields, Zenon
<1>3. ASSUME NEW f, NEW m
      PROVE  Atomic!Playing(Abs, f, m) =
                 [state |-> "Play", file |-> f, mode |-> m, volume |-> volume]
  <2>1. Atomic!Playing(Abs, f, m) = [Abs EXCEPT !.state = "Play", !.file = f, !.mode = m]
    BY Zenon DEF Atomic!Playing
  <2> QED BY <1>0, <2>1, ThreeFields, Zenon
<1>4. ASSUME NEW p, NEW s
      PROVE  Atomic!Outcome(p, s).player = p /\ Atomic!Outcome(p, s).reply = s
  BY DEF Atomic!Outcome
<1> QED BY <1>1, <1>2, <1>3, <1>4

LEMMA Stops ==
    ASSUME ToStopState \/ (state = "Stop" /\ Forgotten /\ UNCHANGED playerVars),
           UNCHANGED volume
    PROVE  Abs' = Atomic!Stopped(Abs)
  BY AbsParts DEF Abs, ToStopState, Forgotten, playerVars

LEMMA Plays ==
    ASSUME NEW f, NEW m, ToPlayState(f, m), UNCHANGED volume
    PROVE  Abs' = Atomic!Playing(Abs, f, m)
  BY AbsParts DEF Abs, ToPlayState

-----------------------------------------------------------------------------
(* The steps that answer.                                                  *)

LEMMA AnswersPlay ==
    ASSUME RInv, NEW c \in Clients,
           StopStatePlay(c) \/ PlayStatePlay(c) \/ PauseStatePlay(c)
    PROVE  Atomic!Next
<1> DEFINE k == call[c]
<1>1. /\ pc[c] \in {"lock", "join"} /\ k.op = "Play"
      /\ UNCHANGED <<volume, files>> /\ Forgotten
  BY DEF RInv, StopStatePlay, PlayStatePlay, PauseStatePlay, Runs, Joined
<1>2. Atomic!Answer(Abs, k, files) = Atomic!Play(Abs, k.file, k.mode, files)
  BY <1>1, Answers
<1>3. state \in {"Stop", "Play"} => StopStatePlay(c) \/ PlayStatePlay(c)
  BY DEF PauseStatePlay, Runs
<1>4. CASE PauseStatePlay(c)
  <2>1. state = "Pause" /\ ToStopState /\ Return(c, "FILE_NOT_FOUND")
    BY <1>4 DEF PauseStatePlay, Runs
  <2>2. Atomic!Answer(Abs, k, files) = Atomic!Outcome(Atomic!Stopped(Abs), "FILE_NOT_FOUND")
    BY <1>2, <2>1, AbsParts DEF Atomic!Play
  <2> QED BY <1>1, <2>1, <2>2, AbsParts, Stops, Responds
<1>5. CASE StopStatePlay(c) \/ PlayStatePlay(c)
  <2>1. state # "Pause"
    BY <1>5 DEF RInv, IInv, CallInv, StopStatePlay, PlayStatePlay, Runs, Joined
  <2>2. CASE k.mode \notin Modes
    <3>1. /\ ToStopState \/ (state = "Stop" /\ UNCHANGED playerVars)
          /\ Return(c, "WRONG_PLAY_MODE")
      BY <1>5, <2>2 DEF StopStatePlay, PlayStatePlay, Runs
    <3>2. Atomic!Answer(Abs, k, files) = Atomic!Outcome(Atomic!Stopped(Abs), "WRONG_PLAY_MODE")
      BY <1>2, <2>1, <2>2, AbsParts DEF Atomic!Play, Atomic!Modes, Modes
    <3> QED BY <1>1, <3>1, <3>2, AbsParts, Stops, Responds
  <2>3. CASE k.mode \in Modes /\ k.file \notin files
    <3>1. /\ ToStopState \/ (state = "Stop" /\ UNCHANGED playerVars)
          /\ Return(c, "FILE_NOT_FOUND")
      BY <1>5, <2>3 DEF StopStatePlay, PlayStatePlay, Runs
    <3>2. Atomic!Answer(Abs, k, files) = Atomic!Outcome(Atomic!Stopped(Abs), "FILE_NOT_FOUND")
      BY <1>2, <2>1, <2>3, AbsParts DEF Atomic!Play, Atomic!Modes, Modes
    <3> QED BY <1>1, <3>1, <3>2, AbsParts, Stops, Responds
  <2>4. CASE k.mode \in Modes /\ k.file \in files
    <3>1. ToPlayState(k.file, k.mode) /\ Return(c, "SUCCESS")
      BY <1>5, <2>4 DEF StopStatePlay, PlayStatePlay
    <3>2. Atomic!Answer(Abs, k, files) = Atomic!Outcome(Atomic!Playing(Abs, k.file, k.mode), "SUCCESS")
      BY <1>2, <2>1, <2>4, AbsParts DEF Atomic!Play, Atomic!Modes, Modes
    <3>3. Abs' = Atomic!Playing(Abs, k.file, k.mode)  BY <1>1, <3>1, Plays
    <3> QED BY <1>1, <3>1, <3>2, <3>3, AbsParts, Responds
  <2> QED BY <2>2, <2>3, <2>4
<1> QED BY <1>4, <1>5

LEMMA AnswersStop ==
    ASSUME RInv, NEW c \in Clients, PlayStateStop(c) \/ PauseStateStop(c)
    PROVE  Atomic!Next
<1>1. /\ pc[c] \in {"lock", "join"} /\ call[c].op \in {"Stop", "Destroy"}
      /\ UNCHANGED <<volume, files>> /\ ToStopState /\ Return(c, "SUCCESS")
  BY DEF PlayStateStop, PauseStateStop, Runs, Joined
<1>2. Atomic!Answer(Abs, call[c], files) = Atomic!Outcome(Atomic!Stopped(Abs), "SUCCESS")
  BY <1>1, Answers DEF Atomic!Stop
<1> QED BY <1>1, <1>2, AbsParts, Stops, Responds

LEMMA AnswersPause ==
    ASSUME RInv, NEW c \in Clients, PlayStatePause(c)
    PROVE  Atomic!Next
<1>1. /\ pc[c] = "join" /\ call[c].op = "Pause" /\ state = "Play"
      /\ state' = "Pause" /\ UNCHANGED <<playFile, playMode, volume, files>>
      /\ Return(c, "SUCCESS")
  BY DEF RInv, IInv, CallInv, PlayStatePause, Joined
<1>2. Atomic!Answer(Abs, call[c], files) = Atomic!Outcome([Abs EXCEPT !.state = "Pause"], "SUCCESS")
  BY <1>1, Answers, AbsParts DEF Atomic!Pause
<1>3. Abs' = [Abs EXCEPT !.state = "Pause"]
  BY <1>1 DEF Abs
<1> QED BY <1>1, <1>2, <1>3, AbsParts, Responds

LEMMA AnswersResume ==
    ASSUME RInv, NEW c \in Clients, PauseStateResume(c)
    PROVE  Atomic!Next
<1>1. /\ pc[c] = "lock" /\ call[c].op = "Resume" /\ state = "Pause"
      /\ UNCHANGED <<volume, files>>
  BY DEF PauseStateResume, Runs
<1>2. Atomic!Answer(Abs, call[c], files) = Atomic!Resume(Abs, files)
  BY <1>1, Answers
<1>3. CASE playFile \in files
  <2>1. ToPlayState(playFile, playMode) /\ Return(c, "SUCCESS")
    BY <1>3 DEF PauseStateResume
  <2>2. Atomic!Answer(Abs, call[c], files) = Atomic!Outcome(Atomic!Playing(Abs, playFile, playMode), "SUCCESS")
    BY <1>1, <1>2, <1>3, AbsParts DEF Atomic!Resume
  <2> QED BY <1>1, <2>1, <2>2, AbsParts, Plays, Responds
<1>4. CASE playFile \notin files
  <2>1. ToStopState /\ Return(c, "FILE_NOT_FOUND")
    BY <1>4 DEF PauseStateResume
  <2>2. Atomic!Answer(Abs, call[c], files) = Atomic!Outcome(Atomic!Stopped(Abs), "FILE_NOT_FOUND")
    BY <1>1, <1>2, <1>4, AbsParts DEF Atomic!Resume
  <2> QED BY <1>1, <2>1, <2>2, AbsParts, Stops, Responds
<1> QED BY <1>3, <1>4

LEMMA AnswersNothing ==
    ASSUME RInv, NEW c \in Clients, NothingToDo(c)
    PROVE  Atomic!Next
<1>1. /\ pc[c] = "lock" /\ Return(c, "SUCCESS")
      /\ UNCHANGED <<playerVars, volume, files>> /\ Forgotten
      /\ \/ state = "Stop" /\ call[c].op \in {"Pause", "Resume", "Stop", "Destroy"}
         \/ state = "Play" /\ call[c].op = "Resume"
         \/ state = "Pause" /\ call[c].op = "Pause"
  BY DEF RInv, NothingToDo, Runs, PlayerFrame
<1>2. Abs' = Abs  BY <1>1 DEF Abs, playerVars
<1>3. state = "Stop" => Atomic!Stopped(Abs) = Abs  BY <1>1, AbsParts DEF Abs, Forgotten
<1>4. CASE call[c].op \in {"Stop", "Destroy"}
  <2>1. Atomic!Answer(Abs, call[c], files) = Atomic!Outcome(Abs, "SUCCESS")
    BY <1>1, <1>3, <1>4, Answers DEF Atomic!Stop
  <2> QED BY <1>1, <1>2, <2>1, AbsParts, Responds
<1>5. CASE call[c].op = "Pause"
  <2>1. state # "Play"  BY <1>1, <1>5
  <2>2. Abs.state # "Play"  BY <2>1, AbsParts
  <2>3. Atomic!Pause(Abs) = Atomic!Outcome(Abs, "SUCCESS")
    BY <2>2 DEF Atomic!Pause
  <2>4. Atomic!Answer(Abs, call[c], files) = Atomic!Outcome(Abs, "SUCCESS")
    BY <1>5, <2>3, Answers
  <2> QED BY <1>1, <1>2, <2>4, AbsParts, Responds
<1>6. CASE call[c].op = "Resume"
  <2>1. Atomic!Answer(Abs, call[c], files) = Atomic!Outcome(Abs, "SUCCESS")
    BY <1>1, <1>6, Answers, AbsParts DEF Atomic!Resume
  <2> QED BY <1>1, <1>2, <2>1, AbsParts, Responds
<1> QED BY <1>1, <1>4, <1>5, <1>6

LEMMA AnswersState ==
    ASSUME RInv, NEW c \in Clients, GetState(c)
    PROVE  Atomic!Next
<1>1. /\ pc[c] = "lock" /\ call[c].op = "GetState" /\ Return(c, StateOf)
      /\ UNCHANGED <<playerVars, volume, files>>
  BY DEF GetState, Runs, PlayerFrame
<1>2. Abs' = Abs  BY <1>1 DEF Abs, playerVars
<1>3. Atomic!StateOf(Abs) = StateOf  BY AbsParts DEF Atomic!StateOf, StateOf
<1>4. Atomic!Answer(Abs, call[c], files) = Atomic!Outcome(Abs, StateOf)
  BY <1>1, <1>3, Answers
<1> QED BY <1>1, <1>2, <1>4, AbsParts, Responds

LEMMA AnswersVolume ==
    ASSUME RInv, NEW c \in Clients, SetVolumeRejected(c) \/ IdleSetVolume(c)
    PROVE  Atomic!Next
<1>1. pc[c] = "lock" /\ call[c].op = "SetVolume" /\ UNCHANGED <<playerVars, files>>
  BY DEF SetVolumeRejected, IdleSetVolume, Runs, PlayerFrame
<1>2. Atomic!Answer(Abs, call[c], files) = Atomic!SetVolume(Abs, call[c].volume)
  BY <1>1, Answers
<1>3. CASE SetVolumeRejected(c)
  <2>1. ~(call[c].volume <= 100) /\ Return(c, "FAILED") /\ volume' = volume
    BY <1>3 DEF SetVolumeRejected, ValidVolume, PlayerFrame
  <2>2. Abs' = Abs  BY <1>1, <2>1 DEF Abs, playerVars
  <2>3. Atomic!Answer(Abs, call[c], files) = Atomic!Outcome(Abs, "FAILED")
    BY <1>2, <2>1 DEF Atomic!SetVolume
  <2> QED BY <1>1, <2>1, <2>2, <2>3, AbsParts, Responds
<1>4. CASE IdleSetVolume(c)
  <2>1. /\ call[c].volume <= 100 /\ Return(c, "SUCCESS")
        /\ volume' = call[c].volume
    BY <1>4 DEF IdleSetVolume, ValidVolume
  <2>2. Abs' = [Abs EXCEPT !.volume = call[c].volume]
    BY <1>1, <2>1 DEF Abs, playerVars
  <2>3. Atomic!Answer(Abs, call[c], files) =
            Atomic!Outcome([Abs EXCEPT !.volume = call[c].volume], "SUCCESS")
    BY <1>2, <2>1 DEF Atomic!SetVolume
  <2> QED BY <1>1, <2>1, <2>2, <2>3, AbsParts, Responds
<1> QED BY <1>3, <1>4

\* SetVolume of a playing player answers when it writes volume_m.
LEMMA AnswersEarly ==
    ASSUME RInv, NEW c \in Clients, PlayStateSetVolume(c)
    PROVE  Atomic!Next
<1>1. /\ pc[c] = "lock" /\ call[c].op = "SetVolume" /\ call[c].volume <= 100
      /\ volume' = call[c].volume /\ pc' = [pc EXCEPT ![c] = "apply"]
      /\ UNCHANGED <<playerVars, files, call, reply>>
  BY DEF PlayStateSetVolume, Runs, ValidVolume
<1>2. /\ pc \in [Clients -> {"idle", "lock", "join", "apply", "use",
                            "dtorCv", "dtorNotify", "dtorJoin", "gone"}]
      /\ call[c] \in Calls
  BY <1>1 DEF RInv, IInv, TypeOK, ClientTypeOK, CallInv
<1>3. ~Answered(c) /\ Answered(c)'
      /\ \A d \in Clients \ {c} : Answered(d)' <=> Answered(d)
  BY <1>1, <1>2 DEF Answered
<1>4. Atomic!Answer(Abs, call[c], files) =
          Atomic!Outcome([Abs EXCEPT !.volume = call[c].volume], "SUCCESS")
  BY <1>1, Answers DEF Atomic!SetVolume
<1>5. AbsCall[c] = call[c] /\ call[c] # None
  BY <1>2, <1>3, CallsAssumption DEF AbsCall
<1>6. Abs' = [Abs EXCEPT !.volume = call[c].volume]
  BY <1>1 DEF Abs, playerVars
<1>7. AbsCall' = [AbsCall EXCEPT ![c] = None]
  BY <1>1, <1>3 DEF AbsCall
<1>8. AbsReply' = [AbsReply EXCEPT ![c] = "SUCCESS"]
  BY <1>1, <1>3 DEF AbsReply
<1>9. /\ Abs' = Atomic!Answer(Abs, AbsCall[c], files).player
      /\ AbsReply' = [AbsReply EXCEPT ![c] = Atomic!Answer(Abs, AbsCall[c], files).reply]
  <2>1. /\ Atomic!Answer(Abs, call[c], files).player = [Abs EXCEPT !.volume = call[c].volume]
        /\ Atomic!Answer(Abs, call[c], files).reply = "SUCCESS"
    BY <1>4, AbsParts, Zenon
  <2>2. Atomic!Answer(Abs, AbsCall[c], files) = Atomic!Answer(Abs, call[c], files)
    BY <1>5, Zenon
  <2> QED BY <1>6, <1>8, <2>1, <2>2, Zenon
<1>10. Atomic!Respond(c)
  BY <1>1, <1>5, <1>7, <1>9 DEF Atomic!Respond, Abs, AbsCall, AbsReply
<1> QED BY <1>10 DEF Atomic!Next

-----------------------------------------------------------------------------
(* The other steps.                                                        *)

LEMMA Invokes ==
    ASSUME RInv, NEW c \in Clients, Call(c)
    PROVE  Atomic!Next
<1>1. PICK k \in Calls : call' = [call EXCEPT ![c] = k]
  BY DEF Call
<1>2. /\ pc[c] = "idle" /\ pc' = [pc EXCEPT ![c] = "lock"]
      /\ reply' = [reply EXCEPT ![c] = None]
      /\ UNCHANGED <<playerVars, volume, files>>
  BY DEF Call, PlayerFrame
<1>3. /\ pc \in [Clients -> {"idle", "lock", "join", "apply", "use",
                            "dtorCv", "dtorNotify", "dtorJoin", "gone"}]
      /\ DOMAIN call = Clients /\ DOMAIN reply = Clients /\ call[c] = None
  BY <1>2 DEF RInv, IInv, TypeOK, ClientTypeOK, Idle
<1>4. \A d \in Clients : Answered(d)' <=> Answered(d)
  BY <1>2, <1>3 DEF Answered
<1>5. ~Answered(c)  BY <1>2 DEF Answered
<1>6. AbsCall[c] = None /\ AbsCall' = [AbsCall EXCEPT ![c] = k]
  BY <1>1, <1>3, <1>4, <1>5 DEF AbsCall
<1>7. AbsReply' = [AbsReply EXCEPT ![c] = None]
  BY <1>2, <1>3, <1>4, <1>5 DEF AbsReply
<1>8. Abs' = Abs  BY <1>2 DEF Abs, playerVars
<1>9. k \in Atomic!Calls  BY DEF Atomic!Calls, Calls, Atomic!Modes, Modes
<1>10. Atomic!Invoke(c)
  BY <1>2, <1>6, <1>7, <1>8, <1>9 DEF Atomic!Invoke, Abs, AbsCall, AbsReply
<1> QED BY <1>10 DEF Atomic!Next

\* SetVolume of a playing player has been answered when it is applied.
LEMMA Applies ==
    ASSUME RInv, NEW c \in Clients, UseHandle(c)
    PROVE  UNCHANGED Atomic!vars
<1>1. /\ pc[c] = "use" /\ Return(c, "SUCCESS")
      /\ UNCHANGED <<playerVars, volume, files>>
  BY DEF UseHandle
<1>2. /\ pc \in [Clients -> {"idle", "lock", "join", "apply", "use",
                            "dtorCv", "dtorNotify", "dtorJoin", "gone"}]
      /\ DOMAIN call = Clients /\ DOMAIN reply = Clients
  BY DEF RInv, IInv, TypeOK, ClientTypeOK
<1>3. Answered(c) /\ ~Answered(c)'
      /\ \A d \in Clients \ {c} : Answered(d)' <=> Answered(d)
  BY <1>1, <1>2 DEF Answered, Return
<1>4. call' = [call EXCEPT ![c] = None] /\ reply' = [reply EXCEPT ![c] = "SUCCESS"]
  BY <1>1 DEF Return
<1>5. AbsCall' = AbsCall /\ AbsReply' = AbsReply
  BY <1>2, <1>3, <1>4 DEF AbsCall, AbsReply
<1>6. Abs' = Abs  BY <1>1 DEF Abs, playerVars
<1> QED BY <1>1, <1>5, <1>6 DEF Atomic!vars, Abs, AbsCall, AbsReply

LEMMA Finishes ==
    ASSUME RInv, AutoStop
    PROVE  Atomic!Next
<1>1. state = "Play" /\ ToStopState /\ UNCHANGED <<volume, clientVars, files>>
  BY DEF RInv, IInv, ThreadInv, AutoStop
<1>2. Abs' = Atomic!Stopped(Abs) /\ Abs.state = "Play"  BY <1>1, Stops, AbsParts
<1>3. AbsCall' = AbsCall /\ AbsReply' = AbsReply
  BY <1>1 DEF AbsCall, AbsReply, Answered, clientVars
<1>4. Atomic!Finish
  BY <1>1, <1>2, <1>3 DEF Atomic!Finish, Abs, AbsCall, AbsReply
<1> QED BY <1>4 DEF Atomic!Next

LEMMA FilesChange ==
    ASSUME FileSystem
    PROVE  Atomic!Next
<1>1. Abs' = Abs /\ AbsCall' = AbsCall /\ AbsReply' = AbsReply
  BY DEF FileSystem, PlayerFrame, Abs, AbsCall, AbsReply, Answered, playerVars, clientVars
<1>2. Atomic!FileSystem
  BY <1>1 DEF FileSystem, Atomic!FileSystem, Abs, AbsCall, AbsReply
<1> QED BY <1>2 DEF Atomic!Next

LEMMA StepMaps ==
    ASSUME RInv, [Next]_vars
    PROVE  [Atomic!Next]_(Atomic!vars)
<1>1. ASSUME NEW c \in Clients, StopStatePlay(c) PROVE [Atomic!Next]_(Atomic!vars)
  BY <1>1, AnswersPlay
<1>2. ASSUME NEW c \in Clients, NothingToDo(c) PROVE [Atomic!Next]_(Atomic!vars)
  BY <1>2, AnswersNothing
<1>3. ASSUME NEW c \in Clients, PlayStatePlay(c) PROVE [Atomic!Next]_(Atomic!vars)
  BY <1>3, AnswersPlay
<1>4. ASSUME NEW c \in Clients, PlayStatePause(c) PROVE [Atomic!Next]_(Atomic!vars)
  BY <1>4, AnswersPause
<1>5. ASSUME NEW c \in Clients, PlayStateStop(c) PROVE [Atomic!Next]_(Atomic!vars)
  BY <1>5, AnswersStop
<1>6. ASSUME NEW c \in Clients, PauseStatePlay(c) PROVE [Atomic!Next]_(Atomic!vars)
  BY <1>6, AnswersPlay
<1>7. ASSUME NEW c \in Clients, PauseStateResume(c) PROVE [Atomic!Next]_(Atomic!vars)
  BY <1>7, AnswersResume
<1>8. ASSUME NEW c \in Clients, PauseStateStop(c) PROVE [Atomic!Next]_(Atomic!vars)
  BY <1>8, AnswersStop
<1>9. ASSUME NEW c \in Clients, SetVolumeRejected(c) PROVE [Atomic!Next]_(Atomic!vars)
  BY <1>9, AnswersVolume
<1>10. ASSUME NEW c \in Clients, IdleSetVolume(c) PROVE [Atomic!Next]_(Atomic!vars)
  BY <1>10, AnswersVolume
<1>11. ASSUME NEW c \in Clients, GetState(c) PROVE [Atomic!Next]_(Atomic!vars)
  BY <1>11, AnswersState
<1>12. ASSUME NEW c \in Clients, Call(c) PROVE [Atomic!Next]_(Atomic!vars)
  BY <1>12, Invokes
<1>13. ASSUME NEW c \in Clients, StopPlayThread(c) PROVE [Atomic!Next]_(Atomic!vars)
  <2>1. \A d \in Clients : Answered(d)' <=> Answered(d)
    BY <1>13 DEF RInv, IInv, TypeOK, ClientTypeOK, StopPlayThread, Runs, Answered
  <2>2. UNCHANGED <<playerVars, volume, call, reply, files>>
    BY <1>13 DEF StopPlayThread, PlayerFrame
  <2> QED BY <2>1, <2>2, Stutters
<1>14. ASSUME NEW c \in Clients, PlayStateSetVolume(c) PROVE [Atomic!Next]_(Atomic!vars)
  BY <1>14, AnswersEarly
<1>15. ASSUME NEW c \in Clients, LoadHandle(c) PROVE [Atomic!Next]_(Atomic!vars)
  <2>1. \A d \in Clients : Answered(d)' <=> Answered(d)
    BY <1>15 DEF RInv, IInv, TypeOK, ClientTypeOK, LoadHandle, Answered
  <2>2. UNCHANGED <<playerVars, volume, call, reply, files>>
    BY <1>15 DEF LoadHandle
  <2> QED BY <2>1, <2>2, Stutters
<1>16. ASSUME NEW c \in Clients, UseHandle(c) PROVE [Atomic!Next]_(Atomic!vars)
  BY <1>16, Applies
<1>17. ASSUME NEW c \in Clients, DtorSetFlags(c) PROVE [Atomic!Next]_(Atomic!vars)
  <2>1. \A d \in Clients : Answered(d)' <=> Answered(d)
    BY <1>17 DEF RInv, IInv, TypeOK, ClientTypeOK, DtorSetFlags, Runs, Answered
  <2>2. UNCHANGED <<playerVars, volume, call, reply, files>>
    BY <1>17 DEF DtorSetFlags, PlayerFrame
  <2> QED BY <2>1, <2>2, Stutters
<1>18. ASSUME NEW c \in Clients, DtorNotify(c) PROVE [Atomic!Next]_(Atomic!vars)
  <2>1. \A d \in Clients : Answered(d)' <=> Answered(d)
    BY <1>18 DEF RInv, IInv, TypeOK, ClientTypeOK, DtorNotify, Runs, Answered
  <2>2. UNCHANGED <<playerVars, volume, call, reply, files>>
    BY <1>18 DEF DtorNotify, PlayerFrame
  <2> QED BY <2>1, <2>2, Stutters
<1>19. ASSUME NEW c \in Clients, DtorJoin(c) PROVE [Atomic!Next]_(Atomic!vars)
  <2>1. \A d \in Clients : Answered(d)' <=> Answered(d)
    BY <1>19 DEF RInv, IInv, TypeOK, ClientTypeOK, DtorJoin, Runs, Answered
  <2>2. UNCHANGED <<playerVars, volume, call, reply, files>>
    BY <1>19 DEF DtorJoin, PlayerFrame
  <2> QED BY <2>1, <2>2, Stutters
<1>20. CASE ReadBlock
  <2>1. UNCHANGED <<playerVars, volume, clientVars, files>>
    BY <1>20 DEF ReadBlock, PlayerFrame, ThreadFrame
  <2> QED BY <2>1, Stutters DEF Answered, clientVars
<1>21. CASE CheckStop
  <2>1. UNCHANGED <<playerVars, volume, clientVars, files>>
    BY <1>21 DEF CheckStop, PlayerFrame, ThreadFrame
  <2> QED BY <2>1, Stutters DEF Answered, clientVars
<1>22. CASE ReadEnd
  <2>1. UNCHANGED <<playerVars, volume, clientVars, files>>
    BY <1>22 DEF ReadEnd, PlayerFrame, ThreadFrame
  <2> QED BY <2>1, Stutters DEF Answered, clientVars
<1>23. CASE FreeHandle
  <2>1. UNCHANGED <<playerVars, volume, clientVars, files>>
    BY <1>23 DEF FreeHandle, PlayerFrame, ThreadFrame
  <2> QED BY <2>1, Stutters DEF Answered, clientVars
<1>24. CASE ClearHandle
  <2>1. UNCHANGED <<playerVars, volume, clientVars, files>>
    BY <1>24 DEF ClearHandle, PlayerFrame, ThreadFrame
  <2> QED BY <2>1, Stutters DEF Answered, clientVars
<1>25. CASE Reopen
  <2>1. UNCHANGED <<playerVars, volume, clientVars, files>>
    BY <1>25 DEF Reopen, PlayerFrame, ThreadFrame
  <2> QED BY <2>1, Stutters DEF Answered, clientVars
<1>26. CASE ReadVolume
  <2>1. UNCHANGED <<playerVars, volume, clientVars, files>>
    BY <1>26 DEF ReadVolume, PlayerFrame, ThreadFrame
  <2> QED BY <2>1, Stutters DEF Answered, clientVars
<1>27. CASE SetHandleVolume
  <2>1. UNCHANGED <<playerVars, volume, clientVars, files>>
    BY <1>27 DEF SetHandleVolume, PlayerFrame, ThreadFrame
  <2> QED BY <2>1, Stutters DEF Answered, clientVars
<1>28. CASE Notify
  <2>1. UNCHANGED <<playerVars, volume, clientVars, files>>
    BY <1>28 DEF Notify, PlayerFrame, ThreadFrame
  <2> QED BY <2>1, Stutters DEF Answered, clientVars
<1>29. CASE AutoLockCv
  <2>1. UNCHANGED <<playerVars, volume, clientVars, files>>
    BY <1>29 DEF AutoLockCv, PlayerFrame, ThreadFrame
  <2> QED BY <2>1, Stutters DEF Answered, clientVars
<1>30. CASE SpuriousWakeup
  <2>1. UNCHANGED <<playerVars, volume, clientVars, files>>
    BY <1>30 DEF SpuriousWakeup, PlayerFrame, ThreadFrame
  <2> QED BY <2>1, Stutters DEF Answered, clientVars
<1>31. CASE AutoLockState
  <2>1. UNCHANGED <<playerVars, volume, clientVars, files>>
    BY <1>31 DEF AutoLockState, PlayerFrame, ThreadFrame
  <2> QED BY <2>1, Stutters DEF Answered, clientVars
<1>32. CASE AutoStop
  BY <1>32, Finishes
<1>33. CASE AutoTest
  <2>1. UNCHANGED <<playerVars, volume, clientVars, files>>
    BY <1>33 DEF AutoTest, PlayerFrame, ThreadFrame
  <2> QED BY <2>1, Stutters DEF Answered, clientVars
<1>34. CASE FileSystem
  BY <1>34, FilesChange
<1>35. CASE UNCHANGED vars
  BY <1>35, Stutters DEF vars, Answered, clientVars
<1> QED
  BY <1>1, <1>2, <1>3, <1>4, <1>5, <1>6, <1>7, <1>8, <1>9, <1>10, <1>11,
     <1>12, <1>13, <1>14, <1>15, <1>16, <1>17, <1>18, <1>19, <1>20, <1>21, <1>22,
     <1>23, <1>24, <1>25, <1>26, <1>27, <1>28, <1>29, <1>30, <1>31, <1>32,
     <1>33, <1>34, <1>35
     DEF Next, ClientStep, Locks, Continues, PlayThread, AutoThread

LEMMA StartMaps == Init => RInv /\ Atomic!Init
<1> SUFFICES ASSUME Init PROVE RInv /\ Atomic!Init  OBVIOUS
<1>1. RInv
  <2>1. Idle /\ Forgotten  BY DEF Init, Idle, Forgotten
  <2> QED BY <2>1, InitInv DEF RInv
<1>2. \A c \in Clients : ~Answered(c)  BY DEF Init, Answered
<1>3. AbsCall = [c \in Clients |-> None] /\ AbsReply = [c \in Clients |-> None]
  BY <1>2 DEF Init, AbsCall, AbsReply
<1>4. Abs = Atomic!NewPlayer  BY DEF Init, FullVolume, Abs, Atomic!NewPlayer
<1>5. files \in SUBSET Files  BY DEF Init
<1> QED BY <1>1, <1>3, <1>4, <1>5 DEF Atomic!Init, Abs, AbsCall, AbsReply

-----------------------------------------------------------------------------

\* The threaded player implements the atomic one: whatever the play thread and
\* the auto-stop thread do, a caller sees calls answered one at a time.
THEOREM Implements == Spec => ImplementsAtomicPlayer
<1>1. Init => RInv /\ Atomic!Init  BY StartMaps
<1>2. RInv /\ [Next]_vars => RInv'  BY RInvStep
<1>3. RInv /\ [Next]_vars => [Atomic!Next]_(Atomic!vars)  BY StepMaps
<1> QED BY <1>1, <1>2, <1>3, PTL DEF Spec, ImplementsAtomicPlayer, Atomic!Spec
=============================================================================
