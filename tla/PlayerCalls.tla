---------------------------- MODULE PlayerCalls ----------------------------
(***************************************************************************)
(* What a call of the MP3 player does when it runs alone                   *)
(* (Mp3PlayerInterface and the three state classes), with no thread, mutex *)
(* or decoder handle in sight: the player is [state, file, mode, volume].  *)
(***************************************************************************)
EXTENDS Naturals

CONSTANT None       \* no file, no mode

Modes == {"ONCE", "IN_LOOP"}

NewPlayer == [state |-> "Stop", file |-> None, mode |-> None, volume |-> 100]

-----------------------------------------------------------------------------
(* The outcome of a call k on player p when the files fs exist: the player  *)
(* it leaves and what it answers.                                          *)

Outcome(p, s) == [player |-> p, reply |-> s]

Stopped(p) == [p EXCEPT !.state = "Stop", !.file = None, !.mode = None]

Playing(p, f, m) == [p EXCEPT !.state = "Play", !.file = f, !.mode = m]

\* Mutant: a wrong mode leaves the playback alone.
PlayKeepsPlaying(p, f, m, fs) ==
    IF p.state = "Pause"     THEN Outcome(Stopped(p), "FILE_NOT_FOUND")
    ELSE IF m \notin Modes   THEN Outcome(p, "WRONG_PLAY_MODE")
    ELSE IF f \notin fs      THEN Outcome(Stopped(p), "FILE_NOT_FOUND")
    ELSE Outcome(Playing(p, f, m), "SUCCESS")

\* A paused player is stopped by Play, whatever the file.
Play(p, f, m, fs) ==
    IF p.state = "Pause"     THEN Outcome(Stopped(p), "FILE_NOT_FOUND")
    ELSE IF m \notin Modes   THEN Outcome(Stopped(p), "WRONG_PLAY_MODE")
    ELSE IF f \notin fs      THEN Outcome(Stopped(p), "FILE_NOT_FOUND")
    ELSE Outcome(Playing(p, f, m), "SUCCESS")

Pause(p) ==
    Outcome(IF p.state = "Play" THEN [p EXCEPT !.state = "Pause"] ELSE p,
            "SUCCESS")

Resume(p, fs) ==
    IF p.state # "Pause"   THEN Outcome(p, "SUCCESS")
    ELSE IF p.file \in fs  THEN Outcome(Playing(p, p.file, p.mode), "SUCCESS")
    ELSE Outcome(Stopped(p), "FILE_NOT_FOUND")

Stop(p) == Outcome(Stopped(p), "SUCCESS")

SetVolume(p, v) ==
    IF v <= 100 THEN Outcome([p EXCEPT !.volume = v], "SUCCESS")
                ELSE Outcome(p, "FAILED")

StateOf(p) == IF p.state = "Stop" THEN "STOPED"
              ELSE IF p.state = "Pause" THEN "PAUSED"
              ELSE IF p.mode = "IN_LOOP" THEN "PLAY_IN_LOOP" ELSE "PLAY_ONCE"

Answer(p, k, fs) ==
    IF k.op = "Play"           THEN Play(p, k.file, k.mode, fs)
    ELSE IF k.op = "Pause"     THEN Pause(p)
    ELSE IF k.op = "Resume"    THEN Resume(p, fs)
    ELSE IF k.op = "SetVolume" THEN SetVolume(p, k.volume)
    ELSE IF k.op = "GetState"  THEN Outcome(p, StateOf(p))
    ELSE Stop(p)
=============================================================================
