------------------------ MODULE Mp3PlayerRefinement ------------------------
(***************************************************************************)
(* The threaded player implements the atomic one.  A call takes effect in  *)
(* the step that returns, but for SetVolume of a playing player: volume_m  *)
(* is written, and so the call answered, before mpg123_volume is called.   *)
(***************************************************************************)
EXTENDS Mp3Player

Answered(c) == pc[c] \in {"apply", "use"}

Atomic == INSTANCE AtomicPlayer WITH
    player <- [state |-> state, file |-> playFile, mode |-> playMode,
               volume |-> volume],
    call   <- [c \in Clients |-> IF Answered(c) THEN None ELSE call[c]],
    reply  <- [c \in Clients |-> IF Answered(c) THEN "SUCCESS" ELSE reply[c]]

\* Whatever the threads do, a client sees calls that are answered one at a
\* time, each with the answer and the effect it has alone.  Between two calls
\* nothing changes but that a playback stops, which it may at any moment: that
\* it has come to its end then is AutoStopsFinishedOrReused's to say.
ImplementsAtomicPlayer == Atomic!Spec
=============================================================================
