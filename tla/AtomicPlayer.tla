---------------------------- MODULE AtomicPlayer ----------------------------
(***************************************************************************)
(* What the MP3 player promises to its callers (Mp3PlayerInterface): every *)
(* call is answered in one step, as if it ran alone, and a playback may    *)
(* end at any moment.  No thread, mutex or decoder handle is visible here. *)
(***************************************************************************)
EXTENDS PlayerCalls

CONSTANTS Clients, Files, Volumes

VARIABLES
    player,     \* [state, file, mode, volume]
    call,       \* the call each client is in
    reply,      \* what its last call returned
    files       \* the files that exist and decode

vars == <<player, call, reply, files>>

Calls ==
    [op : {"Play"}, file : Files, mode : Modes \cup {"PLAY_MODE_MAX"}]
      \cup [op : {"SetVolume"}, volume : Volumes]
      \cup [op : {"Pause", "Resume", "Stop", "GetState", "Destroy"}]

-----------------------------------------------------------------------------
Init ==
    /\ player = NewPlayer
    /\ call = [c \in Clients |-> None]
    /\ reply = [c \in Clients |-> None]
    /\ files \in SUBSET Files

Invoke(c) ==
    /\ call[c] = None
    /\ \E k \in Calls : call' = [call EXCEPT ![c] = k]
    /\ reply' = [reply EXCEPT ![c] = None]
    /\ UNCHANGED <<player, files>>

Respond(c) ==
    /\ call[c] # None
    /\ player' = Answer(player, call[c], files).player
    /\ reply' = [reply EXCEPT ![c] = Answer(player, call[c], files).reply]
    /\ call' = [call EXCEPT ![c] = None]
    /\ UNCHANGED files

\* A playback is over, at its end or before.
Finish ==
    /\ player.state = "Play"
    /\ player' = Stopped(player)
    /\ UNCHANGED <<call, reply, files>>

FileSystem ==
    /\ \E f \in Files : files' = IF f \in files THEN files \ {f}
                                                ELSE files \cup {f}
    /\ UNCHANGED <<player, call, reply>>

Next == \/ \E c \in Clients : Invoke(c) \/ Respond(c)
        \/ Finish
        \/ FileSystem

Spec == Init /\ [][Next]_vars
=============================================================================
