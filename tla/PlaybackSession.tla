---------------------------- MODULE PlaybackSession ----------------------------
(***************************************************************************)
(* What a streaming client promises, whatever the network does: segments   *)
(* are downloaded one after the other and played in order, none is played  *)
(* before it is downloaded, a stall begins only when there is nothing to   *)
(* play and ends with the next segment played, and the session finishes    *)
(* once, not before all segments but the last have been played.            *)
(***************************************************************************)
EXTENDS Integers

CONSTANT N      \* number of segments of the video, at least one

VARIABLES
    phase,      \* "idle", "streaming" or "finished"
    downloaded, \* segments downloaded so far
    played,     \* segments whose playback has begun
    stalled     \* the viewer waits for a segment

vars == <<phase, downloaded, played, stalled>>

Init ==
    /\ phase = "idle"
    /\ downloaded = 0
    /\ played = 0
    /\ stalled = FALSE

Begin ==
    /\ phase = "idle"
    /\ phase' = "streaming"
    /\ UNCHANGED <<downloaded, played, stalled>>

Download ==
    /\ phase = "streaming" /\ downloaded < N
    /\ downloaded' = downloaded + 1
    /\ UNCHANGED <<phase, played, stalled>>

Play ==
    /\ phase = "streaming" /\ played < downloaded
    /\ played' = played + 1
    /\ stalled' = FALSE
    /\ UNCHANGED <<phase, downloaded>>

\* A segment that arrives while the player waits is played at once.
DownloadAndPlay ==
    /\ phase = "streaming" /\ downloaded < N /\ played = downloaded
    /\ downloaded' = downloaded + 1
    /\ played' = played + 1
    /\ stalled' = FALSE
    /\ UNCHANGED phase

Stall ==
    /\ phase = "streaming" /\ played = downloaded /\ played < N - 1
    /\ ~stalled /\ stalled' = TRUE
    /\ UNCHANGED <<phase, downloaded, played>>

Finish ==
    /\ phase = "streaming" /\ played >= N - 1 /\ ~stalled
    /\ phase' = "finished"
    /\ UNCHANGED <<downloaded, played, stalled>>

Next == Begin \/ Download \/ Play \/ DownloadAndPlay \/ Stall \/ Finish

Spec == Init /\ [][Next]_vars
================================================================================
