-------------------------- MODULE PlaybackSession --------------------------
(***************************************************************************)
(* What the guild may count on from the goroutine of one playback,         *)
(* whatever it streams: it opens, streams, and ends in one of three ways.  *)
(* It fails, and calls OnStreamingError, once, on a playback that is       *)
(* stopped; or it finishes, and calls OnFinished, once, unless it was      *)
(* stopped before the last frame was sent; or it ends without a word.      *)
(*                                                                         *)
(* Streamer shows that the code keeps this promise; the sessions of        *)
(* GuildPlayback are shown to use no more than it.                         *)
(***************************************************************************)

VARIABLES
  phase,      \* where the goroutine is
  stopped,    \* MP4Playback.Stopped
  cancelled,  \* the streamer's context is cancelled
  finish      \* ShouldCallFinished

session == <<phase, stopped, cancelled, finish>>

Init ==
  /\ phase = "opening"
  /\ stopped = FALSE
  /\ cancelled = FALSE
  /\ finish = FALSE

\* Anyone may stop the playback, or close its streamer, at any time.
Stop ==
  /\ stopped' \in {stopped, TRUE}
  /\ cancelled' \in {cancelled, TRUE}
  /\ UNCHANGED <<phase, finish>>

FirstFrame ==
  /\ phase = "opening"
  /\ phase' = "streaming"
  /\ UNCHANGED <<stopped, cancelled, finish>>

\* OnStreamingError will be called, on a stopped playback.
Fail ==
  /\ phase \in {"opening", "streaming"}
  /\ phase' = "failing"
  /\ stopped' = TRUE
  /\ cancelled' \in {cancelled, TRUE}
  /\ UNCHANGED finish

\* The last frame is sent.  OnFinished will be called if nobody has stopped the
\* playback until now.
End ==
  /\ phase = "streaming"
  /\ phase' = "draining"
  /\ finish' = ~stopped
  /\ UNCHANGED <<stopped, cancelled>>

Drain ==
  /\ phase = "draining"
  /\ phase' = IF finish THEN "ended" ELSE "over"
  /\ UNCHANGED <<stopped, cancelled, finish>>

\* The callback has returned.  It may have stopped playbacks.
Return ==
  /\ phase \in {"ended", "failing"}
  /\ phase' = "over"
  /\ stopped' \in {stopped, TRUE}
  /\ cancelled' \in {cancelled, TRUE}
  /\ UNCHANGED finish

Next == Stop \/ FirstFrame \/ Fail \/ End \/ Drain \/ Return

Spec == Init /\ [][Next]_session

=============================================================================
