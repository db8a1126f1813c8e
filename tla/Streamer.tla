------------------------------ MODULE Streamer ------------------------------
(***************************************************************************)
(* One playback: the goroutine of PlayMP4 that fetches, decodes and sends  *)
(* frames into the bounded PCMFrameChan and then waits until they are      *)
(* taken, the mixer that takes them, and those who stop it.                *)
(*                                                                         *)
(* MP3, WAV and MP4 share one loop here: read, decode, cut into frames of  *)
(* 20 ms, send, and at the end send what is left as one padded frame.      *)
(* A frame is its number in the medium; a read yields any number of them.  *)
(***************************************************************************)
EXTENDS Integers, SequencesExt

CONSTANTS
  MaxFrames,   \* bound: frames in the medium
  Capacity,    \* of PCMFrameChan, 100 in the code
  MaxPauses    \* bound: Pause calls

ASSUME CapacityAssumption == Capacity \in Nat \ {0}
ASSUME StreamerBoundsAssumption == MaxFrames \in Nat /\ MaxPauses \in Nat

\* Guild code calls Playback.Stop, the mixer closes its source, and the goroutine
\* itself stops the playback when the stream has failed.
Stoppers == {"guild", "mixer", "self"}

VARIABLES
  media,     \* how many frames the medium decodes into
  padded,    \* the last of them is a rest that has to be padded
  pc,        \* where the goroutine is
  decoded,   \* frames read so far, sent or in the PCM buffer
  sent,      \* FramesEmitted
  chan,      \* PCMFrameChan, oldest frame first
  closed,    \* PCMFrameChan is closed
  stop,      \* how far each stopper has come
  lock,      \* who holds MP4Streamer.Mutex across steps
  pstopped,  \* MP4Playback.Stopped
  stopped,   \* MP4Streamer.Stopped
  ctx,       \* the context is cancelled
  finish,    \* ShouldCallFinished
  paused,    \* MP4Streamer.Paused
  pauses,    \* Pause calls so far (bound)
  heard,     \* frames the mixer has taken
  eof        \* the mixer has been told that the stream has ended

medium == <<media, padded>>
stopping == <<stop, lock, pstopped, stopped, ctx>>
mixer == <<paused, pauses, heard, eof>>
vars == <<medium, pc, decoded, sent, chan, closed, stopping, finish, mixer>>

Pcs == {"opening", "looping", "reading", "cutting", "sending", "resting", "sendingRest",
        "returning", "failing", "closing", "draining", "finished", "failed", "over"}

TypeOK ==
  /\ media \in 0 .. MaxFrames
  /\ padded \in BOOLEAN
  /\ pc \in Pcs
  /\ decoded \in 0 .. media
  /\ sent \in 0 .. media
  /\ chan \in Seq(1 .. media)
  /\ Len(chan) <= Capacity
  /\ closed \in BOOLEAN
  /\ stop \in [Stoppers -> {"idle", "playback", "streamer", "locking", "closing", "done"}]
  /\ lock \in Stoppers \cup {"none"}
  /\ pstopped \in BOOLEAN
  /\ stopped \in BOOLEAN
  /\ ctx \in BOOLEAN
  /\ finish \in BOOLEAN
  /\ paused \in BOOLEAN
  /\ pauses \in 0 .. MaxPauses
  /\ heard \in Seq(1 .. media)
  /\ eof \in BOOLEAN

Init ==
  /\ media \in 0 .. MaxFrames
  /\ padded \in BOOLEAN
  /\ padded => media > 0
  /\ pc = "opening"
  /\ decoded = 0
  /\ sent = 0
  /\ chan = <<>>
  /\ closed = FALSE
  /\ stop = [k \in Stoppers |-> "idle"]
  /\ lock = "none"
  /\ pstopped = FALSE
  /\ stopped = FALSE
  /\ ctx = FALSE
  /\ finish = FALSE
  /\ paused = FALSE
  /\ pauses = 0
  /\ heard = <<>>
  /\ eof = FALSE

-----------------------------------------------------------------------------
(* The goroutine: StreamFromURL                                            *)

Goes(p) == pc' = p

\* What a step that only decides where to go next leaves alone.
OnlyPc == UNCHANGED <<medium, decoded, sent, chan, closed, stopping, finish, mixer>>

\* The requests before the first byte: the probe, and the stream itself.
Opened ==
  /\ pc = "opening"
  /\ Goes("looping")
  /\ OnlyPc

OpenFails ==
  /\ pc = "opening"
  /\ Goes("failing")
  /\ OnlyPc

\* The frames of the medium that are cut from reads; the rest is sent after the
\* loop.
Whole == IF padded THEN media - 1 ELSE media

\* The loop goes on until the streamer is stopped.
Loops ==
  /\ pc = "looping"
  /\ Goes(IF stopped THEN "resting" ELSE "reading")
  /\ OnlyPc

\* A read gives some frames.
Reads ==
  /\ pc = "reading"
  /\ \E n \in decoded + 1 .. Whole : decoded' = n
  /\ Goes("cutting")
  /\ UNCHANGED <<medium, sent, chan, closed, stopping, finish, mixer>>

\* A read finds the end of the medium.
ReadsEnd ==
  /\ pc = "reading"
  /\ decoded = Whole
  /\ Goes("resting")
  /\ OnlyPc

\* A read fails: MP3 and WAV forgive it when the context is cancelled, MP4 does not.
ReadFails ==
  /\ pc = "reading"
  /\ \/ Goes("failing")
     \/ ctx /\ Goes("returning")
  /\ OnlyPc

\* Slip: one frame more is cut than there is.
CutsOneMore ==
  /\ pc = "cutting"
  /\ Goes(IF sent <= decoded /\ ~stopped THEN "sending" ELSE "looping")
  /\ OnlyPc

\* drainPCMBuffer: the next whole frame, unless the streamer is stopped.
Cuts ==
  /\ pc = "cutting"
  /\ Goes(IF sent < decoded /\ ~stopped THEN "sending" ELSE "looping")
  /\ OnlyPc

\* The padded rest after the loop, unless the streamer is stopped.
Rests ==
  /\ pc = "resting"
  /\ Goes(IF padded /\ ~stopped THEN "sendingRest" ELSE "returning")
  /\ OnlyPc

\* Slip: the frame is dropped when the channel is full.
SendsOrDrops(from, to) ==
  /\ pc = from
  /\ ~closed
  /\ chan' = IF Len(chan) < Capacity THEN Append(chan, sent + 1) ELSE chan
  /\ sent' = sent + 1
  /\ Goes(to)
  /\ UNCHANGED <<medium, decoded, closed, stopping, finish, mixer>>

\* A blocking send.
Sends(from, to) ==
  /\ pc = from
  /\ ~closed
  /\ Len(chan) < Capacity
  /\ chan' = Append(chan, sent + 1)
  /\ sent' = sent + 1
  /\ Goes(to)
  /\ UNCHANGED <<medium, decoded, closed, stopping, finish, mixer>>

\* A send that is blocked, or comes, when the channel is closed panics; SafeSend
\* recovers and reports failure, and the buffer is not drained further.
SendPanics(from, to) ==
  /\ pc = from
  /\ closed
  /\ Goes(to)
  /\ OnlyPc

\* streamWithFrameCheck: a stream without a frame is an error.
ReturnsChecked ==
  /\ pc = "returning"
  /\ Goes(IF sent = 0 THEN "failing" ELSE "closing")
  /\ OnlyPc

-----------------------------------------------------------------------------
(* The goroutine: PlayMP4                                                  *)

\* The error branch stops the playback itself, and then calls OnStreamingError.
StopsItself ==
  /\ pc = "failing"
  /\ stop["self"] = "idle"
  /\ stop' = [stop EXCEPT !["self"] = "playback"]
  /\ UNCHANGED <<medium, pc, decoded, sent, chan, closed, lock, pstopped, stopped, ctx, finish,
                 mixer>>

Failed ==
  /\ pc = "failing"
  /\ stop["self"] = "done"
  /\ Goes("failed")
  /\ OnlyPc

\* Slip: the flag that Stop sets is not looked at.
ClosesAlwaysFinishing ==
  /\ pc = "closing"
  /\ lock = "none"
  /\ closed' = TRUE
  /\ finish' = TRUE
  /\ Goes("draining")
  /\ UNCHANGED <<medium, decoded, sent, chan, stopping, mixer>>

\* The channel is closed, unless a stopper has done that, and it is decided
\* whether OnFinished will be called.
ClosesChannel ==
  /\ pc = "closing"
  /\ lock = "none"
  /\ closed' = TRUE
  /\ finish' = ~pstopped
  /\ Goes("draining")
  /\ UNCHANGED <<medium, decoded, sent, chan, stopping, mixer>>

\* Slip: OnFinished is called as soon as the last frame is in the channel.
DrainsAtOnce ==
  /\ pc = "draining"
  /\ Goes(IF finish THEN "finished" ELSE "over")
  /\ OnlyPc

\* The loop that waits for the mixer ends when the channel is empty or the context
\* cancelled.
Drains ==
  /\ pc = "draining"
  /\ chan = <<>> \/ ctx
  /\ Goes(IF finish THEN "finished" ELSE "over")
  /\ OnlyPc

\* OnFinished and OnStreamingError are calls into the guild; this is their return.
CallbackReturns ==
  /\ pc \in {"finished", "failed"}
  /\ Goes("over")
  /\ OnlyPc

Sending ==
  \/ Sends("sending", "cutting") \/ SendPanics("sending", "looping")
  \/ Sends("sendingRest", "returning") \/ SendPanics("sendingRest", "returning")

Goroutine ==
  \/ Opened \/ OpenFails
  \/ Loops \/ Reads \/ ReadsEnd \/ ReadFails
  \/ Cuts \/ Rests \/ Sending \/ ReturnsChecked
  \/ StopsItself \/ Failed \/ ClosesChannel \/ Drains \/ CallbackReturns

-----------------------------------------------------------------------------
(* Those who stop it.  Playback.Stop marks the playback and calls          *)
(* Streamer.Stop; the second caller of either returns at once.             *)

Comes(k, p) == stop' = [stop EXCEPT ![k] = p]

\* What a stopper leaves alone at every step.
NotTheStream == UNCHANGED <<medium, pc, decoded, sent, chan, finish, mixer>>

GuildStops ==
  /\ stop["guild"] = "idle"
  /\ Comes("guild", "playback")
  /\ UNCHANGED <<closed, lock, pstopped, stopped, ctx>>
  /\ NotTheStream

\* MP4PCMProvider.Close goes straight to the streamer.
MixerCloses ==
  /\ stop["mixer"] = "idle"
  /\ Comes("mixer", "streamer")
  /\ UNCHANGED <<closed, lock, pstopped, stopped, ctx>>
  /\ NotTheStream

MarksPlayback(k) ==
  /\ stop[k] = "playback"
  /\ Comes(k, IF pstopped THEN "done" ELSE "streamer")
  /\ pstopped' = TRUE
  /\ UNCHANGED <<closed, lock, stopped, ctx>>
  /\ NotTheStream

MarksStreamer(k) ==
  /\ stop[k] = "streamer"
  /\ Comes(k, IF stopped THEN "done" ELSE "locking")
  /\ stopped' = TRUE
  /\ UNCHANGED <<closed, lock, pstopped, ctx>>
  /\ NotTheStream

Cancels(k) ==
  /\ stop[k] = "locking"
  /\ lock = "none"
  /\ lock' = k
  /\ ctx' = TRUE
  /\ Comes(k, "closing")
  /\ UNCHANGED <<closed, pstopped, stopped>>
  /\ NotTheStream

\* Slip: the channel is left open for the goroutine to close.
UnlocksOnly(k) ==
  /\ stop[k] = "closing"
  /\ lock' = "none"
  /\ Comes(k, "done")
  /\ UNCHANGED <<closed, pstopped, stopped, ctx>>
  /\ NotTheStream

Closes(k) ==
  /\ stop[k] = "closing"
  /\ closed' = TRUE
  /\ lock' = "none"
  /\ Comes(k, "done")
  /\ UNCHANGED <<pstopped, stopped, ctx>>
  /\ NotTheStream

Stopping(k) == MarksPlayback(k) \/ MarksStreamer(k) \/ Cancels(k) \/ Closes(k)

-----------------------------------------------------------------------------
(* The mixer and the pause button                                          *)

Takes ==
  /\ chan # <<>>
  /\ heard' = Append(heard, Head(chan))
  /\ chan' = Tail(chan)
  /\ UNCHANGED eof

TakesEnd ==
  /\ eof' = TRUE
  /\ UNCHANGED <<heard, chan>>

\* What the mixer leaves alone.
NotTheGoroutine ==
  UNCHANGED <<medium, pc, decoded, sent, closed, stopping, finish, paused, pauses>>

\* Slip: a closed channel is taken for an empty one.
PullsClosedAsEnd ==
  /\ ~paused
  /\ (~closed /\ Takes) \/ (closed /\ TakesEnd)
  /\ NotTheGoroutine

\* NextPCMFrame: a frame, or the end once the closed channel is empty.
Pulls ==
  /\ ~paused
  /\ Takes \/ (chan = <<>> /\ closed /\ TakesEnd)
  /\ NotTheGoroutine

Pause ==
  /\ ~paused
  /\ pauses < MaxPauses
  /\ paused' = TRUE
  /\ pauses' = pauses + 1
  /\ UNCHANGED <<medium, pc, decoded, sent, chan, closed, stopping, finish, heard, eof>>

Resume ==
  /\ paused
  /\ paused' = FALSE
  /\ UNCHANGED <<medium, pc, decoded, sent, chan, closed, stopping, finish, pauses, heard, eof>>

Next ==
  \/ Goroutine
  \/ GuildStops \/ MixerCloses
  \/ \E k \in Stoppers : Stopping(k)
  \/ Pulls \/ Pause \/ Resume

Spec == Init /\ [][Next]_vars

-----------------------------------------------------------------------------
(* Safety                                                                  *)

\* The first n frames of the medium.
Opening(n) == [i \in 1 .. n |-> i]

\* Between the decoder and the mixer no frame is lost, doubled or reordered: what was
\* taken and what waits in the channel are the frames sent, in order, whoever pauses,
\* stops or closes in between.
FramesInOrder == heard \o chan = Opening(sent)

\* "Waits for all frames to be consumed": OnFinished of a playback that nobody cut
\* short comes after the mixer has taken the whole medium, its padded rest included.
FinishedMeansHeard == pc = "finished" /\ ~stopped => heard = Opening(media)

(* The goroutine as the guild sees it. *)
Phase ==
  CASE pc \in {"failed"} -> "failing"
    [] pc = "finished" -> "ended"
    [] pc \in {"draining", "over"} -> pc
    [] OTHER -> IF sent = 0 THEN "opening" ELSE "streaming"

Contract == INSTANCE PlaybackSession
              WITH phase <- Phase, stopped <- pstopped, cancelled <- ctx

\* The code keeps the promise the guild relies on: one verdict at most, OnFinished
\* only if nobody had stopped the playback when its last frame was sent,
\* OnStreamingError only on a stopped playback.
KeepsContract == Contract!Spec

-----------------------------------------------------------------------------
(* Liveness.  The goroutine and the stoppers run; Stop returns because the *)
(* lock is never held for long.  The network owes an answer only to a      *)
(* request whose context is cancelled.                                     *)

\* Steps that do not wait for the network, and the failure of a cancelled request.
GoesOn ==
  \/ Loops \/ Cuts \/ Rests \/ Sending \/ ReturnsChecked
  \/ StopsItself \/ Failed \/ ClosesChannel \/ Drains \/ CallbackReturns
  \/ ctx /\ (OpenFails \/ ReadFails)

Fairness ==
  /\ WF_vars(GoesOn)
  /\ \A k \in Stoppers : WF_vars(Stopping(k))

FairSpec == Spec /\ Fairness

\* Stopping releases the goroutine, even one that is blocked on the full channel of
\* a paused playback, or that waits for the mixer to take the last frames.
StopReleases == pstopped \/ stopped ~> pc = "over"

\* With a network that answers, a user that resumes and a mixer that pulls, a
\* playback reaches its verdict, however often it is paused.
PlaysToTheEnd ==
  WF_vars(Goroutine) /\ WF_vars(Pulls) /\ WF_vars(Resume) => <>(pc = "over")

=============================================================================
